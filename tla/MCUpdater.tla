----------------------------- MODULE MCUpdater -----------------------------
EXTENDS Updater
=============================================================================
