------------------------------- MODULE MCOdrive -------------------------------
EXTENDS OdriveProperties

DriveCommands == {"disarm cmd", "arm cmd"}
AllCommands == {"disarm cmd", "arm cmd", "calibrating cmd"}
=============================================================================
