-------------------------- MODULE MCLauncherNotifier --------------------------
EXTENDS LauncherNotifier
===============================================================================
