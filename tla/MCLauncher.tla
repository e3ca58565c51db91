------------------------------ MODULE MCLauncher ------------------------------
EXTENDS Launcher

MCFairSpec == LauncherSpec /\ LauncherFairness
===============================================================================
