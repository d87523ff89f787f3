---------------------------- MODULE MCAppStartup ----------------------------
EXTENDS AppStartup
=============================================================================
