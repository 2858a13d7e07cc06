---------------------------- MODULE MCCocgiServer ----------------------------
EXTENDS CocgiServer
==============================================================================
