-------------------------- MODULE MCConfigService --------------------------
\* Model-checking instances of ConfigService.  Clients are interchangeable.
EXTENDS ConfigService, TLC

ClientSymmetry == Permutations(Clients)
=============================================================================
