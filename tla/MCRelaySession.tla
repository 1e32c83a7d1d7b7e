--------------------------- MODULE MCRelaySession ---------------------------
(***************************************************************************)
(* RelaySession on small instances.  Salts are interchangeable: keys made  *)
(* from them are only compared.                                            *)
(***************************************************************************)
EXTENDS RelaySession, TLC

CONSTANTS secret, salt1, salt2, URL

endpoint == NewV2(secret, <<[sets |-> "maxFrameSize", n |-> 60]>>)
sharedSecret == Secret(endpoint)
cap == endpoint.maxFrameSize

SaltSymmetry == Permutations(Salts)
=============================================================================
