-------------------------- MODULE MCSecureSession --------------------------
(***************************************************************************)
(* SecureSession on small instances.  Sizes are the code's own; the caps   *)
(* are scaled to the sizes of a few messages (see the .cfg files).  Each   *)
(* side is built by NewV2: of two options for the cap the second is out of *)
(* range, as is the iteration count.                                       *)
(***************************************************************************)
EXTENDS SecureSession

CONSTANTS secret, salt1, URL, clientMax, serverMax

endpoint(max) == NewV2(secret,
  <<[sets |-> "maxFrameSize", n |-> max],
    [sets |-> "maxFrameSize", n |-> MinFrameSizeV2 - 1],
    [sets |-> "iterations", n |-> 0]>>)
clientSecret == Secret(endpoint(clientMax))
serverSecret == Secret(endpoint(serverMax))
clientCap == endpoint(clientMax).maxFrameSize
serverCap == endpoint(serverMax).maxFrameSize
=============================================================================
