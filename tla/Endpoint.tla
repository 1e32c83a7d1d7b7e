------------------------------ MODULE Endpoint ------------------------------
(***************************************************************************)
(* A V2 endpoint: the secret, the iteration count, the timeout and the cap *)
(* that NewV2 makes of a password and a list of options.  Both NewClientV2 *)
(* and NewServerV2 start with it.                                          *)
(***************************************************************************)
EXTENDS Integers, Sequences

NonceSize == 12
GCMTagSize == 16
MinFrameSizeV2 == NonceSize + GCMTagSize
MaxFrameSizeV2 == 16777216
DefaultKDFIterations == 600000
DefaultIOTimeout == 30

DefaultV2(password) ==
  [password |-> password, iterations |-> DefaultKDFIterations,
   timeout |-> DefaultIOTimeout, maxFrameSize |-> MaxFrameSizeV2]

\* Each option leaves the endpoint as it is when its value is out of range.
WithIterations(v, n) == IF n > 0 THEN [v EXCEPT !.iterations = n] ELSE v
WithHandshakeTimeout(v, d) == IF d > 0 THEN [v EXCEPT !.timeout = d] ELSE v
WithMaxFrameSize(v, n) ==
  IF n >= MinFrameSizeV2 THEN [v EXCEPT !.maxFrameSize = n] ELSE v

Options == [sets : {"iterations", "timeout", "maxFrameSize"}, n : Int]
Apply(v, opt) ==
  CASE opt.sets = "iterations" -> WithIterations(v, opt.n)
    [] opt.sets = "timeout" -> WithHandshakeTimeout(v, opt.n)
    [] opt.sets = "maxFrameSize" -> WithMaxFrameSize(v, opt.n)

\* The options in turn, so that the last valid one of a kind counts.
NewV2(password, opts) ==
  LET after[k \in 0..Len(opts)] ==
        IF k = 0 THEN DefaultV2(password) ELSE Apply(after[k - 1], opts[k])
  IN IF password = "" THEN "ErrWeakPassword" ELSE after[Len(opts)]

\* What deriveKey takes from an endpoint; it has its own default for the count.
Secret(v) == <<v.password, IF v.iterations <= 0 THEN DefaultKDFIterations
                                                ELSE v.iterations>>
=============================================================================
