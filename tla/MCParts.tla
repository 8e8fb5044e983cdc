------------------------------ MODULE MCParts ------------------------------
(***************************************************************************)
(* Parts with four items, a few packets of each kind, floats of 6 bits     *)
(* against ints of 9, and prices at both ends of a type of 4.              *)
(***************************************************************************)
EXTENDS Parts, TLC

MCValue ==
  128 :> {<<258, 0, 65535>>}
    @@ 129 :> {<< <<>> >>, << <<258, 3>> >>}
    @@ 16 :> {<< <<110, 111>> >>}
    @@ 32 :> {<< <<>>, 86399 >>, << <<85, 78, 49>>, 0 >>}
    @@ 33 :> {<< <<85>>, 66, 100, 16777217, 110, 86399, 8000 >>}
    @@ 64 :> {<< 10 >>}
    @@ 65 :> {<< >>}

(* Only what clients send and the server reads. *)
MCClientValue == [MCValue EXCEPT ![16] = {}, ![33] = {}, ![65] = {}]

MCTime == {-1, 0, 7}

MCPrice == {-8, -3, 7}
=============================================================================
