----------------------------- MODULE MCLCPSystem -----------------------------
(* A small instance of LCPSystem for TLC. *)
EXTENDS LCPSystem, TLC

CONSTANTS z, k1, k2, mr1, t1, t2

\* The upstream chain: a block per height, and another block at height 2.
Block(h, v, time) == [type_url |-> TM, root |-> ("p" :> v), timestamp |-> time]

b1 == Block(1, 1, 0)
b2 == Block(2, 2, 1)
b3 == Block(3, 3, 2)
f2 == Block(2, 4, 1)

TmClient(h) ==
    [type_url |-> TM, trusting_period |-> 2, clock_drift |-> 2,
     latest_height |-> h, frozen_height |-> 0]

MockState(h) == [type_url |-> MOCK, latest_height |-> h, frozen_height |-> 0]

MockBlock(h) == [type_url |-> MOCK, root |-> <<>>, timestamp |-> h]

InitialStates ==
    {<<TmClient(1), b1>>, <<TmClient(2), f2>>, <<MockState(1), MockBlock(1)>>}

Header(from, h, block) ==
    [message |-> "Header", type_url |-> block.type_url, trusted_height |-> from, height |-> h,
     consensus |-> block]

ClientMessages ==
    {Header(1, 2, b2), Header(2, 3, b3), Header(1, 2, f2), Header(1, 2, MockBlock(2)),
     [message |-> "Misbehaviour", type_url |-> TM,
      header1 |-> Header(1, 2, b2), header2 |-> Header(1, 2, f2)],
     [message |-> "Misbehaviour", type_url |-> MOCK,
      header1 |-> Header(1, 2, MockBlock(2)), header2 |-> Header(1, 2, MockBlock(2))]}

\* A membership, one that does not hold at that height, and an absence.
Queries ==
    {[height |-> 2, path |-> "p", value |-> 2], [height |-> 2, path |-> "p", value |-> 3],
     [height |-> 2, path |-> "q", value |-> None]}

StateIDs ==
    {z} \cup ({TmClient(0)} \X {b1, b2, b3, f2})
        \cup {<<MockState(h), MockBlock(h)>> : h \in 1..2}

Reports == {[address |-> k1, mr_enclave |-> mr1, attestation_time |-> 1]}

ThreadSymmetry == Permutations(Thread)
=============================================================================
