----------------------------- MODULE TokenBucket -----------------------------
(***************************************************************************)
(* What a rate limiter promises: each key has a credit that grows with     *)
(* time up to a limit, a request is admitted exactly if there is credit    *)
(* for it and then uses some up, and the credit may be restored in full.   *)
(***************************************************************************)
EXTENDS Integers

CONSTANTS Key,    \* whose requests are counted together
          Limit,  \* the most credit a key can have
          Cost,   \* what a request costs
          Growth  \* what a key gains in a unit of time

VARIABLES credit, \* the credit of each key
          answer  \* the last request that was decided, as <<key, admitted>>

Atmost(c) == IF c < Limit THEN c ELSE Limit

tbVars == <<credit, answer>>

TbInit == credit = [k \in Key |-> Limit] /\ answer = <<>>

Admit(k) == /\ credit[k] >= Cost
            /\ credit' = [credit EXCEPT ![k] = @ - Cost]
            /\ answer' = <<k, TRUE>>

Deny(k) == /\ credit[k] < Cost
           /\ answer' = <<k, FALSE>>
           /\ UNCHANGED credit

Restore(K) == /\ credit' = [k \in Key |-> IF k \in K THEN Limit ELSE credit[k]]
              /\ UNCHANGED answer

Grow == /\ credit' = [k \in Key |-> Atmost(credit[k] + Growth)]
        /\ UNCHANGED answer

TbNext == \/ Grow
          \/ \E k \in Key : Admit(k) \/ Deny(k)
          \/ \E K \in SUBSET Key : Restore(K)

TbSpec == TbInit /\ [][TbNext]_tbVars
==============================================================================
