------------------------------ MODULE MC_Lobby ------------------------------
(* Lobby for TLC: the configurations an operator can start the mediator    *)
(* with, in the groups the runs ask about.                                 *)
EXTENDS Lobby, TLC

\* An early fee that the operator does not have to confirm, or a trailing one.
\* With one round, "before the last round" is before the first one.
UnconfirmedEarlyFees ==
    {c \in [confirm : BOOLEAN,
            position : FeePositions \ {"BeforeLastRound"}] :
        c.confirm => c.position = "AfterLastRound"}

\* --fee-require-confirmation with --fee-position before-first.
ConfirmedEarlyFees == {[confirm |-> TRUE, position |-> "BeforeFirstRound"]}

\* --fee-require-confirmation with the default position.
ConfirmedTrailingFees == {[confirm |-> TRUE, position |-> "AfterLastRound"]}

Identities == Permutations(Clients)
=============================================================================
