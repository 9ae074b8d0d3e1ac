------------------------------- MODULE Scopes -------------------------------
(***************************************************************************)
(* What call frames are for (vm.h:10-15): a stack of scopes.  Entering a   *)
(* function pushes a scope, leaving it restores the one before exactly as  *)
(* it was, and only the innermost scope's variables ever change.  What a   *)
(* new scope holds is left open: vm.c does not clear the frames it reuses. *)
(***************************************************************************)
EXTENDS Sequences, Naturals

VARIABLE scopes    \* outermost first; [return_to, variables]

Innermost == scopes[Len(scopes)]
Outer == SubSeq(scopes, 1, Len(scopes) - 1)

Init == scopes = <<>>

(* the root scope, from which nothing returns *)
Start == scopes = <<>> /\ Len(scopes') = 1

Enter == scopes # <<>> /\ Len(scopes') = Len(scopes) + 1
                       /\ SubSeq(scopes', 1, Len(scopes)) = scopes

Bind == /\ scopes # <<>> /\ Len(scopes') = Len(scopes)
        /\ SubSeq(scopes', 1, Len(scopes) - 1) = Outer
        /\ scopes'[Len(scopes)].return_to = Innermost.return_to

Leave == Len(scopes) > 1 /\ scopes' = Outer

Next == Start \/ Enter \/ Bind \/ Leave

Spec == Init /\ [][Next]_scopes
=============================================================================
