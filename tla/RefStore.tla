------------------------------ MODULE RefStore ------------------------------
(***************************************************************************)
(* What a hosted Git repository promises its pushers, whatever stores it:  *)
(* one map from ref names to object ids, changed by whole pushes.  A push  *)
(* names, for every ref it moves, the value it believes the ref has and    *)
(* the value it wants; it takes effect at one instant, completely, only if *)
(* every belief is right at that instant, and at most once.                *)
(***************************************************************************)
CONSTANTS
    Refs,       \* ref names
    Oids,       \* object ids of commits
    Nil,        \* "no such ref"
    Pushes      \* the push requests

VARIABLES
    refs,       \* the published ref map
    want,       \* push -> the ref updates it asks for, once it has asked
    done        \* pushes that took effect

Values  == Oids \cup {Nil}
Updates == UNION {[D -> Values \X Values] : D \in (SUBSET Refs) \ {{}}}

Init ==
    /\ refs \in [Refs -> Values]
    /\ want = [p \in Pushes |-> Nil]
    /\ done = {}

Ask(p) ==
    /\ want[p] = Nil
    /\ \E u \in Updates : want' = [want EXCEPT ![p] = u]
    /\ UNCHANGED <<refs, done>>

Commit(p) ==
    /\ want[p] # Nil
    /\ p \notin done
    /\ \A r \in DOMAIN want[p] : refs[r] = want[p][r][1]
    /\ refs' = [r \in Refs |-> IF r \in DOMAIN want[p] THEN want[p][r][2] ELSE refs[r]]
    /\ done' = done \cup {p}
    /\ UNCHANGED want

\* A push that is over, whether it took effect or not.
Leave(p) ==
    /\ want' = [want EXCEPT ![p] = Nil]
    /\ UNCHANGED <<refs, done>>

Next == \E p \in Pushes : Ask(p) \/ Commit(p) \/ Leave(p)

Spec == Init /\ [][Next]_<<refs, want, done>>
=============================================================================
