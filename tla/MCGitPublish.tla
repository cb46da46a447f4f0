---------------------------- MODULE MCGitPublish ----------------------------
EXTENDS GitPublish, TLC

CONSTANTS o1, o2

\* o2 is a child of o1.
Line == [o \in Oids |-> IF o = o1 THEN {o1} ELSE {o1, o2}]

\* A repository nobody has announced, and one that was announced, had o1 and
\* then o2 pushed to its main branch, and main reset to o1.
MainAt(o, ps, parent) ==
    [head |-> Main, refs |-> [NoRefs EXCEPT ![Main] = o], packs |-> ps, parent |-> parent]
PushedOnce  == MainAt(o1, {{o1}}, Empty)
PushedTwice == MainAt(o2, {{o1}, {o2}}, PushedOnce)
Reset       == MainAt(o1, {{o1}, {o2}}, PushedTwice)
Lives == {<<>>, <<Empty, PushedOnce, PushedTwice, Reset>>}

\* What the rest of a behaviour depends on.  Left out: PUTs that can no longer
\* take effect and nobody waits for, what a push or an announcement that is
\* over was about (but whether the parent is superseded), and stored objects
\* and events (but whether they are there and were published).  Superseded
\* stays true, by NeverReinstalled, and installed is the pointer with all its
\* ancestors.
Inert(put) == Superseded(put.expect) /\ ~Waits(put)
Coming     == {put \in puts : ~Inert(put)}
Over(p)    == push[p].at \in Answers /\ \A put \in Coming : put.by # p
Known(p)   == IF Over(p) THEN <<push[p].at, Superseded(push[p].parent)>> ELSE push[p]
Now(a)     == IF ann[a].at \in {"accepted", "failed"} THEN ann[a].at ELSE ann[a]
Stored(m)  == m = Nil \/ (m \in manifests /\ m.packs \subseteq packs)
View == <<pointer, Coming, [p \in Pushes |-> Known(p)], landed, row, [a \in Announces |-> Now(a)],
          NoticeWasPublished,
          \A m \in installed \cup {put.body : put \in Coming} : Stored(m),
          \A p \in Pushes : Stored(push[p].next)>>

Symmetry == Permutations(Pushes) \cup Permutations(Announces)
=============================================================================
