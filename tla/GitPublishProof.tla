--------------------------- MODULE GitPublishProof ---------------------------
(***************************************************************************)
(* Proofs about GitPublish, for any refs, commits, pushes, announcements   *)
(* and histories of the repository.  Three facts carry everything: every   *)
(* manifest ever stored is whole, published or not; a conditional PUT in   *)
(* flight is the one its push planned, against the manifest its client's   *)
(* beliefs were checked with, or a copy that comes too late (PutFits); and *)
(* nothing the pointer has named has the current manifest as its parent    *)
(* (Chain), so a manifest that has cannot have been named before.          *)
(***************************************************************************)
EXTENDS GitPublish, FiniteSetTheorems, TLAPS

(* Nil is a value of its own: no manifest, and no set of ref updates.      *)
NilIsNothing ==
    /\ \A head, refs, ps, parent :
          [head |-> head, refs |-> refs, packs |-> ps, parent |-> parent] # Nil
    /\ Nil \notin RefMap!Updates

(* What a push has uploaded: its manifest, built on the parent in which    *)
(* every ref has the value its client saw, and which the pointer named.    *)
Planned(p) ==
    /\ push[p].parent \in installed \cup {Nil}
    /\ push[p].want \in RefMap!Updates
    /\ push[p].next \in manifests
    /\ push[p].next.parent = push[p].parent
    /\ push[p].next.refs = RefsAfter(p, Base(push[p].parent))
    /\ \A r \in DOMAIN push[p].want : Base(push[p].parent).refs[r] = push[p].want[r][1]

NoPutBy(p) == \A put \in puts : put.by # p

PushStates == {"idle", "posting", "uploaded", "swapping", "committed"} \cup Answers
Untold == {"idle", "posting", "uploaded", "rejected", "partial", "refused"}
Acting == {"swapping", "committed", "error"}

(* What a push knows is true of the store.                                 *)
PushFits(p) ==
    /\ DOMAIN push[p] = {"at", "want", "sent", "parent", "next"}
    /\ push[p].at \in PushStates
    /\ push[p].parent \in manifests \cup {Nil}
    /\ push[p].next \in manifests \cup {Nil}
    /\ push[p].at = "idle" => push[p].want = Nil
    /\ push[p].at = "posting" => push[p].want \in RefMap!Updates
    /\ push[p].at \in Untold => p \notin landed /\ NoPutBy(p)
    /\ push[p].at = "uploaded" => Planned(p)
    /\ push[p].at \in {"committed", "success"} => p \in landed
    /\ push[p].at = "committed" => push[p].next \in installed
    /\ push[p].at = "conflict" => Superseded(push[p].parent)

(* A conditional PUT in flight is the plan of its push, or a seed.  Once a *)
(* copy of it has landed, or its handler is through, it comes too late.    *)
PutFits(put) ==
    /\ put.by \in Pushes \cup Announces
    /\ put.body \in manifests
    /\ put.expect \in manifests \cup {Nil}
    /\ put.body.parent = put.expect
    /\ put.by \in Pushes =>
         /\ push[put.by].at \in Acting \cup {"success", "conflict"}
         /\ push[put.by].at \in Acting =>
              /\ put = [by |-> put.by, expect |-> push[put.by].parent, body |-> push[put.by].next]
              /\ Planned(put.by)
         /\ put.by \in landed \/ push[put.by].at \in {"success", "conflict"} =>
              Superseded(put.expect)
    /\ put.by \in Announces => put.body = Empty

AnnFits(a) ==
    /\ DOMAIN ann[a] = {"at", "fresh"}
    /\ ann[a].at \in {"emitting", "accepted"} => pointer # Nil
    /\ ann[a].at = "emitting" => Empty \in installed

(* The pointer names the last of a chain.                                  *)
Chain ==
    /\ pointer = Nil => installed = {}
    /\ pointer # Nil => pointer \in installed
    /\ \A m \in installed : /\ m.parent \in installed \cup {Nil}
                            /\ pointer # Nil => m.parent # pointer

(* A stored manifest is whole whether or not it is ever published.         *)
Sound(m) ==
    /\ m # Nil /\ WellFormed(m) /\ Whole(m)
    /\ IsFiniteSet(m.packs)

StoreOK ==
    /\ packs \in SUBSET SUBSET Oids
    /\ \A m \in manifests : Sound(m) /\ m.packs \subseteq packs /\ m.parent \in manifests \cup {Nil}
    /\ pointer \in manifests \cup {Nil}
    /\ landed \subseteq Pushes /\ installed \subseteq manifests

NoticeOK ==
    /\ row \in BOOLEAN
    /\ notice \in [Refs -> Oids \cup {Nil}] \cup {Nil}
    /\ NoticeWasPublished

(* The inductive invariant.                                                *)
GitInv ==
    /\ StoreOK /\ NoticeOK /\ Chain
    /\ DOMAIN push = Pushes /\ DOMAIN ann = Announces
    /\ \A p \in Pushes : PushFits(p)
    /\ \A put \in puts : PutFits(put)
    /\ \A a \in Announces : AnnFits(a)

---------------------------------------------------------------------------
(* What is reachable from a ref map is a set of commits.                   *)
LEMMA ClosureTyped ==
    ASSUME NEW refs \in [Refs -> Oids \cup {Nil}]
    PROVE  Closure(Tips(refs)) \subseteq Oids
BY GraphAssumption DEF Closure, Tips

\* The manifest a new repository is seeded with is sound.
LEMMA EmptySound ==
    ASSUME NilIsNothing
    PROVE  Sound(Empty) /\ Empty.packs = {} /\ Empty.refs = NoRefs /\ Empty.parent = Nil
<1>1. /\ DOMAIN Empty = {"head", "refs", "packs", "parent"}
      /\ Empty.head = Main /\ Empty.refs = NoRefs /\ Empty.packs = {} /\ Empty.parent = Nil
  BY DEF Empty
<1>2. Empty # Nil
  BY DEF Empty, NilIsNothing
<1>3. NoRefs \in [Refs -> Oids \cup {Nil}] /\ Tips(NoRefs) = {} /\ Branches(NoRefs) = {}
  BY DEF NoRefs, Tips, Branches
<1>4. Closure({}) = {}
  BY DEF Closure
<1>5. IsFiniteSet({}) /\ Cardinality({}) = 0
  BY FS_EmptySet
<1>6. Whole(Empty)
  BY <1>1, <1>3, <1>4, <1>5, PacksAssumption DEF Whole
<1>7. WellFormed(Empty)
  BY <1>1, <1>3, GraphAssumption DEF WellFormed
<1> QED
  BY <1>1, <1>2, <1>5, <1>6, <1>7 DEF Sound

(* What a push builds on is sound, be it the pointed manifest or nothing.  *)
LEMMA BaseSound ==
    ASSUME NilIsNothing, NEW m, m = Nil \/ Sound(m)
    PROVE  Sound(Base(m))
BY EmptySound DEF Base

(* The branch a composed manifest's HEAD names exists if any does.         *)
LEMMA HeadPublished ==
    ASSUME NEW refs, NEW head \in Refs
    PROVE  /\ PublishedHead(refs, head) \in Refs
           /\ Branches(refs) # {} => PublishedHead(refs, head) \in Branches(refs)
<1>1. Branches(refs) # {} => (CHOOSE r \in Branches(refs) : TRUE) \in Branches(refs)
  OBVIOUS
<1>2. Branches(refs) \subseteq Refs
  BY DEF Branches
<1> QED
  BY <1>1, <1>2 DEF PublishedHead

\* A composed manifest is sound when its packs hold what its refs reach and
\* are few enough.
LEMMA ComposeSound ==
    ASSUME NilIsNothing, NEW refs \in [Refs -> Oids \cup {Nil}], NEW parent,
           parent = Nil \/ Sound(parent), NEW ps \in SUBSET SUBSET Oids, IsFiniteSet(ps),
           Closure(Tips(refs)) \subseteq UNION ps, Cardinality(ps) <= MaxPacks
    PROVE  /\ Sound(Compose(refs, parent, ps))
           /\ Compose(refs, parent, ps).parent = parent
           /\ Compose(refs, parent, ps).refs = refs
           /\ Compose(refs, parent, ps).packs = ps
<1> DEFINE m == Compose(refs, parent, ps)
           head == PublishedHead(refs, Base(parent).head)
<1>1. Base(parent).head \in Refs
  BY BaseSound DEF Sound, WellFormed
<1>2. head \in Refs /\ (Branches(refs) # {} => head \in Branches(refs))
  BY <1>1, HeadPublished
<1>3. /\ DOMAIN m = {"head", "refs", "packs", "parent"}
      /\ m.head = head /\ m.refs = refs /\ m.packs = ps /\ m.parent = parent
  BY DEF Compose
<1>4. m # Nil
  BY DEF Compose, NilIsNothing
<1> HIDE DEF m, head
<1>5. WellFormed(m)
  BY <1>2, <1>3 DEF WellFormed
<1>6. Whole(m)
  BY <1>2, <1>3 DEF Whole
<1>7. Sound(m)
  BY <1>3, <1>4, <1>5, <1>6 DEF Sound
<1> QED
  BY <1>3, <1>7 DEF m

(* A repack holds all that is reachable, in one pack or in several.        *)
LEMMA RepacksHold ==
    ASSUME NEW refs \in [Refs -> Oids \cup {Nil}], NEW ps \in Repacks(refs)
    PROVE  /\ ps \in SUBSET SUBSET Oids /\ IsFiniteSet(ps)
           /\ Closure(Tips(refs)) \subseteq UNION ps
<1>1. PICK all : all = Closure(Tips(refs))
  OBVIOUS
<1>2. all \subseteq Oids /\ IsFiniteSet(all)
  BY <1>1, ClosureTyped, NamesAssumption, FS_Subset
<1>3. ps \subseteq SUBSET all /\ UNION ps = all
  BY <1>1 DEF Repacks
<1>4. IsFiniteSet(SUBSET all)
  BY <1>2, FS_SUBSET
<1>5. IsFiniteSet(ps)
  BY <1>3, <1>4, FS_Subset
<1> QED
  BY <1>1, <1>2, <1>3, <1>5

(* Every manifest cas_publish may write on a sound one is sound.           *)
LEMMA CandidatesSound ==
    ASSUME NilIsNothing, NEW refs \in [Refs -> Oids \cup {Nil}], NEW parent,
           parent = Nil \/ Sound(parent), NEW m \in CandidateManifests(refs, parent)
    PROVE  Sound(m) /\ m.parent = parent /\ m.refs = refs
<1>1. PICK b : b = Base(parent)
  OBVIOUS
<1>2. /\ IsFiniteSet(b.packs) /\ Cardinality(b.packs) <= MaxPacks
      /\ b.packs \in SUBSET SUBSET Oids /\ b.refs \in [Refs -> Oids \cup {Nil}]
      /\ Closure(Tips(b.refs)) \subseteq UNION b.packs
  BY <1>1, BaseSound DEF Sound, WellFormed, Whole
<1>3. Cardinality(b.packs) \in Nat /\ MaxPacks \in Nat
  BY <1>2, FS_CardinalityType, PacksAssumption
<1>4. CASE m \in Repacked(refs, parent)
  <2>1. PICK ps \in Repacks(refs) :
          /\ compacted_pack_set_is_usable(Cardinality(b.packs), Cardinality(ps))
          /\ m = Compose(refs, parent, ps)
    BY <1>1, <1>4 DEF Repacked
  <2>2. ps \in SUBSET SUBSET Oids /\ IsFiniteSet(ps) /\ Closure(Tips(refs)) \subseteq UNION ps
    BY RepacksHold
  <2>3. Cardinality(ps) \in Nat
    BY <2>2, FS_CardinalityType
  <2>4. Cardinality(ps) <= MaxPacks
    BY <1>2, <1>3, <2>1, <2>3 DEF compacted_pack_set_is_usable
  <2> QED
    BY <2>1, <2>2, <2>4, ComposeSound
<1>5. CASE m \in Extended(refs, parent)
  <2>1. PICK new : new = Closure(Tips(refs)) \ Closure(Tips(b.refs))
    OBVIOUS
  <2>2. new \subseteq Oids /\ Closure(Tips(refs)) \subseteq new \cup UNION b.packs
    BY <1>2, <2>1, ClosureTyped
  <2>3. \/ new = {} /\ m = Compose(refs, parent, b.packs)
        \/ ~(Cardinality(b.packs) >= MaxPacks) /\ m = Compose(refs, parent, b.packs \cup {new})
    BY <1>1, <1>5, <2>1 DEF Extended, Delta
  <2>4. CASE new = {} /\ m = Compose(refs, parent, b.packs)
    BY <1>2, <2>2, <2>4, ComposeSound
  <2>5. CASE ~(Cardinality(b.packs) >= MaxPacks) /\ m = Compose(refs, parent, b.packs \cup {new})
    <3>1. PICK ps : ps = b.packs \cup {new}
      OBVIOUS
    <3>2. IsFiniteSet(ps) /\ Cardinality(ps) <= Cardinality(b.packs) + 1
      BY <1>2, <1>3, <3>1, FS_AddElement
    <3>3. Cardinality(ps) \in Nat
      BY <3>2, FS_CardinalityType
    <3>4. Cardinality(ps) <= MaxPacks
      BY <1>3, <2>5, <3>2, <3>3
    <3>5. ps \in SUBSET SUBSET Oids /\ Closure(Tips(refs)) \subseteq UNION ps
      BY <1>2, <2>2, <3>1
    <3> QED
      BY <2>5, <3>1, <3>2, <3>4, <3>5, ComposeSound
  <2> QED
    BY <2>3, <2>4, <2>5
<1> QED
  BY <1>4, <1>5 DEF CandidateManifests

---------------------------------------------------------------------------
(* Init.                                                                   *)

\* A repository starts with the manifests its pointer has named, each the
\* parent of the next.
LEMMA GitInvInit ==
    ASSUME NilIsNothing, Init
    PROVE  GitInv
<1>1. PICK h \in Starts :
         /\ installed = Range(h) /\ manifests = Range(h)
         /\ packs = UNION {m.packs : m \in Range(h)}
         /\ pointer = IF h = <<>> THEN Nil ELSE Last(h)
         /\ notice = IF h = <<>> THEN Nil ELSE Last(h).refs
         /\ row = (h # <<>>)
  BY DEF Init
<1>2. /\ puts = {} /\ landed = {}
      /\ push = [p \in Pushes |-> Request("idle", Nil, {})]
      /\ ann = [a \in Announces |-> [at |-> "idle", fresh |-> FALSE]]
  BY DEF Init
<1>3. History(h)
  BY StartsAssumption
<1>4. h \in Seq(Range(h)) /\ DOMAIN h = 1..Len(h) /\ Len(h) \in Nat
  BY <1>3 DEF History
<1>5. \A m : m \in Range(h) <=> \E i \in 1..Len(h) : m = h[i]
  BY <1>4 DEF Range
<1>6. \A i \in 1..Len(h) :
         /\ h[i] # Nil /\ WellFormed(h[i]) /\ Whole(h[i])
         /\ h[i].parent = IF i = 1 THEN Nil ELSE h[i - 1]
         /\ \A j \in 1..Len(h) : h[i] = h[j] => i = j
  BY <1>3, <1>4 DEF History
<1>7. h # <<>> => Len(h) \in 1..Len(h) /\ Last(h) = h[Len(h)]
  BY <1>4 DEF Last
<1>8. h = <<>> => Len(h) = 0
  OBVIOUS
<1>9. ASSUME NEW m \in Range(h)
      PROVE  /\ m # Nil /\ WellFormed(m) /\ Whole(m) /\ IsFiniteSet(m.packs)
             /\ m.parent \in Range(h) \cup {Nil}
             /\ h # <<>> => m.parent # Last(h)
  <2>1. PICK i \in 1..Len(h) : m = h[i]
    BY <1>5
  <2>2. m # Nil /\ WellFormed(m) /\ Whole(m)
    BY <1>6, <2>1
  <2>3. IsFiniteSet(m.packs)
    <3>1. m.packs \in SUBSET SUBSET Oids /\ IsFiniteSet(SUBSET Oids)
      BY <2>2, FS_SUBSET, NamesAssumption DEF WellFormed
    <3> QED
      BY <3>1, FS_Subset
  <2>4. CASE i = 1
    BY <1>4, <1>6, <1>7, <2>1, <2>2, <2>3, <2>4
  <2>5. CASE i # 1
    <3>1. i - 1 \in 1..Len(h) /\ i - 1 # Len(h) /\ m.parent = h[i - 1]
      BY <1>4, <1>6, <2>1, <2>5
    <3>2. h # <<>> => m.parent # Last(h)
      BY <1>6, <1>7, <3>1
    <3>3. m.parent \in Range(h)
      BY <1>5, <3>1
    <3> QED
      BY <2>2, <2>3, <3>2, <3>3
  <2> QED
    BY <2>4, <2>5
<1>10. h # <<>> => Last(h) \in Range(h)
  BY <1>5, <1>7
<1>11. h = <<>> => Range(h) = {}
  BY <1>5, <1>8
<1>12. StoreOK
  <2>1. packs \in SUBSET SUBSET Oids
    BY <1>1, <1>9 DEF WellFormed
  <2>2. \A m \in Range(h) : m.packs \subseteq packs
    BY <1>1
  <2> QED
    BY <1>1, <1>2, <1>9, <1>10, <2>1, <2>2 DEF StoreOK, Sound
<1>13. NoticeOK
  <2>1. row \in BOOLEAN
    BY <1>1
  <2>2. notice \in [Refs -> Oids \cup {Nil}] \cup {Nil}
    BY <1>1, <1>9, <1>10 DEF WellFormed
  <2>3. NoticeWasPublished
    BY <1>1, <1>10 DEF NoticeWasPublished
  <2> QED
    BY <2>1, <2>2, <2>3 DEF NoticeOK
<1>14. Chain
  BY <1>1, <1>9, <1>10, <1>11 DEF Chain
<1>15. \A p \in Pushes : PushFits(p)
  BY <1>2 DEF PushFits, Request, PushStates, Untold, Answers, NoPutBy
<1>16. \A a \in Announces : AnnFits(a)
  BY <1>2 DEF AnnFits
<1> QED
  BY <1>2, <1>12, <1>13, <1>14, <1>15, <1>16 DEF GitInv

---------------------------------------------------------------------------
(* The frame.                                                              *)

(* The pointer stays or names a manifest it has never named.               *)
Onward == pointer' = pointer \/ pointer' \notin installed \cup {Nil}

\* What is superseded once is superseded for good.
LEMMA SupersededStays ==
    ASSUME NEW m, Superseded(m), Onward, installed \subseteq installed'
    PROVE  Superseded(m)'
BY DEF Superseded, Onward

\* A plan stands while the push and the stored manifests do.
LEMMA PlanStays ==
    ASSUME NEW p, Planned(p), push'[p].want = push[p].want,
           push'[p].parent = push[p].parent, push'[p].next = push[p].next,
           manifests \subseteq manifests', installed \subseteq installed'
    PROVE  Planned(p)'
<1>1. RefsAfter(p, Base(push[p].parent))' = RefsAfter(p, Base(push[p].parent))
  BY DEF RefsAfter, Base
<1> QED
  BY <1>1 DEF Planned, Base

\* What a push knows stays true while the store only grows.
LEMMA PushStays ==
    ASSUME NEW p, PushFits(p), push'[p] = push[p], manifests \subseteq manifests',
           installed \subseteq installed', Onward, p \in landed' <=> p \in landed,
           NoPutBy(p) => NoPutBy(p)'
    PROVE  PushFits(p)'
<1>1. push[p].at = "conflict" => Superseded(push[p].parent)'
  <2>1. push[p].at = "conflict" => Superseded(push[p].parent)
    BY DEF PushFits
  <2> QED
    BY <2>1 DEF Superseded, Onward
<1> QED
  BY <1>1, PlanStays DEF PushFits

\* So does what is said of a PUT in flight.
LEMMA PutStays ==
    ASSUME NEW put, PutFits(put), manifests \subseteq manifests',
           installed \subseteq installed', Onward,
           put.by \in Pushes => /\ push'[put.by] = push[put.by]
                                /\ put.by \in landed' <=> put.by \in landed
    PROVE  PutFits(put)'
<1>1. put.by \in Pushes /\ push[put.by].at \in Acting => Planned(put.by)'
  BY PlanStays DEF PutFits
<1>2. Superseded(put.expect) => Superseded(put.expect)'
  BY SupersededStays
<1> QED
  BY <1>1, <1>2 DEF PutFits

\* And of an announcement, as the pointer never goes away.
LEMMA AnnStays ==
    ASSUME NEW a, AnnFits(a), ann'[a] = ann[a], pointer # Nil => pointer' # Nil,
           installed \subseteq installed'
    PROVE  AnnFits(a)'
BY DEF AnnFits

(* A step of push p that leaves the pointer and the announcements alone.   *)
LEMMA PushStepKeeps ==
    ASSUME GitInv, NEW p \in Pushes,
           DOMAIN push' = Pushes, \A q \in Pushes : q # p => push'[q] = push[q],
           UNCHANGED <<pointer, ann, landed, installed>>,
           manifests \subseteq manifests',
           \A put \in puts' : put \in puts \/ put.by = p,
           StoreOK', NoticeOK',
           PushFits(p)', \A put \in puts' : put.by = p => PutFits(put)'
    PROVE  GitInv'
<1>0. Onward /\ installed \subseteq installed'
  BY DEF Onward
<1>1. \A q \in Pushes : PushFits(q)'
  <2> SUFFICES ASSUME NEW q \in Pushes, q # p PROVE PushFits(q)'
    OBVIOUS
  <2>1. NoPutBy(q) => NoPutBy(q)'
    BY DEF NoPutBy
  <2> QED
    BY <1>0, <2>1, PushStays DEF GitInv
<1>2. \A put \in puts' : PutFits(put)'
  <2> SUFFICES ASSUME NEW put \in puts', put.by # p PROVE PutFits(put)'
    OBVIOUS
  <2> QED
    BY <1>0, PutStays DEF GitInv
<1>3. \A a \in Announces : AnnFits(a)'
  BY AnnStays DEF GitInv
<1>4. Chain'
  BY DEF Chain, GitInv
<1> QED
  BY <1>1, <1>2, <1>3, <1>4 DEF GitInv

(* What a push that has been answered leaves behind.                       *)
LEMMA AnsweredPush ==
    ASSUME NEW p \in Pushes, NEW a, DOMAIN push = Pushes, push' = Answered(p, a)
    PROVE  /\ DOMAIN push' = Pushes
           /\ DOMAIN push'[p] = {"at", "want", "sent", "parent", "next"}
           /\ push'[p].at = a /\ push'[p].want = Nil
           /\ push'[p].parent = push[p].parent /\ push'[p].next = Nil
           /\ \A q \in Pushes : q # p => push'[q] = push[q]
BY DEF Answered, Request

\* The client decides what to move from the refs it was shown.
LEMMA AdvertiseKeeps ==
    ASSUME NilIsNothing, GitInv, NEW p \in Pushes, Advertise(p)
    PROVE  GitInv'
<1>0. push[p].at = "idle" /\ UNCHANGED <<store, row, ann, notice, hist>>
  BY DEF Advertise
<1>1. UNCHANGED <<packs, manifests, pointer, puts, row, ann, notice, landed, installed>>
  BY <1>0 DEF store, hist
<1>2. PICK w, sent : w \in RefMap!Updates /\ push' = [push EXCEPT ![p] = Request("posting", w, sent)]
  <2>1. PICK D \in (SUBSET Refs) \ {{}} : \E new \in [D -> Oids \cup {Nil}] :
           push' = [push EXCEPT ![p] =
             Request("posting", [r \in D |-> <<Base(pointer).refs[r], new[r]>>],
                     Closure({new[r] : r \in D} \ {Nil}) \ Closure(Tips(Base(pointer).refs)))]
    BY DEF Advertise
  <2>0. PICK new \in [D -> Oids \cup {Nil}] :
           push' = [push EXCEPT ![p] =
             Request("posting", [r \in D |-> <<Base(pointer).refs[r], new[r]>>],
                     Closure({new[r] : r \in D} \ {Nil}) \ Closure(Tips(Base(pointer).refs)))]
    BY <2>1
  <2>2. Base(pointer).refs \in [Refs -> Oids \cup {Nil}]
    BY BaseSound DEF GitInv, StoreOK, Sound, WellFormed
  <2>3. [r \in D |-> <<Base(pointer).refs[r], new[r]>>] \in RefMap!Updates
    BY <2>0, <2>2 DEF RefMap!Updates, RefMap!Values
  <2> QED
    BY <2>0, <2>3
<1>3. PushFits(p)
  BY DEF GitInv
<1>4. /\ DOMAIN push' = Pushes /\ \A q \in Pushes : q # p => push'[q] = push[q]
      /\ DOMAIN push'[p] = {"at", "want", "sent", "parent", "next"}
      /\ push'[p].at = "posting" /\ push'[p].want = w
      /\ push'[p].parent = Nil /\ push'[p].next = Nil
  BY <1>2 DEF Request, GitInv
<1>5. p \notin landed /\ NoPutBy(p)
  BY <1>0, <1>3 DEF PushFits, Untold
<1>6. PushFits(p)'
  BY <1>1, <1>2, <1>4, <1>5 DEF PushFits, PushStates, Untold, NoPutBy
<1>7. StoreOK' /\ NoticeOK'
  BY <1>1 DEF GitInv, StoreOK, NoticeOK, NoticeWasPublished
<1> QED
  BY <1>1, <1>4, <1>5, <1>6, <1>7, PushStepKeeps DEF NoPutBy

(* A push is told that nothing of it was published, before it could be.    *)
LEMMA TurnedDown ==
    ASSUME GitInv, NEW p \in Pushes, push[p].at = "posting",
           NEW a \in {"rejected", "partial", "refused"}, push' = Answered(p, a),
           UNCHANGED <<store, row, ann, notice, hist>>
    PROVE  GitInv'
<1>1. UNCHANGED <<packs, manifests, pointer, puts, row, ann, notice, landed, installed>>
  BY DEF store, hist
<1>2. p \notin landed /\ NoPutBy(p)
  BY DEF GitInv, PushFits, Untold
<1>3. /\ DOMAIN push' = Pushes
      /\ DOMAIN push'[p] = {"at", "want", "sent", "parent", "next"}
      /\ push'[p].at = a /\ push'[p].want = Nil
      /\ push'[p].parent = push[p].parent /\ push'[p].next = Nil
      /\ \A q \in Pushes : q # p => push'[q] = push[q]
  BY AnsweredPush DEF GitInv
<1>4. PushFits(p)'
  <2>1. push[p].parent \in manifests \cup {Nil}
    BY DEF GitInv, PushFits
  <2> QED
    BY <1>1, <1>2, <1>3, <2>1 DEF PushFits, PushStates, Answers, Untold, NoPutBy
<1>5. StoreOK' /\ NoticeOK'
  BY <1>1 DEF GitInv, StoreOK, NoticeOK, NoticeWasPublished
<1> QED
  BY <1>1, <1>2, <1>3, <1>4, <1>5, PushStepKeeps DEF NoPutBy

\* hydrate_for_write, receive-pack and cas_publish up to the manifest: the
\* plan is made on the pointer as it is read here.
LEMMA PrepareKeeps ==
    ASSUME NilIsNothing, GitInv, NEW p \in Pushes, Prepare(p)
    PROVE  GitInv'
<1>0. /\ push[p].at = "posting" /\ Acceptable(p, Base(pointer)) = DOMAIN push[p].want
      /\ UNCHANGED <<pointer, puts, row, ann, notice, landed, installed>>
  BY DEF Prepare, hist
<1>1. PICK m \in CandidateManifests(RefsAfter(p, Base(pointer)), pointer) :
         /\ packs' = packs \cup m.packs
         /\ manifests' = manifests \cup {m}
         /\ push' = [push EXCEPT ![p].at = "uploaded", ![p].sent = {},
                                 ![p].parent = pointer, ![p].next = m]
  BY DEF Prepare
<1>2. PushFits(p) /\ push[p].want \in RefMap!Updates /\ p \notin landed /\ NoPutBy(p)
  BY <1>0 DEF GitInv, PushFits, Untold
<1>3. pointer = Nil \/ Sound(pointer)
  BY DEF GitInv, StoreOK
<1>4. RefsAfter(p, Base(pointer)) \in [Refs -> Oids \cup {Nil}]
  <2>1. Base(pointer).refs \in [Refs -> Oids \cup {Nil}]
    BY <1>3, BaseSound DEF Sound, WellFormed
  <2>2. \A r \in DOMAIN push[p].want : push[p].want[r][2] \in Oids \cup {Nil}
    BY <1>2 DEF RefMap!Updates, RefMap!Values
  <2> QED
    BY <2>1, <2>2 DEF RefsAfter
<1>5. Sound(m) /\ m.parent = pointer /\ m.refs = RefsAfter(p, Base(pointer))
  BY <1>3, <1>4, CandidatesSound
<1>6. /\ DOMAIN push' = Pushes /\ \A q \in Pushes : q # p => push'[q] = push[q]
      /\ DOMAIN push'[p] = {"at", "want", "sent", "parent", "next"}
      /\ push'[p].at = "uploaded" /\ push'[p].want = push[p].want
      /\ push'[p].parent = pointer /\ push'[p].next = m
  BY <1>1, <1>2 DEF GitInv, PushFits
<1>7. Planned(p)'
  <2>1. RefsAfter(p, Base(push[p].parent))' = RefsAfter(p, Base(pointer))
    BY <1>0, <1>6 DEF RefsAfter, Base
  <2>2. \A r \in DOMAIN push[p].want : Base(pointer).refs[r] = push[p].want[r][1]
    BY <1>0 DEF Acceptable
  <2> QED
    BY <1>0, <1>1, <1>2, <1>5, <1>6, <2>1, <2>2 DEF Planned, Base, GitInv, Chain
<1>8. pointer \in manifests \cup {Nil}
  BY DEF GitInv, StoreOK
<1>9. PushFits(p)'
  BY <1>0, <1>1, <1>2, <1>6, <1>7, <1>8 DEF PushFits, PushStates, Untold, NoPutBy
<1>10. StoreOK'
  BY <1>0, <1>1, <1>5, <1>8 DEF GitInv, StoreOK, Sound, WellFormed
<1>11. NoticeOK'
  BY <1>0 DEF GitInv, NoticeOK, NoticeWasPublished
<1> QED
  BY <1>0, <1>1, <1>2, <1>6, <1>9, <1>10, <1>11, PushStepKeeps DEF NoPutBy

\* The conditional PUT sent is the plan, under the ETag of hydration.
LEMMA PutPointerKeeps ==
    ASSUME GitInv, NEW p \in Pushes, PutPointer(p)
    PROVE  GitInv'
<1>0. /\ push[p].at = "uploaded"
      /\ puts' = puts \cup {[by |-> p, expect |-> push[p].parent, body |-> push[p].next]}
      /\ push' = [push EXCEPT ![p].at = "swapping"]
      /\ UNCHANGED <<packs, manifests, pointer, row, ann, notice, landed, installed>>
  BY DEF PutPointer, hist
<1>1. PushFits(p) /\ Planned(p) /\ p \notin landed /\ NoPutBy(p)
  BY <1>0 DEF GitInv, PushFits, Untold
<1>2. /\ DOMAIN push' = Pushes /\ \A q \in Pushes : q # p => push'[q] = push[q]
      /\ DOMAIN push'[p] = {"at", "want", "sent", "parent", "next"}
      /\ push'[p].at = "swapping" /\ push'[p].want = push[p].want
      /\ push'[p].parent = push[p].parent /\ push'[p].next = push[p].next
  BY <1>0, <1>1 DEF GitInv, PushFits
<1>3. Planned(p)'
  BY <1>0, <1>1, <1>2, PlanStays
<1>4. PushFits(p)'
  BY <1>0, <1>1, <1>2, <1>3 DEF PushFits, PushStates, Untold
<1>5. \A put \in puts' : put.by = p => PutFits(put)'
  <2> SUFFICES ASSUME NEW put \in puts', put.by = p PROVE PutFits(put)'
    OBVIOUS
  <2>1. /\ put = [by |-> p, expect |-> push[p].parent, body |-> push[p].next]
        /\ put.expect = push[p].parent /\ put.body = push[p].next
    BY <1>0, <1>1 DEF NoPutBy
  <2>2. p \notin Announces
    BY NamesAssumption
  <2>3. push[p].parent \in manifests \cup {Nil} /\ push[p].next \in manifests
    BY <1>1 DEF PushFits, Planned
  <2>4. push[p].next.parent = push[p].parent
    BY <1>1 DEF Planned
  <2> QED
    BY <1>0, <1>1, <1>2, <1>3, <2>1, <2>2, <2>3, <2>4 DEF PutFits, Acting
<1>6. StoreOK' /\ NoticeOK'
  BY <1>0 DEF GitInv, StoreOK, NoticeOK, NoticeWasPublished
<1> QED
  BY <1>0, <1>2, <1>4, <1>5, <1>6, PushStepKeeps

\* The ref-state event shows the refs of a manifest the pointer has named.
LEMMA PublishRefStateKeeps ==
    ASSUME GitInv, NEW p \in Pushes, PublishRefState(p)
    PROVE  GitInv'
<1>0. /\ push[p].at = "committed" /\ notice' = push[p].next.refs
      /\ push' = Answered(p, "success")
      /\ UNCHANGED <<packs, manifests, pointer, puts, row, ann, landed, installed>>
  BY DEF PublishRefState, store, hist
<1>1. PushFits(p) /\ p \in landed /\ push[p].next \in installed
  BY <1>0 DEF GitInv, PushFits
<1>2. /\ DOMAIN push' = Pushes
      /\ DOMAIN push'[p] = {"at", "want", "sent", "parent", "next"}
      /\ push'[p].at = "success" /\ push'[p].want = Nil
      /\ push'[p].parent = push[p].parent /\ push'[p].next = Nil
      /\ \A q \in Pushes : q # p => push'[q] = push[q]
  BY <1>0, AnsweredPush DEF GitInv
<1>3. PushFits(p)'
  BY <1>0, <1>1, <1>2 DEF PushFits, PushStates, Answers, Untold
<1>4. StoreOK'
  BY <1>0 DEF GitInv, StoreOK
<1>5. push[p].next.refs \in [Refs -> Oids \cup {Nil}]
  BY <1>1 DEF GitInv, StoreOK, Sound, WellFormed
<1>6. NoticeOK'
  BY <1>0, <1>1, <1>5 DEF GitInv, NoticeOK, NoticeWasPublished
<1>7. ASSUME NEW put \in puts, put.by = p PROVE PutFits(put)'
  <2>1. PutFits(put) /\ Superseded(put.expect)
    BY <1>1, <1>7 DEF GitInv, PutFits
  <2>2. Superseded(put.expect)'
    BY <1>0, <2>1 DEF Superseded
  <2>3. p \notin Announces
    BY NamesAssumption
  <2> QED
    BY <1>0, <1>2, <1>7, <2>1, <2>2, <2>3 DEF PutFits, Acting
<1> QED
  BY <1>0, <1>2, <1>3, <1>4, <1>6, <1>7, PushStepKeeps

\* A handler that stops leaves its PUT in flight, and the plan with it.
LEMMA FailKeeps ==
    ASSUME GitInv, NEW p \in Pushes, Fail(p)
    PROVE  GitInv'
<1>0. /\ push[p].at \in {"swapping", "committed"} /\ push' = [push EXCEPT ![p].at = "error"]
      /\ UNCHANGED <<packs, manifests, pointer, puts, row, ann, notice, landed, installed>>
  BY DEF Fail, store, hist
<1>1. PushFits(p)
  BY DEF GitInv
<1>2. /\ DOMAIN push' = Pushes /\ \A q \in Pushes : q # p => push'[q] = push[q]
      /\ DOMAIN push'[p] = {"at", "want", "sent", "parent", "next"}
      /\ push'[p].at = "error" /\ push'[p].want = push[p].want
      /\ push'[p].parent = push[p].parent /\ push'[p].next = push[p].next
  BY <1>0, <1>1 DEF GitInv, PushFits
<1>3. PushFits(p)'
  BY <1>0, <1>1, <1>2 DEF PushFits, PushStates, Answers, Untold
<1>4. \A put \in puts' : put.by = p => PutFits(put)'
  <2> SUFFICES ASSUME NEW put \in puts, put.by = p PROVE PutFits(put)'
    BY <1>0
  <2>1. PutFits(put) /\ Planned(p)
    BY <1>0 DEF GitInv, PutFits, Acting
  <2>2. Superseded(put.expect)' <=> Superseded(put.expect)
    BY <1>0 DEF Superseded
  <2>3. Planned(p)'
    BY <1>0, <1>2, <2>1, PlanStays
  <2>4. p \notin Announces
    BY NamesAssumption
  <2> QED
    BY <1>0, <1>2, <2>1, <2>2, <2>3, <2>4 DEF PutFits, Acting
<1>5. StoreOK' /\ NoticeOK'
  BY <1>0 DEF GitInv, StoreOK, NoticeOK, NoticeWasPublished
<1> QED
  BY <1>0, <1>2, <1>3, <1>4, <1>5, PushStepKeeps

\* Every step of a push's handler keeps the invariant.
LEMMA PushKeeps ==
    ASSUME NilIsNothing, GitInv, NEW p \in Pushes, PushStep(p)
    PROVE  GitInv'
<1>1. CASE Reject(p)
  <2>1. PICK a \in {"rejected", "partial"} : push' = Answered(p, a)
    BY <1>1 DEF Reject
  <2> QED
    BY <1>1, <2>1, TurnedDown DEF Reject
<1>2. CASE Refuse(p)
  BY <1>2, TurnedDown DEF Refuse
<1> QED
  BY <1>1, <1>2, AdvertiseKeeps, PrepareKeeps, PutPointerKeeps, PublishRefStateKeeps, FailKeeps
     DEF PushStep

---------------------------------------------------------------------------
(* The store decides.                                                      *)

(* A PUT that meets its condition extends the chain, and names a manifest  *)
(* that was never named before.                                            *)
LEMMA SwapExtendsChain ==
    ASSUME GitInv, NEW put \in puts, Precondition(put), StoreDecides(put)
    PROVE  /\ pointer' = put.body /\ put.body # Nil /\ put.body \in manifests
           /\ put.body \notin installed
           /\ installed' = installed \cup {put.body}
           /\ Chain' /\ Onward /\ Superseded(put.expect)'
<1>1. PutFits(put) /\ Chain /\ StoreOK
  BY DEF GitInv
<1>2. pointer' = put.body /\ put.expect = pointer
  BY DEF StoreDecides, Precondition
<1>3. put.body \in manifests /\ put.body # Nil /\ put.body.parent = pointer
  BY <1>1, <1>2 DEF PutFits, StoreOK, Sound
<1>4. put.body \notin installed
  BY <1>1, <1>3 DEF Chain
<1>5. Nil \notin installed
  BY <1>1 DEF StoreOK, Sound
<1>6. installed' = installed \cup {put.body}
  BY <1>2, <1>3, <1>5 DEF StoreDecides
<1>7. Chain'
  BY <1>1, <1>2, <1>3, <1>4, <1>6 DEF Chain
<1>8. Onward
  BY <1>2, <1>3, <1>4 DEF Onward
<1>9. Superseded(put.expect)'
  BY <1>1, <1>2, <1>3, <1>4, <1>6 DEF Superseded, Chain
<1> QED
  BY <1>2, <1>3, <1>4, <1>6, <1>7, <1>8, <1>9

(* One that does not changes nothing.                                      *)
LEMMA LostRaceChangesNothing ==
    ASSUME GitInv, NEW put \in puts, ~Precondition(put), StoreDecides(put)
    PROVE  pointer' = pointer /\ installed' = installed /\ Chain'
<1>1. Chain /\ Nil \notin installed
  BY DEF GitInv, StoreOK, Sound
<1>2. pointer' = pointer
  BY DEF StoreDecides
<1>3. installed' = installed
  BY <1>1, <1>2 DEF StoreDecides, Chain
<1> QED
  BY <1>1, <1>2, <1>3 DEF Chain

(* Either way the store stays what the invariant says, and the pointer is  *)
(* there for good.                                                         *)
LEMMA StoreDecidesKeeps ==
    ASSUME GitInv, NEW put \in puts, StoreDecides(put), landed' \subseteq Pushes
    PROVE  /\ StoreOK' /\ NoticeOK' /\ Chain'
           /\ manifests' = manifests /\ puts' \subseteq puts
           /\ installed \subseteq installed' /\ Onward
           /\ pointer # Nil => pointer' # Nil
           /\ pointer' \in {pointer, put.body}
<1>1. UNCHANGED <<packs, manifests, row, notice>> /\ puts' \subseteq puts
  BY DEF StoreDecides, Resent
<1>2. /\ Chain' /\ installed \subseteq installed' /\ Onward
      /\ installed' \subseteq manifests /\ pointer' \in manifests \cup {Nil}
      /\ pointer # Nil => pointer' # Nil
      /\ pointer' \in {pointer, put.body}
  BY SwapExtendsChain, LostRaceChangesNothing DEF GitInv, StoreOK, Onward
<1>3. StoreOK'
  BY <1>1, <1>2 DEF GitInv, StoreOK
<1>4. NoticeOK'
  BY <1>1, <1>2 DEF GitInv, NoticeOK, NoticeWasPublished
<1> QED
  BY <1>1, <1>2, <1>3, <1>4

(* A PUT of a push that is not too late is its plan, and has not landed.   *)
LEMMA NotTooLate ==
    ASSUME GitInv, NEW put \in puts, put.by \in Pushes, Precondition(put)
    PROVE  /\ put.by \notin landed /\ push[put.by].at \in {"swapping", "error"}
           /\ Planned(put.by) /\ put.body = push[put.by].next
           /\ put.expect = push[put.by].parent
<1>1. PutFits(put) /\ ~Superseded(put.expect) /\ PushFits(put.by)
  BY DEF GitInv, Precondition, Superseded
<1>2. put.by \notin landed /\ push[put.by].at \in Acting
  BY <1>1 DEF PutFits
<1>3. push[put.by].at # "committed"
  BY <1>1, <1>2 DEF PushFits
<1>4. put = [by |-> put.by, expect |-> push[put.by].parent, body |-> push[put.by].next]
  BY <1>1, <1>2 DEF PutFits
<1>5. put.body = push[put.by].next /\ put.expect = push[put.by].parent
  BY <1>4
<1> QED
  BY <1>1, <1>2, <1>3, <1>5 DEF PutFits, Acting

(* What a decided PUT does to the rest of the system.                      *)
LEMMA DecisionKeeps ==
    ASSUME GitInv, NEW put \in puts, PushDecided(put),
           DOMAIN push' = Pushes, \A q \in Pushes : q # put.by => push'[q] = push[q],
           PushFits(put.by)', \A x \in puts' : x.by = put.by => PutFits(x)'
    PROVE  GitInv'
<1>1. /\ StoreDecides(put) /\ ann' = ann /\ put.by \in Pushes
      /\ landed' = landed \cup (IF Precondition(put) THEN {put.by} ELSE {})
  BY DEF PushDecided
<1>2. landed' \subseteq Pushes
  BY <1>1 DEF GitInv, StoreOK
<1>3. /\ StoreOK' /\ NoticeOK' /\ Chain'
      /\ manifests' = manifests /\ puts' \subseteq puts
      /\ installed \subseteq installed' /\ Onward
      /\ pointer # Nil => pointer' # Nil
  BY <1>1, <1>2, StoreDecidesKeeps
<1>4. ASSUME NEW q \in Pushes, q # put.by PROVE PushFits(q)'
  <2>1. NoPutBy(q) => NoPutBy(q)'
    BY <1>3 DEF NoPutBy
  <2> QED
    BY <1>1, <1>3, <1>4, <2>1, PushStays DEF GitInv
<1>5. ASSUME NEW x \in puts', x.by # put.by PROVE PutFits(x)'
  BY <1>1, <1>3, <1>5, PutStays DEF GitInv
<1>6. \A a \in Announces : AnnFits(a)'
  BY <1>1, <1>3, AnnStays DEF GitInv
<1> QED
  BY <1>1, <1>3, <1>4, <1>5, <1>6 DEF GitInv

\* A push's PUT lands: its handler is told so or is not, and every copy of it
\* now comes too late.
LEMMA SwapLands ==
    ASSUME GitInv, NEW put \in puts, PushDecided(put), Precondition(put)
    PROVE  GitInv'
<1>0. PICK p \in Pushes : p = put.by
  BY DEF PushDecided
<1>1. /\ StoreDecides(put) /\ landed' = landed \cup {p} /\ manifests' = manifests
      /\ puts' \subseteq puts
  BY <1>0 DEF PushDecided, StoreDecides, Resent
<1>2. /\ p \notin landed /\ push[p].at \in {"swapping", "error"} /\ Planned(p)
      /\ put.body = push[p].next /\ put.expect = push[p].parent
  BY <1>0, NotTooLate
<1>3. PushFits(p)
  BY DEF GitInv
<1>4. /\ installed' = installed \cup {put.body} /\ Superseded(put.expect)' /\ Onward
  BY <1>1, SwapExtendsChain
<1>5. push' = push \/ (push[p].at = "swapping" /\ push' = [push EXCEPT ![p].at = "committed"])
  BY <1>0 DEF PushDecided, Heard, Waits
<1>6. /\ DOMAIN push' = Pushes /\ \A q \in Pushes : q # p => push'[q] = push[q]
      /\ DOMAIN push'[p] = {"at", "want", "sent", "parent", "next"}
      /\ push'[p].want = push[p].want
      /\ push'[p].parent = push[p].parent /\ push'[p].next = push[p].next
  BY <1>3, <1>5 DEF GitInv, PushFits
<1>7. push'[p].at \in Acting
  BY <1>2, <1>3, <1>5 DEF GitInv, PushFits, Acting
<1>8. PushFits(p)'
  BY <1>1, <1>2, <1>3, <1>4, <1>6, <1>7 DEF PushFits, PushStates, Answers, Untold, Acting
<1>9. Planned(p)'
  BY <1>1, <1>2, <1>4, <1>6, PlanStays
<1>10. ASSUME NEW x \in puts', x.by = p PROVE PutFits(x)'
  <2>1. PutFits(x)
    BY <1>1 DEF GitInv
  <2>2. x = [by |-> p, expect |-> push[p].parent, body |-> push[p].next]
    BY <1>2, <1>10, <2>1 DEF PutFits, Acting
  <2>3. x.expect = put.expect
    BY <1>2, <2>2
  <2>4. p \notin Announces
    BY NamesAssumption
  <2> QED
    BY <1>1, <1>4, <1>6, <1>7, <1>9, <1>10, <2>1, <2>2, <2>3, <2>4 DEF PutFits
<1> QED
  BY <1>0, <1>6, <1>8, <1>10, DecisionKeeps

\* It does not: a handler told so answers 409, and the parent it was built on
\* is superseded.
LEMMA SwapLost ==
    ASSUME GitInv, NEW put \in puts, PushDecided(put), ~Precondition(put)
    PROVE  GitInv'
<1>0. PICK p \in Pushes : p = put.by
  BY DEF PushDecided
<1>1. /\ StoreDecides(put) /\ landed' = landed /\ manifests' = manifests
      /\ puts' \subseteq puts
  BY <1>0 DEF PushDecided, StoreDecides, Resent
<1>2. PutFits(put) /\ PushFits(p)
  BY DEF GitInv
<1>3. pointer' = pointer /\ installed' = installed /\ Onward
  BY <1>1, LostRaceChangesNothing DEF Onward
<1>4. push' = push \/ (push[p].at = "swapping" /\ push' = Answered(p, "conflict"))
  BY <1>0 DEF PushDecided, Heard, Waits
<1>5. CASE push' = push
  <2>1. NoPutBy(p) => NoPutBy(p)'
    BY <1>1 DEF NoPutBy
  <2>2. PushFits(p)'
    BY <1>1, <1>2, <1>3, <1>5, <2>1, PushStays
  <2>3. ASSUME NEW x \in puts' PROVE PutFits(x)'
    BY <1>1, <1>3, <1>5, PutStays DEF GitInv
  <2>4. DOMAIN push' = Pushes
    BY <1>5 DEF GitInv
  <2> QED
    BY <1>0, <1>5, <2>2, <2>3, <2>4, DecisionKeeps
<1>6. CASE push[p].at = "swapping" /\ push' = Answered(p, "conflict")
  <2>1. /\ DOMAIN push' = Pushes /\ \A q \in Pushes : q # p => push'[q] = push[q]
        /\ DOMAIN push'[p] = {"at", "want", "sent", "parent", "next"}
        /\ push'[p].at = "conflict" /\ push'[p].want = Nil
        /\ push'[p].parent = push[p].parent /\ push'[p].next = Nil
    BY <1>6, AnsweredPush DEF GitInv
  <2>2. ASSUME NEW x \in puts, x.by = p
        PROVE  /\ PutFits(x) /\ Planned(p)
               /\ x = [by |-> p, expect |-> push[p].parent, body |-> push[p].next]
    BY <1>6, <2>2 DEF GitInv, PutFits, Acting
  <2>3. \A x \in puts : x.by = p => x.expect = push[p].parent
    BY <2>2
  <2>4. Superseded(push[p].parent)
    BY <1>0, <2>2, <2>3 DEF Superseded, Planned, Precondition
  <2>5. Superseded(push[p].parent)' <=> Superseded(push'[p].parent)
    BY <1>3, <2>1 DEF Superseded
  <2>6. Superseded(push'[p].parent)
    BY <2>1, <2>4
  <2>7. push[p].parent \in manifests \cup {Nil}
    BY <1>2 DEF PushFits
  <2>8. PushFits(p)'
    BY <1>1, <2>1, <2>5, <2>6, <2>7 DEF PushFits, PushStates, Answers, Untold
  <2>9. ASSUME NEW x \in puts', x.by = p PROVE PutFits(x)'
    <3>1. PutFits(x) /\ x.expect = push[p].parent
      BY <1>1, <2>2, <2>3, <2>9
    <3>2. Superseded(x.expect)'
      BY <1>3, <2>4, <3>1 DEF Superseded
    <3>3. p \notin Announces
      BY NamesAssumption
    <3> QED
      BY <1>1, <2>1, <2>9, <3>1, <3>2, <3>3 DEF PutFits, Acting
  <2> QED
    BY <1>0, <2>1, <2>8, <2>9, DecisionKeeps
<1> QED
  BY <1>4, <1>5, <1>6

\* The store decides a push's PUT.
LEMMA PushDecidedKeeps ==
    ASSUME GitInv, NEW put \in puts, PushDecided(put)
    PROVE  GitInv'
BY SwapLands, SwapLost

---------------------------------------------------------------------------
(* Announcements.                                                          *)

(* A step of an announcement that leaves the pointer and the pushes alone. *)
LEMMA AnnounceStepKeeps ==
    ASSUME GitInv, NEW a \in Announces,
           DOMAIN ann' = Announces, \A b \in Announces : b # a => ann'[b] = ann[b],
           UNCHANGED <<push, pointer, landed, installed>>,
           manifests \subseteq manifests',
           \A put \in puts' : put \in puts \/ (put.by = a /\ PutFits(put)'),
           StoreOK', NoticeOK', AnnFits(a)'
    PROVE  GitInv'
<1>0. Onward /\ installed \subseteq installed'
  BY DEF Onward
<1>1. \A p \in Pushes : PushFits(p)'
  <2> SUFFICES ASSUME NEW p \in Pushes PROVE PushFits(p)'
    OBVIOUS
  <2>1. NoPutBy(p) => NoPutBy(p)'
    BY NamesAssumption DEF NoPutBy
  <2> QED
    BY <1>0, <2>1, PushStays DEF GitInv
<1>2. \A put \in puts' : PutFits(put)'
  BY <1>0, PutStays DEF GitInv
<1>3. \A b \in Announces : AnnFits(b)'
  BY AnnStays DEF GitInv
<1>4. Chain'
  BY DEF Chain, GitInv
<1> QED
  BY <1>1, <1>2, <1>3, <1>4 DEF GitInv

(* One that moves the announcement and at most reserves or frees the name. *)
LEMMA OnlyMoves ==
    ASSUME GitInv, NEW a \in Announces, NEW from, NEW to, Step(a, from, to),
           row' \in BOOLEAN, UNCHANGED <<store, push, notice, hist>>,
           to \in {"emitting", "accepted"} => pointer # Nil,
           to = "emitting" => Empty \in installed
    PROVE  GitInv'
<1>1. UNCHANGED <<packs, manifests, pointer, puts, push, notice, landed, installed>>
  BY DEF store, hist
<1>2. /\ DOMAIN ann' = Announces /\ \A b \in Announces : b # a => ann'[b] = ann[b]
      /\ DOMAIN ann'[a] = {"at", "fresh"} /\ ann'[a].at = to
  BY DEF Step, GitInv, AnnFits
<1>3. AnnFits(a)'
  BY <1>1, <1>2 DEF AnnFits
<1>4. StoreOK' /\ NoticeOK'
  BY <1>1 DEF GitInv, StoreOK, NoticeOK, NoticeWasPublished
<1> QED
  BY <1>1, <1>2, <1>3, <1>4, AnnounceStepKeeps

\* reserve_repo_name touches the name only.
LEMMA ReserveNameKeeps ==
    ASSUME GitInv, NEW a \in Announces, ReserveName(a)
    PROVE  GitInv'
<1>1. /\ row' = TRUE
      /\ UNCHANGED <<packs, manifests, pointer, puts, push, notice, landed, installed>>
  BY DEF ReserveName, store, hist
<1>2. PICK x \in {[at |-> "ensuring", fresh |-> FALSE], [at |-> "seeding", fresh |-> TRUE]} :
         ann' = [ann EXCEPT ![a] = x]
  BY DEF ReserveName
<1>3. /\ DOMAIN ann' = Announces /\ \A b \in Announces : b # a => ann'[b] = ann[b]
      /\ DOMAIN ann'[a] = {"at", "fresh"} /\ ann'[a].at \in {"ensuring", "seeding"}
  BY <1>2 DEF GitInv
<1>4. AnnFits(a)'
  BY <1>3 DEF AnnFits
<1>5. StoreOK' /\ NoticeOK'
  BY <1>1 DEF GitInv, StoreOK, NoticeOK, NoticeWasPublished
<1> QED
  BY <1>1, <1>3, <1>4, <1>5, AnnounceStepKeeps

\* The seed in flight is the empty manifest, create-only.
LEMMA SeedPointerKeeps ==
    ASSUME NilIsNothing, GitInv, NEW a \in Announces, SeedPointer(a)
    PROVE  GitInv'
<1>1. /\ manifests' = manifests \cup {Empty}
      /\ puts' = puts \cup {[by |-> a, expect |-> Nil, body |-> Empty]}
      /\ UNCHANGED <<packs, pointer, push, row, notice, landed, installed>>
  BY DEF SeedPointer, hist
<1>2. /\ DOMAIN ann' = Announces /\ \A b \in Announces : b # a => ann'[b] = ann[b]
      /\ DOMAIN ann'[a] = {"at", "fresh"} /\ ann'[a].at = "creating"
  BY DEF SeedPointer, Step, GitInv, AnnFits
<1>3. AnnFits(a)'
  BY <1>2 DEF AnnFits
<1>4. Sound(Empty) /\ Empty.packs = {} /\ Empty.parent = Nil
  BY EmptySound
<1>5. StoreOK'
  BY <1>1, <1>4 DEF GitInv, StoreOK
<1>6. NoticeOK'
  BY <1>1 DEF GitInv, NoticeOK, NoticeWasPublished
<1>7. \A put \in puts' : put \in puts \/ (put.by = a /\ PutFits(put)')
  <2> SUFFICES ASSUME NEW put, put = [by |-> a, expect |-> Nil, body |-> Empty]
               PROVE  put.by = a /\ PutFits(put)'
    BY <1>1
  <2>1. put.by = a /\ put.expect = Nil /\ put.body = Empty /\ a \notin Pushes
    BY NamesAssumption
  <2> QED
    BY <1>1, <1>4, <2>1 DEF PutFits
<1> QED
  BY <1>1, <1>2, <1>3, <1>5, <1>6, <1>7, AnnounceStepKeeps

\* The first ref-state event follows a seed the pointer has named.
LEMMA EmitInitialKeeps ==
    ASSUME NilIsNothing, GitInv, NEW a \in Announces, EmitInitialRefState(a)
    PROVE  GitInv'
<1>1. /\ notice' \in {NoRefs, notice} /\ ann[a].at = "emitting"
      /\ UNCHANGED <<packs, manifests, pointer, puts, push, row, landed, installed>>
  BY DEF EmitInitialRefState, Step, store, hist
<1>2. /\ DOMAIN ann' = Announces /\ \A b \in Announces : b # a => ann'[b] = ann[b]
      /\ DOMAIN ann'[a] = {"at", "fresh"} /\ ann'[a].at = "accepted"
  BY DEF EmitInitialRefState, Step, GitInv, AnnFits
<1>3. pointer # Nil /\ Empty \in installed
  BY <1>1 DEF GitInv, AnnFits
<1>4. AnnFits(a)'
  BY <1>1, <1>2, <1>3 DEF AnnFits
<1>5. StoreOK'
  BY <1>1 DEF GitInv, StoreOK
<1>6. NoRefs \in [Refs -> Oids \cup {Nil}] /\ Empty.refs = NoRefs
  BY EmptySound DEF NoRefs
<1>7. NoticeOK'
  BY <1>1, <1>3, <1>6 DEF GitInv, NoticeOK, NoticeWasPublished
<1> QED
  BY <1>1, <1>2, <1>4, <1>5, <1>7, AnnounceStepKeeps

\* Every step of an announcement's handler keeps the invariant.
LEMMA AnnounceKeeps ==
    ASSUME NilIsNothing, GitInv, NEW a \in Announces, AnnounceStep(a)
    PROVE  GitInv'
<1>0. row \in BOOLEAN /\ Chain
  BY DEF GitInv, NoticeOK
<1>1. CASE StoreAnnouncement(a)
  BY <1>0, <1>1, OnlyMoves DEF StoreAnnouncement
<1>2. CASE PeekOwner(a)
  <2>1. PICK to \in {"ensuring", "unowned"} : Step(a, "stored", to)
    BY <1>2 DEF PeekOwner
  <2> QED
    BY <1>0, <1>2, <2>1, OnlyMoves DEF PeekOwner
<1>3. CASE EnsurePointer(a)
  <2>1. PICK to \in {"accepted", "seeding"} :
           Step(a, "ensuring", to) /\ (to = "accepted" => pointer # Nil)
    BY <1>3 DEF EnsurePointer
  <2> QED
    BY <1>0, <1>3, <2>1, OnlyMoves DEF EnsurePointer
<1>4. CASE RereadPointer(a)
  <2>0. Empty # Nil
    BY EmptySound DEF Sound
  <2>1. PICK to \in {"emitting", "accepted", "releasing", "failed"} :
           /\ Step(a, "rereading", to)
           /\ to \in {"emitting", "accepted"} => pointer = Empty
    BY <1>4 DEF RereadPointer, Seeded, Failed
  <2>2. pointer = Empty => pointer # Nil /\ Empty \in installed
    BY <1>0, <2>0 DEF Chain
  <2> QED
    BY <1>0, <1>4, <2>1, <2>2, OnlyMoves DEF RereadPointer
<1>5. CASE ReleaseName(a)
  BY <1>5, OnlyMoves DEF ReleaseName
<1>6. CASE AnnouncementFails(a)
  <2>1. PICK from, to : Step(a, from, to) /\ to \in {"releasing", "failed"}
    BY <1>6 DEF AnnouncementFails, Failed
  <2> QED
    BY <1>0, <1>6, <2>1, OnlyMoves DEF AnnouncementFails
<1> QED
  BY <1>1, <1>2, <1>3, <1>4, <1>5, <1>6, ReserveNameKeeps, SeedPointerKeeps, EmitInitialKeeps
     DEF AnnounceStep

\* The store decides a seed: if it lands the repository exists.
LEMMA SeedDecidedKeeps ==
    ASSUME NilIsNothing, GitInv, NEW put \in puts, SeedDecided(put)
    PROVE  GitInv'
<1>0. PICK a \in Announces : a = put.by
  BY DEF SeedDecided
<1>1. /\ StoreDecides(put) /\ push' = push /\ landed' = landed
      /\ \/ ann' = ann
         \/ ann' = [ann EXCEPT ![a].at = IF Precondition(put) THEN Seeded(a) ELSE "rereading"]
  BY <1>0 DEF SeedDecided, SeedHeard
<1>2. PutFits(put) /\ AnnFits(a) /\ landed \subseteq Pushes /\ put.body = Empty
  BY <1>0 DEF GitInv, StoreOK, PutFits
<1>4. /\ StoreOK' /\ NoticeOK' /\ Chain'
      /\ manifests' = manifests /\ puts' \subseteq puts
      /\ installed \subseteq installed' /\ Onward
      /\ pointer # Nil => pointer' # Nil
  BY <1>1, <1>2, StoreDecidesKeeps
<1>5. /\ DOMAIN ann' = Announces /\ \A b \in Announces : b # a => ann'[b] = ann[b]
  BY <1>1 DEF GitInv
<1>6. AnnFits(a)'
  <2>1. CASE ann' = ann
    BY <1>1, <1>2, <1>4, <2>1, AnnStays
  <2>2. CASE ann' # ann /\ Precondition(put)
    <3>1. pointer' # Nil /\ Empty \in installed'
      BY <1>1, <1>2, <2>2, SwapExtendsChain
    <3>2. DOMAIN ann'[a] = {"at", "fresh"}
      BY <1>1, <1>2, <2>2 DEF GitInv, AnnFits
    <3> QED
      BY <3>1, <3>2 DEF AnnFits
  <2>3. CASE ann' # ann /\ ~Precondition(put)
    <3>1. DOMAIN ann'[a] = {"at", "fresh"} /\ ann'[a].at = "rereading"
      BY <1>1, <1>2, <2>3 DEF GitInv, AnnFits
    <3> QED
      BY <3>1 DEF AnnFits
  <2> QED
    BY <2>1, <2>2, <2>3
<1>7. ASSUME NEW p \in Pushes PROVE PushFits(p)'
  <2>1. NoPutBy(p) => NoPutBy(p)'
    BY <1>4 DEF NoPutBy
  <2> QED
    BY <1>1, <1>4, <2>1, PushStays DEF GitInv
<1>8. ASSUME NEW x \in puts' PROVE PutFits(x)'
  BY <1>1, <1>4, PutStays DEF GitInv
<1>9. ASSUME NEW b \in Announces PROVE AnnFits(b)'
  BY <1>4, <1>5, <1>6, AnnStays DEF GitInv
<1> QED
  BY <1>1, <1>4, <1>5, <1>7, <1>8, <1>9 DEF GitInv

\* The invariant is inductive.
LEMMA GitInvNext ==
    ASSUME NilIsNothing, GitInv, [Next]_vars
    PROVE  GitInv'
<1>1. CASE UNCHANGED vars
  <2>1. UNCHANGED <<packs, manifests, pointer, puts, push, row, ann, notice, landed, installed>>
    BY <1>1 DEF vars
  <2>2. StoreOK' /\ NoticeOK' /\ Chain' /\ Onward
    BY <2>1 DEF GitInv, StoreOK, NoticeOK, NoticeWasPublished, Chain, Onward
  <2>3. \A p \in Pushes : PushFits(p)'
    BY <2>1, <2>2, PushStays DEF GitInv, NoPutBy
  <2>4. \A put \in puts' : PutFits(put)'
    BY <2>1, <2>2, PutStays DEF GitInv
  <2>5. \A a \in Announces : AnnFits(a)'
    BY <2>1, AnnStays DEF GitInv
  <2> QED
    BY <2>1, <2>2, <2>3, <2>4, <2>5 DEF GitInv
<1> QED
  BY <1>1, PushKeeps, AnnounceKeeps, PushDecidedKeeps, SeedDecidedKeeps DEF Next

---------------------------------------------------------------------------
(* What follows.                                                           *)

\* For any number of relays, pushes and announcements: whatever the pointer
\* has ever named can be hydrated, an accepted announcement's repository is
\* there for good, and no ref-state event shows refs that were not published
\* (materialize_manifest, cas_publish, ensure_manifest_pointer).
THEOREM StoreIsWhole ==
    ASSUME NilIsNothing
    PROVE  Spec => []StoreInv
<1>1. GitInv => StoreInv
  <2> SUFFICES ASSUME GitInv PROVE StoreInv
    OBVIOUS
  <2>1. TypeOK
    BY DEF GitInv, StoreOK, NoticeOK, PushFits, PutFits, TypeOK, PushStates, Sound
  <2>2. Cloneable
    BY DEF GitInv, StoreOK, Sound, Cloneable
  <2>3. AcceptedIsCloneable
    BY DEF GitInv, AnnFits, AcceptedIsCloneable
  <2> QED
    BY <2>1, <2>2, <2>3 DEF GitInv, NoticeOK, StoreInv
<1>2. Init => GitInv
  BY GitInvInit
<1>3. GitInv /\ [Next]_vars => GitInv'
  BY GitInvNext
<1> QED
  BY <1>1, <1>2, <1>3, PTL DEF Spec

\* Whatever the S3 client resends and however late a copy arrives: success
\* means that the push took effect; a rejection or a refusal that it did not
\* and never will; a 409 that its parent is superseded for good, so that no
\* copy of its PUT can take effect from then on (finalize_push_inner,
\* put_pointer).
THEOREM AnswersSettled ==
    ASSUME NilIsNothing
    PROVE  Spec => []AnswersSettle
<1>1. GitInv => AnswersSettle
  BY DEF GitInv, PushFits, PutFits, Untold, NoPutBy, AnswersSettle
<1>2. Init => GitInv
  BY GitInvInit
<1>3. GitInv /\ [Next]_vars => GitInv'
  BY GitInvNext
<1> QED
  BY <1>1, <1>2, <1>3, PTL DEF Spec

\* The pointer never comes back to a manifest it has named, so If-Match on
\* the ETag of hydration is sound: there is no ABA (Manifest.parent,
\* put_pointer).
THEOREM PointerNeverReturns ==
    ASSUME NilIsNothing
    PROVE  Spec => NeverReinstalled
<1>1. GitInv /\ [Next]_vars => [pointer' # pointer => pointer' \notin installed]_vars
  <2> SUFFICES ASSUME GitInv, [Next]_vars, pointer' # pointer
               PROVE  pointer' \notin installed
    OBVIOUS
  <2>1. PICK put \in puts : StoreDecides(put)
    BY DEF Next, PushStep, AnnounceStep, PushDecided, SeedDecided, vars, store, hist,
           Advertise, Reject, Prepare, Refuse, PutPointer, PublishRefState, Fail,
           StoreAnnouncement, PeekOwner, ReserveName, EnsurePointer, SeedPointer, RereadPointer,
           ReleaseName, EmitInitialRefState, AnnouncementFails
  <2>2. Precondition(put)
    BY <2>1 DEF StoreDecides
  <2> QED
    BY <2>1, <2>2, SwapExtendsChain
<1>2. Init => GitInv
  BY GitInvInit
<1>3. GitInv /\ [Next]_vars => GitInv'
  BY GitInvNext
<1> QED
  BY <1>1, <1>2, <1>3, PTL DEF Spec, NeverReinstalled

(* The ref map the store stands for, and what each step does to it.        *)
LEMMA RefMapInit ==
    ASSUME NilIsNothing, Init
    PROVE  RefMap!Init
<1>1. GitInv
  BY GitInvInit
<1>2. Base(pointer).refs \in [Refs -> Oids \cup {Nil}]
  BY <1>1, BaseSound DEF GitInv, StoreOK, Sound, WellFormed
<1>3. [p \in Pushes |-> push[p].want] = [p \in Pushes |-> Nil] /\ landed = {}
  BY DEF Init, Request
<1> QED
  BY <1>2, <1>3 DEF RefMap!Init, RefMap!Values

(* A step that changes no want, no landed push and no pointer is a         *)
(* stuttering step.                                                        *)
LEMMA RefMapStutters ==
    ASSUME Base(pointer)'.refs = Base(pointer).refs, landed' = landed,
           \A p \in Pushes : push'[p].want = push[p].want
    PROVE  UNCHANGED <<Base(pointer).refs, [p \in Pushes |-> push[p].want], landed>>
OBVIOUS

(* A push that is answered leaves.                                         *)
LEMMA RefMapLeaves ==
    ASSUME GitInv, NEW p \in Pushes, NEW a, push' = Answered(p, a),
           Base(pointer)'.refs = Base(pointer).refs, landed' = landed
    PROVE  RefMap!Leave(p)
<1>1. /\ push'[p].want = Nil
      /\ \A q \in Pushes : q # p => push'[q] = push[q]
  BY AnsweredPush DEF GitInv
<1>2. [q \in Pushes |-> push[q].want]'
        = [[q \in Pushes |-> push[q].want] EXCEPT ![p] = Nil]
  BY <1>1
<1> QED
  BY <1>2 DEF RefMap!Leave

\* Advertise is the abstract Ask.
LEMMA RefMapAsks ==
    ASSUME NilIsNothing, GitInv, NEW p \in Pushes, Advertise(p)
    PROVE  RefMap!Ask(p)
<1>1. push[p].at = "idle" /\ pointer' = pointer /\ landed' = landed
  BY DEF Advertise, store, hist
<1>2. push[p].want = Nil
  BY <1>1 DEF GitInv, PushFits
<1>3. PICK D \in (SUBSET Refs) \ {{}} : \E new \in [D -> Oids \cup {Nil}] :
           push' = [push EXCEPT ![p] =
             Request("posting", [r \in D |-> <<Base(pointer).refs[r], new[r]>>],
                     Closure({new[r] : r \in D} \ {Nil}) \ Closure(Tips(Base(pointer).refs)))]
  BY DEF Advertise
<1>4. PICK new \in [D -> Oids \cup {Nil}] :
           push' = [push EXCEPT ![p] =
             Request("posting", [r \in D |-> <<Base(pointer).refs[r], new[r]>>],
                     Closure({new[r] : r \in D} \ {Nil}) \ Closure(Tips(Base(pointer).refs)))]
  BY <1>3
<1>5. PICK u : u = [r \in D |-> <<Base(pointer).refs[r], new[r]>>]
  OBVIOUS
<1>6. Base(pointer).refs \in [Refs -> Oids \cup {Nil}]
  BY BaseSound DEF GitInv, StoreOK, Sound, WellFormed
<1>7. u \in RefMap!Updates
  BY <1>4, <1>5, <1>6 DEF RefMap!Updates, RefMap!Values
<1>8. push'[p].want = u /\ \A q \in Pushes : q # p => push'[q] = push[q]
  BY <1>4, <1>5 DEF GitInv, Request
<1>9. [q \in Pushes |-> push[q].want]'
        = [[q \in Pushes |-> push[q].want] EXCEPT ![p] = u]
  BY <1>8
<1> QED
  BY <1>1, <1>2, <1>7, <1>9 DEF RefMap!Ask, Base

(* The PUT that takes effect is the instant of the push: the pointer still *)
(* names the manifest in which every ref had the value the client saw.     *)
LEMMA RefMapCommits ==
    ASSUME NilIsNothing, GitInv, NEW put \in puts, PushDecided(put), Precondition(put)
    PROVE  RefMap!Commit(put.by)
<1>0. PICK p \in Pushes : p = put.by
  BY DEF PushDecided
<1>1. /\ StoreDecides(put) /\ landed' = landed \cup {p}
      /\ push' = push \/ push' = [push EXCEPT ![p].at = "committed"]
  BY <1>0 DEF PushDecided, Heard
<1>2. /\ p \notin landed /\ Planned(p) /\ PushFits(p)
      /\ put.body = push[p].next /\ put.expect = push[p].parent
  BY <1>0, NotTooLate DEF GitInv
<1>3. pointer' = push[p].next /\ push[p].next # Nil /\ push[p].parent = pointer
  BY <1>1, <1>2, SwapExtendsChain DEF Precondition
<1>4. push[p].want \in RefMap!Updates /\ push[p].want # Nil
  BY <1>2 DEF Planned, NilIsNothing
<1>5. \A r \in DOMAIN push[p].want : Base(pointer).refs[r] = push[p].want[r][1]
  BY <1>2, <1>3 DEF Planned
<1>6. Base(pointer)'.refs = [r \in Refs |-> IF r \in DOMAIN push[p].want THEN push[p].want[r][2]
                                            ELSE Base(pointer).refs[r]]
  BY <1>2, <1>3 DEF Planned, RefsAfter, Base
<1>7. [q \in Pushes |-> push[q].want]' = [q \in Pushes |-> push[q].want]
  BY <1>1, <1>2 DEF GitInv, PushFits
<1> QED
  BY <1>0, <1>1, <1>2, <1>4, <1>5, <1>6, <1>7 DEF RefMap!Commit

\* Every step of the handlers and the store is a step of one ref map, or
\* none.
LEMMA RefMapNext ==
    ASSUME NilIsNothing, GitInv, [Next]_vars
    PROVE  [RefMap!Next]_<<Base(pointer).refs, [p \in Pushes |-> push[p].want], landed>>
<1> DEFINE stutters == UNCHANGED <<Base(pointer).refs, [p \in Pushes |-> push[p].want], landed>>
<1>0. /\ DOMAIN push = Pushes
      /\ \A p \in Pushes : DOMAIN push[p] = {"at", "want", "sent", "parent", "next"}
  BY DEF GitInv, PushFits
<1>1. ASSUME NEW p \in Pushes, PushStep(p)
      PROVE  RefMap!Next \/ stutters
  <2>1. pointer' = pointer /\ landed' = landed
    BY <1>1 DEF PushStep, Advertise, Reject, Prepare, Refuse, PutPointer, PublishRefState, Fail,
                store, hist
  <2>2. Base(pointer)'.refs = Base(pointer).refs
    BY <2>1 DEF Base
  <2>3. CASE Advertise(p)
    BY <2>3, RefMapAsks DEF RefMap!Next
  <2>4. CASE Reject(p) \/ Refuse(p) \/ PublishRefState(p)
    <3>1. PICK a : push' = Answered(p, a)
      BY <2>4 DEF Reject, Refuse, PublishRefState
    <3> QED
      BY <2>1, <2>2, <3>1, RefMapLeaves DEF RefMap!Next
  <2>5. CASE Prepare(p) \/ PutPointer(p) \/ Fail(p)
    <3>1. \A q \in Pushes : push'[q].want = push[q].want
      BY <1>0, <2>5 DEF Prepare, PutPointer, Fail
    <3> QED
      BY <2>1, <2>2, <3>1, RefMapStutters
  <2> QED
    BY <1>1, <2>3, <2>4, <2>5 DEF PushStep
<1>2. ASSUME NEW a \in Announces, AnnounceStep(a)
      PROVE  stutters
  <2>1. pointer' = pointer /\ landed' = landed /\ push' = push
    BY <1>2 DEF AnnounceStep, StoreAnnouncement, PeekOwner, ReserveName, EnsurePointer,
                SeedPointer, RereadPointer, ReleaseName, EmitInitialRefState, AnnouncementFails,
                store, hist
  <2> QED
    BY <2>1 DEF Base
<1>3. ASSUME NEW put \in puts, PushDecided(put)
      PROVE  RefMap!Next \/ stutters
  <2>0. PICK p \in Pushes : p = put.by
    BY <1>3 DEF PushDecided
  <2>1. CASE Precondition(put)
    BY <1>3, <2>0, <2>1, RefMapCommits DEF RefMap!Next
  <2>2. CASE ~Precondition(put)
    <3>1. pointer' = pointer /\ landed' = landed
      BY <1>3, <2>2 DEF PushDecided, StoreDecides
    <3>2. Base(pointer)'.refs = Base(pointer).refs
      BY <3>1 DEF Base
    <3>3. push' = push \/ push' = Answered(p, "conflict")
      BY <1>3, <2>0, <2>2 DEF PushDecided, Heard
    <3>4. CASE push' = push
      BY <3>1, <3>2, <3>4, RefMapStutters
    <3>5. CASE push' = Answered(p, "conflict")
      BY <3>1, <3>2, <3>5, RefMapLeaves DEF RefMap!Next
    <3> QED
      BY <3>3, <3>4, <3>5
  <2> QED
    BY <2>1, <2>2
<1>4. ASSUME NEW put \in puts, SeedDecided(put)
      PROVE  stutters
  <2>1. push' = push /\ landed' = landed /\ StoreDecides(put)
    BY <1>4 DEF SeedDecided
  <2>2. PutFits(put) /\ put.body = Empty
    BY <1>4 DEF GitInv, PutFits, SeedDecided
  <2>3. put.expect = Nil
    BY <2>2, EmptySound DEF PutFits
  <2>4. Base(pointer)' = Base(pointer)
    BY <2>1, <2>2, <2>3, EmptySound DEF StoreDecides, Precondition, Base, Sound
  <2> QED
    BY <2>1, <2>4
<1>5. UNCHANGED vars => stutters
  BY DEF vars, Base
<1> QED
  BY <1>1, <1>2, <1>3, <1>4, <1>5 DEF Next

\* The hydration, upload and conditional PUT of any number of concurrent
\* pushes implement RefStore: every push takes effect whole, at one instant
\* at which all of its beliefs hold, at most once (ParentState, put_pointer).
THEOREM PushesImplementRefStore ==
    ASSUME NilIsNothing
    PROVE  Spec => PushesAreAtomic
<1>1. Init => GitInv
  BY GitInvInit
<1>2. GitInv /\ [Next]_vars => GitInv'
  BY GitInvNext
<1>3. Init => RefMap!Init
  BY RefMapInit
<1>4. GitInv /\ [Next]_vars
        => [RefMap!Next]_<<Base(pointer).refs, [p \in Pushes |-> push[p].want], landed>>
  BY RefMapNext
<1> QED
  BY <1>1, <1>2, <1>3, <1>4, PTL DEF Spec, PushesAreAtomic, RefMap!Spec
=============================================================================
