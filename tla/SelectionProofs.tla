-------------------------- MODULE SelectionProofs --------------------------
(***************************************************************************)
(* For any number of files, lines, texts, commands, edits and deaths: an   *)
(* action changes only what the output showed, an ID keeps its meaning     *)
(* through a series of line actions, and a file is staged whole only after *)
(* its changes were shown.                                                 *)
(***************************************************************************)
EXTENDS ReviewedSelection, FiniteSetTheorems, WellFoundedInduction, TLAPS

AnyText == Texts \cup {Old}

\* A view numbers the slots that differ, each with an ID of its own.
IsView(v) ==
  /\ DOMAIN v.ids = {s \in Slots : v.old[s] # v.new[s]}
  /\ \A s, t \in DOMAIN v.ids : v.ids[s] = v.ids[t] => s = t

Numberings == UNION {[S -> Nat] : S \in SUBSET Slots}
Views      == {v \in [path : Paths, old : Content, new : Content, ids : Numberings] : IsView(v)}
Patches    == [path : Paths, old : Content, new : Content]
Snapshots  == [path : Paths, index : Content, work : Content]
Kinds      == {"none", "hunk", "file", "batch"}
Prints     == [kind : Kinds, lines : Views \cup {None}, snaps : (Content \X Content) \cup {None}]
Reviews    == [path : Paths, source : {"live", "batch"}, shown : SUBSET Nat,
               entire : BOOLEAN, of : Prints]
Jobs       == [verb : {"none", "show", "line", "include", "discard"},
               view : Views \cup {None}, was : Views \cup {None},
               then : {"exit", "next", "file", "batch", "act", "line", "refile", "advance"},
               ids : SUBSET Nat, path : Paths \cup {None},
               partial : BOOLEAN, unasked : BOOLEAN, guarded : BOOLEAN]
AllRows    == Nat \X Slots \X AnyText

DiskType ==
  work \in [Paths -> Content] /\ index \in [Paths -> Content]

SelectedType ==
  /\ patch \in Patches \cup {None} /\ lines \in Views \cup {None}
  /\ snaps \in Snapshots \cup {None} /\ review \in Reviews \cup {None}
  /\ kind \in Kinds /\ reason \in {"none", "list", "advance"}

UserType ==
  /\ screen \in [path : Paths \cup {None}, rows : SUBSET AllRows]
  /\ known \subseteq Nat \X AnyText
  /\ {told, raced, aged, broken} \subseteq BOOLEAN
  /\ commands \in Nat /\ edits \in Nat /\ deaths \in Nat

\* Where a command can be with which task.
ControlType ==
  /\ job \in Jobs
  /\ pc \in {"idle", "refresh", "finish"} \cup Acting \cup Publishes
  /\ pc = "idle" => job = NoJob
  /\ pc \in {"stage", "refresh"} => job.verb = "line"
  /\ pc \in {"include", "discard"} => job.verb = pc
  /\ pc = "stage file" => job.verb = "include"
  /\ pc \in {"stage", "refresh", "stage file"} => ~job.unasked
  /\ pc = "finish" => job.verb \in {"include", "discard"}
  /\ pc \in Publishes => job.view \in Views /\ job.verb # "none" /\ job.then # "exit"
  /\ pc \in Publishes =>
       /\ job.then \in {"file", "batch"} => job.verb = "show"
       /\ job.then \in {"line", "refile"} => job.verb = "line"
       /\ job.then = "next" => job.verb \in {"show", "line"}
       /\ job.then \in {"act", "advance"} => job.verb \in {"include", "discard"}
       /\ job.then = "act" => job.unasked
       /\ job.then = "refile" => job.was \in Views /\ job.was # None
  /\ pc = "forget" => job.then \in {"next", "file"}
  /\ pc = "review" => job.then \in {"file", "batch"}
  /\ pc = "renumber" => job.then = "refile"
  /\ pc = "display" => job.then # "act"
  /\ pc \in {"include", "discard"} => patch \in Patches
  /\ pc \in {"stage", "refresh"} => lines \in Views

TypeOK == DiskType /\ SelectedType /\ UserType /\ ControlType

-----------------------------------------------------------------------------
(* What has been published.                                                  *)

Shape(view) == [path |-> view.path, old |-> view.old, new |-> view.new]

\* The files of the selection follow the view, one after the other.
Published ==
  /\ pc \in {"patch", "lines", "snaps", "kind"} => kind = "none"
  /\ pc \in Publishes \ {"invalidate", "patch"} => patch = Shape(job.view)
  /\ pc \in Publishes \ {"invalidate", "patch", "lines", "display"} => lines = job.view
  /\ pc = "display" =>
       /\ lines \in Views /\ Shape(lines) = Shape(job.view)
       /\ job.then # "refile" => lines = job.view
  /\ pc \in {"forget", "review", "renumber", "display"} =>
       kind = KindOf(job.then) /\ reason = "none"
  /\ pc \in {"kind", "forget", "review", "renumber", "display"} /\ job.then # "batch" =>
       snaps \in Snapshots /\ snaps.path = job.view.path

\* The review of what is published, which a view that is not of a file has not.
ReviewPublished ==
  pc \in Publishes =>
    /\ job.then = "advance" => review = None
    /\ job.then = "next" /\ pc = "display" => review = None
    /\ job.then = "file" /\ pc = "display" /\ review # None =>
         /\ review.source = "live" /\ review.path = job.view.path
         /\ review.entire => review.shown = IdsOf(job.view)
    /\ job.then \in {"act", "line"} /\ ~broken => review = None
    /\ job.then = "refile" /\ ~broken =>
         /\ job.path = job.view.path
         /\ review # None => /\ review.source = "live" /\ review.path = job.view.path
                             /\ job.partial <=> ~review.entire

\* What is selected while no command replaces it.
Selection ==
  ~broken /\ pc \notin Publishes =>
    /\ kind = "none" => patch = None /\ lines = None /\ review = None
    /\ kind = "hunk" => review = None
    /\ kind \in {"hunk", "file"} =>
         /\ lines \in Views /\ patch = Shape(lines)
         /\ snaps \in Snapshots /\ snaps.path = lines.path
    /\ kind = "file" /\ review # None => review.source = "live" /\ review.path = lines.path
    /\ pc \in {"stage", "refresh"} =>
         /\ kind \in {"hunk", "file"} /\ lines # None /\ job.path = lines.path
         /\ job.partial <=> review # None /\ ~review.entire
    /\ pc = "stage file" => kind = "file"
    /\ pc \in {"include", "discard"} => kind = "hunk"

\* After `told` nothing is selected until a view was displayed.
Telling ==
  told /\ ~broken => \/ pc = "idle" /\ ToldToChoose
                     \/ pc \in Publishes /\ job.verb = "show"

-----------------------------------------------------------------------------
(* What a view says of its file.                                             *)

\* A slot in which the view has no change has no other text than the index and
\* HEAD have between them.
Covers(view, old, new) ==
  /\ view.new = new
  /\ \A s \in Slots : view.old[s] = view.new[s] => new[s] \in {old[s], Old}

CoversFile(view) == Covers(view, index[view.path], work[view.path])

\* While a view is rendered and snapshots are taken it is true of its file, and
\* of its snapshots afterwards.
ViewIsTrue ==
  pc \in Publishes /\ job.then # "batch" /\ ~raced =>
    /\ pc \in Rendering \/ ~aged => CoversFile(job.view)
    /\ pc \notin Rendering => Covers(job.view, snaps.index, snaps.work)

Clean == ~raced /\ ~broken

\* The selection that the user has seen.
Seen == Clean /\ pc \notin Publishes /\ ~job.unasked /\ kind \in {"hunk", "file"}

SelectionIsTrue ==
  Seen => /\ Covers(lines, snaps.index, snaps.work)
          /\ kind = "file" /\ ~aged => CoversFile(lines)

\* The output showed the selected lines that its review admits.
Displayed ==
  Seen => /\ screen.path = lines.path /\ screen.rows \subseteq Rows(lines)
          /\ \A r \in Rows(lines) :
               review = None \/ review.entire \/ r[1] \in review.shown => r \in screen.rows

\* No action goes on with other content than it compared.
Guarded ==
  Clean =>
    /\ pc = "stage" =>
         /\ work[lines.path] = lines.new
         /\ \A r \in Rows(lines) : r[1] \in job.ids => r \in screen.rows
    /\ pc = "stage file" =>
         /\ Rows(lines) \subseteq screen.rows
         /\ job.guarded \/ ~aged => CoversFile(lines)

-----------------------------------------------------------------------------
(* What IDs mean.                                                            *)

Names(view, k) == \A s \in DOMAIN view.ids : view.ids[s] = k[1] => view.new[s] = k[2]

\* What the user knows of the IDs up to the highest of the last output.
Continues(view) ==
  \A k \in known : (\E r \in screen.rows : k[1] <= r[1]) => Names(view, k)

Continuable(view) == screen.rows \subseteq Rows(view) /\ \A k \in known : Names(view, k)

Meaning ==
  /\ Seen => \A k \in known : Names(lines, k)
  /\ pc \in Publishes /\ job.verb = "line" /\ Clean /\ screen.path = job.view.path =>
       IF job.then # "refile" THEN Continues(job.view)
       ELSE IF pc = "display" THEN Continues(lines)
       ELSE Continuable(job.was)

Inv ==
  /\ Published /\ ReviewPublished /\ Selection /\ Telling
  /\ ViewIsTrue /\ SelectionIsTrue /\ Displayed /\ Guarded /\ Meaning

-----------------------------------------------------------------------------
(* Numbers.                                                                  *)

\* A finite set of numbers has a highest.
LEMMA Highest ==
  ASSUME NEW S \in SUBSET Nat, IsFiniteSet(S), S # {}
  PROVE  \E m \in S : \A j \in S : j <= m
<1> DEFINE Unbounded(T) == T # {} /\ ~\E m \in T : \A j \in T : j <= m
           Bad == {T \in SUBSET S : Unbounded(T)}
           Sizes == {Cardinality(T) : T \in Bad}
           Less == {ss \in Nat \X Nat : ss[1] < ss[2]}
<1>1. SUFFICES ASSUME S \in Bad PROVE FALSE
  OBVIOUS
<1>2. \A T \in SUBSET S : IsFiniteSet(T) /\ Cardinality(T) \in Nat
  BY FS_Subset, FS_CardinalityType
<1>3. Sizes \subseteq Nat /\ Sizes # {}
  BY <1>1, <1>2
<1>4. IsWellFoundedOn(Less, Nat)
  BY NatLessThanWellFounded, Zenon DEF OpToRel
<1> HIDE DEF Less
<1>5. PICK n \in Sizes : \A i \in Sizes : ~(<<i, n>> \in Less)
  BY ONLY <1>3, <1>4, WFMin, Zenon
<1>6. \A i \in Sizes : ~(i < n)
  BY <1>3, <1>5 DEF Less
<1>7. PICK T \in Bad : n = Cardinality(T)
  BY <1>5, Zenon
<1>8. PICK x \in T : TRUE
  BY <1>7
<1>9. T \in SUBSET S /\ IsFiniteSet(T) /\ Cardinality(T) \in Nat
  BY <1>2, <1>7
<1>10. Cardinality(T \ {x}) = Cardinality(T) - 1 /\ T \ {x} \in SUBSET S
  BY <1>8, <1>9, FS_RemoveElement
<1>11. T \ {x} \notin Bad
  <2>1. ASSUME T \ {x} \in Bad PROVE Cardinality(T) - 1 \in Sizes
    BY <1>10, <2>1
  <2>2. n = Cardinality(T) /\ Cardinality(T) \in Nat
    BY <1>7, <1>9
  <2> HIDE DEF Sizes, Bad
  <2>3. Cardinality(T) - 1 \notin Sizes
    BY <1>6, <2>2
  <2> QED BY <2>1, <2>3
<1>14. T \subseteq Nat /\ x \in Nat
  BY <1>8, <1>9
<1>12. CASE T \ {x} = {}
  BY <1>7, <1>8, <1>9, <1>12
<1>13. CASE T \ {x} # {}
  <2>1. PICK m \in T \ {x} : \A j \in T \ {x} : j <= m
    BY <1>10, <1>11, <1>13
  <2>2. m <= x \/ x <= m
    BY <1>14, <2>1
  <2>3. CASE m <= x
    <3>1. \A j \in T : j <= x
      BY <1>14, <2>1, <2>3
    <3> QED BY <1>7, <1>8, <3>1
  <2>4. CASE x <= m
    <3>1. \A j \in T : j <= m
      BY <1>14, <2>1, <2>4
    <3> QED BY <1>7, <2>1, <3>1
  <2> QED BY <2>2, <2>3, <2>4
<1> QED BY <1>12, <1>13

\* Ranks count from one and grow with the slots.
LEMMA Ranks ==
  ASSUME NEW S \in SUBSET Slots
  PROVE  /\ \A s \in Slots : Rank(S, s) \in Nat
         /\ \A s \in S : Rank(S, s) >= 1
         /\ \A s, t \in S : s < t => Rank(S, s) < Rank(S, t)
<1> DEFINE Upto(s) == {t \in S : t <= s}
<1>1. IsFiniteSet(S)
  BY SlotAssumption, FS_Subset
<1>2. \A s \in Slots : IsFiniteSet(Upto(s)) /\ Cardinality(Upto(s)) \in Nat
  BY <1>1, FS_Subset, FS_CardinalityType
<1>3. ASSUME NEW s \in S PROVE Cardinality(Upto(s)) >= 1
  <2>1. s \in Upto(s)
    BY <1>3, SlotAssumption
  <2>2. Cardinality(Upto(s)) # 0
    BY <1>2, <2>1, FS_EmptySet
  <2> QED BY <1>2, <2>2
<1>4. ASSUME NEW s \in S, NEW t \in S, s < t PROVE Cardinality(Upto(s)) < Cardinality(Upto(t))
  <2>4. S \subseteq Nat
    BY SlotAssumption
  <2>5. t <= t /\ ~(t <= s) /\ \A u \in S : u <= s => u <= t
    BY <1>4, <2>4
  <2>1. Upto(s) \in SUBSET Upto(t) /\ t \in Upto(t) /\ t \notin Upto(s)
    BY <2>5
  <2>2. Cardinality(Upto(s)) <= Cardinality(Upto(t))
    BY <1>2, <2>1, FS_Subset
  <2>3. Cardinality(Upto(s)) # Cardinality(Upto(t))
    BY <1>2, <2>1, FS_Subset
  <2> QED BY <1>2, <2>2, <2>3
<1> QED BY <1>2, <1>3, <1>4 DEF Rank

-----------------------------------------------------------------------------
(* Views.                                                                    *)

\* What is rendered is a view of its file.
LEMMA RenderedIsView ==
  ASSUME NEW p \in Paths, NEW old \in Content, NEW new \in Content
  PROVE  /\ Rendered(p, old, new) \in Views
         /\ Shape(Rendered(p, old, new)) = [path |-> p, old |-> old, new |-> new]
<1> DEFINE S == {s \in Slots : old[s] # new[s]}
           ids == [s \in S |-> Rank(S, s)]
<1>1. ids \in [S -> Nat] /\ S \in SUBSET Slots
  BY Ranks
<1>2. ASSUME NEW s \in S, NEW t \in S, ids[s] = ids[t] PROVE s = t
  <2>1. s \in Nat /\ t \in Nat
    BY SlotAssumption
  <2>2. ~(s < t) /\ ~(t < s)
    BY <1>2, Ranks
  <2> QED BY <2>1, <2>2
<1>3. Rendered(p, old, new) = [path |-> p, old |-> old, new |-> new, ids |-> ids]
  BY DEF Rendered
<1> HIDE DEF ids
<1>4. ids \in Numberings /\ DOMAIN ids = S
  BY <1>1 DEF Numberings
<1> QED BY <1>2, <1>3, <1>4 DEF Views, IsView, Shape

LEMMA ViewType ==
  ASSUME NEW v \in Views
  PROVE  /\ v.path \in Paths /\ v.old \in Content /\ v.new \in Content
         /\ DOMAIN v.ids = {s \in Slots : v.old[s] # v.new[s]}
         /\ \A s \in DOMAIN v.ids : v.ids[s] \in Nat
         /\ \A s, t \in DOMAIN v.ids : v.ids[s] = v.ids[t] => s = t
         /\ IdsOf(v) \in SUBSET Nat /\ IsFiniteSet(IdsOf(v))
         /\ Rows(v) \in SUBSET AllRows
         /\ v = [path |-> v.path, old |-> v.old, new |-> v.new, ids |-> v.ids]
<1>1. PICK S \in SUBSET Slots : v.ids \in [S -> Nat]
  BY DEF Views, Numberings
<1>2. v.path \in Paths /\ v.old \in Content /\ v.new \in Content /\ IsView(v)
  BY DEF Views
<1>3. IdsOf(v) \in SUBSET Nat
  BY <1>1 DEF IdsOf
<1>4. IsFiniteSet(DOMAIN v.ids)
  BY <1>1, SlotAssumption, FS_Subset
<1>5. v.ids \in Surjection(DOMAIN v.ids, IdsOf(v))
  BY <1>1 DEF Surjection, IdsOf
<1>6. IsFiniteSet(IdsOf(v))
  BY <1>4, <1>5, FS_Surjection
<1>7. Rows(v) \in SUBSET AllRows
  BY <1>1, <1>2 DEF Rows, AllRows, Content, AnyText
<1>8. v = [path |-> v.path, old |-> v.old, new |-> v.new, ids |-> v.ids]
  BY DEF Views
<1> QED BY <1>1, <1>2, <1>3, <1>6, <1>7, <1>8 DEF IsView

LEMMA ViewRecord ==
  ASSUME NEW now \in Views, NEW f
  PROVE  [now EXCEPT !.ids = f] =
           [path |-> now.path, old |-> now.old, new |-> now.new, ids |-> f]
<1>1. now \in [path : Paths, old : Content, new : Content, ids : Numberings]
  BY DEF Views
<1> QED BY <1>1

LEMMA NoneIsNoView == None \notin Views /\ None \notin Patches /\ None \notin Snapshots
BY NoneAssumption DEF Views, Patches, Snapshots, Numberings

\* Aligned rows have the IDs of the view before, and the others IDs above them.
Kept(m) == {pair[2] : pair \in m}

Keeps(was, now, m, v) ==
  /\ v = [path |-> now.path, old |-> now.old, new |-> now.new, ids |-> v.ids]
  /\ v.ids = [s \in DOMAIN now.ids |-> v.ids[s]]
  /\ Kept(m) \subseteq DOMAIN now.ids
  /\ \A s \in Kept(m) : \E r \in DOMAIN was.ids :
       <<r, s>> \in m /\ v.ids[s] = was.ids[r] /\ was.new[r] = now.new[s]
  /\ \A s \in DOMAIN now.ids \ Kept(m) :
       v.ids[s] \in Nat /\ \A i \in IdsOf(was) : i < v.ids[s]
  /\ \A s, t \in DOMAIN now.ids \ Kept(m) : v.ids[s] = v.ids[t] => s = t

LEMMA RenumberedKeeps ==
  ASSUME NEW was \in Views, NEW now \in Views, NEW m \in Alignments(was, now),
         DOMAIN was.ids # {}
  PROVE  Keeps(was, now, m, Renumbered(was, now, m))
<1> DEFINE kept == Kept(m)
           rest == DOMAIN now.ids \ kept
           top  == CHOOSE i \in IdsOf(was) : \A j \in IdsOf(was) : j <= i
           RowOf(s) == CHOOSE r \in Slots : <<r, s>> \in m
           IdOf(s) == IF s \in kept THEN was.ids[RowOf(s)] ELSE top + Rank(rest, s)
           v == Renumbered(was, now, m)
<1>1. /\ m \subseteq (DOMAIN was.ids) \X (DOMAIN now.ids)
      /\ \A pair \in m : was.new[pair[1]] = now.new[pair[2]]
  BY DEF Alignments
<1>2. DOMAIN was.ids \subseteq Slots /\ DOMAIN now.ids \subseteq Slots
  BY ViewType
<1>3. v = [now EXCEPT !.ids = [s \in DOMAIN now.ids |-> IdOf(s)]]
  BY DEF Renumbered, Kept
<1>4. /\ v = [path |-> now.path, old |-> now.old, new |-> now.new,
              ids |-> [s \in DOMAIN now.ids |-> IdOf(s)]]
  BY <1>3, ViewRecord, Zenon
<1>5. ASSUME NEW s \in kept
      PROVE  RowOf(s) \in DOMAIN was.ids /\ <<RowOf(s), s>> \in m
  <2>1. PICK pair \in m : s = pair[2]
    BY <1>5 DEF Kept
  <2>2. pair[1] \in Slots /\ <<pair[1], s>> \in m
    BY <1>1, <1>2, <2>1
  <2>3. RowOf(s) \in Slots /\ <<RowOf(s), s>> \in m
    BY <2>2
  <2> QED BY <1>1, <2>3
<1>6. IdsOf(was) \in SUBSET Nat /\ IsFiniteSet(IdsOf(was)) /\ IdsOf(was) # {}
  BY ViewType DEF IdsOf
<1>7. top \in IdsOf(was) /\ \A j \in IdsOf(was) : j <= top
  BY <1>6, Highest
<1>8. rest \in SUBSET Slots /\ kept \subseteq DOMAIN now.ids
  BY <1>1, <1>2 DEF Kept
<1> HIDE DEF kept, rest, top, RowOf
<1>9. \A s \in DOMAIN now.ids : v.ids[s] = IdOf(s)
  BY <1>4
<1>10. ASSUME NEW s \in kept
       PROVE  \E r \in DOMAIN was.ids :
                <<r, s>> \in m /\ v.ids[s] = was.ids[r] /\ was.new[r] = now.new[s]
  <2>1. v.ids[s] = was.ids[RowOf(s)]
    BY <1>8, <1>9, <1>10
  <2>2. was.new[RowOf(s)] = now.new[s]
    BY <1>1, <1>5, <1>10
  <2> QED BY <1>5, <1>10, <2>1, <2>2
<1>11. ASSUME NEW s \in DOMAIN now.ids \ kept
       PROVE  v.ids[s] \in Nat /\ \A i \in IdsOf(was) : i < v.ids[s]
  <2>1. v.ids[s] = top + Rank(rest, s) /\ s \in rest
    BY <1>9, <1>11 DEF rest
  <2>2. Rank(rest, s) \in Nat /\ Rank(rest, s) >= 1
    BY <1>8, <2>1, Ranks
  <2> QED BY <1>6, <1>7, <2>1, <2>2
<1>12. ASSUME NEW s \in DOMAIN now.ids \ kept, NEW t \in DOMAIN now.ids \ kept,
              v.ids[s] = v.ids[t]
       PROVE  s = t
  <2>1. s \in rest /\ t \in rest /\ top + Rank(rest, s) = top + Rank(rest, t)
    BY <1>9, <1>12 DEF rest
  <2>2. Rank(rest, s) \in Nat /\ Rank(rest, t) \in Nat /\ top \in Nat
    BY <1>6, <1>7, <1>8, <2>1, Ranks
  <2>3. s \in Nat /\ t \in Nat
    BY <1>8, <2>1, SlotAssumption
  <2>5. Rank(rest, s) = Rank(rest, t)
    BY <2>1, <2>2
  <2>6. \A a, b \in rest : a < b => Rank(rest, a) < Rank(rest, b)
    BY <1>8, Ranks
  <2>4. ~(s < t) /\ ~(t < s)
    BY <2>1, <2>2, <2>5, <2>6
  <2> QED BY <2>3, <2>4
<1>13. v = [path |-> now.path, old |-> now.old, new |-> now.new, ids |-> v.ids]
  BY <1>4
<1>14. v.ids = [s \in DOMAIN now.ids |-> v.ids[s]]
  BY <1>4
<1> HIDE DEF v
<1> QED BY <1>8, <1>10, <1>11, <1>12, <1>13, <1>14 DEF v, kept, Keeps

\* A renumbered view is a view of the same change.
LEMMA PreservedIsView ==
  ASSUME NEW was \in Views \cup {None}, NEW now \in Views, NEW v \in Preserved(was, now)
  PROVE  v \in Views /\ Shape(v) = Shape(now)
<1>1. CASE was = None \/ DOMAIN was.ids = {}
  BY <1>1 DEF Preserved
<1>2. CASE ~(was = None \/ DOMAIN was.ids = {})
  <2>1. PICK m \in Alignments(was, now) : v = Renumbered(was, now, m)
    BY <1>2 DEF Preserved
  <2> DEFINE kept == Kept(m)
  <2>2. was \in Views /\ DOMAIN was.ids # {}
    BY <1>2
  <2>3. Keeps(was, now, m, v)
    BY <2>1, <2>2, RenumberedKeeps
  <2>13. /\ DOMAIN v.ids = DOMAIN now.ids
         /\ v.path = now.path /\ v.old = now.old /\ v.new = now.new
    BY <2>3 DEF Keeps
  <2> HIDE DEF kept
  <2>4. /\ \A r \in DOMAIN was.ids : was.ids[r] \in Nat
        /\ \A r, q \in DOMAIN was.ids : was.ids[r] = was.ids[q] => r = q
    BY <2>2, ViewType
  <2>5. \A a, b \in m : a[1] = b[1] => a[2] = b[2]
    BY DEF Alignments
  <2>6. \A s \in DOMAIN v.ids : v.ids[s] \in Nat
    BY <2>3, <2>4, <2>13 DEF Keeps
  <2>7. ASSUME NEW s \in DOMAIN v.ids, NEW t \in DOMAIN v.ids, v.ids[s] = v.ids[t]
        PROVE  s = t
    <3>1. CASE s \in kept /\ t \in kept
      <4>1. PICK r \in DOMAIN was.ids : <<r, s>> \in m /\ v.ids[s] = was.ids[r]
        BY <2>3, <3>1 DEF Keeps, kept
      <4>2. PICK q \in DOMAIN was.ids : <<q, t>> \in m /\ v.ids[t] = was.ids[q]
        BY <2>3, <3>1 DEF Keeps, kept
      <4>3. r = q
        BY <2>4, <2>7, <4>1, <4>2
      <4> QED BY <2>5, <4>1, <4>2, <4>3
    <3>2. CASE s \notin kept /\ t \notin kept
      BY <2>3, <2>7, <2>13, <3>2 DEF Keeps, kept
    <3>3. ASSUME NEW a \in DOMAIN v.ids, NEW b \in DOMAIN v.ids, a \in kept, b \notin kept
          PROVE  v.ids[a] # v.ids[b]
      <4>1. PICK r \in DOMAIN was.ids : v.ids[a] = was.ids[r]
        BY <2>3, <3>3 DEF Keeps, kept
      <4>2. was.ids[r] \in IdsOf(was) /\ was.ids[r] \in Nat
        BY <2>4 DEF IdsOf
      <4> QED BY <2>3, <2>13, <3>3, <4>1, <4>2 DEF Keeps, kept
    <3> QED BY <2>7, <3>1, <3>2, <3>3
  <2>8. /\ now.path \in Paths /\ now.old \in Content /\ now.new \in Content
        /\ DOMAIN now.ids = {s \in Slots : now.old[s] # now.new[s]}
    BY ViewType
  <2>9. v.ids \in [DOMAIN now.ids -> Nat]
    BY <2>3, <2>6, <2>13 DEF Keeps
  <2>10. v.ids \in Numberings
    BY <2>8, <2>9 DEF Numberings
  <2>11. v \in [path : Paths, old : Content, new : Content, ids : Numberings]
    BY <2>3, <2>8, <2>10 DEF Keeps
  <2>12. IsView(v)
    BY <2>7, <2>8, <2>13 DEF IsView
  <2> QED BY <2>11, <2>12, <2>13 DEF Views, Shape
<1> QED BY <1>1, <1>2

\* What the user knows of the last output's IDs stays true of a renumbered view.
LEMMA PreservedContinues ==
  ASSUME NEW was \in Views, was # None, NEW now \in Views, NEW v \in Preserved(was, now),
         screen.rows \subseteq Rows(was), \A k \in known : Names(was, k),
         known \subseteq Nat \X AnyText
  PROVE  Continues(v)
<1>1. SUFFICES ASSUME NEW k \in known, NEW r \in screen.rows, k[1] <= r[1],
                      NEW s \in DOMAIN v.ids, v.ids[s] = k[1]
               PROVE  v.new[s] = k[2]
  BY DEF Continues, Names
<1>2. r \in Rows(was)
  OBVIOUS
<1>3. PICK q \in DOMAIN was.ids : r = <<was.ids[q], q, was.new[q]>>
  BY <1>2 DEF Rows
<1>4. r[1] \in IdsOf(was) /\ DOMAIN was.ids # {}
  BY <1>3 DEF IdsOf
<1>5. PICK m \in Alignments(was, now) : v = Renumbered(was, now, m)
  BY <1>4 DEF Preserved
<1>6. Keeps(was, now, m, v)
  BY <1>4, <1>5, RenumberedKeeps
<1>7. r[1] \in Nat /\ k[1] \in Nat
  BY <1>4, ViewType
<1>8. s \in Kept(m)
  <2>1. ASSUME s \notin Kept(m) PROVE FALSE
    <3>1. r[1] < v.ids[s] /\ v.ids[s] \in Nat
      BY <1>4, <1>6, <2>1 DEF Keeps
    <3> QED BY <1>1, <1>7, <3>1
  <2> QED BY <2>1
<1>9. PICK p \in DOMAIN was.ids : v.ids[s] = was.ids[p] /\ was.new[p] = now.new[s]
  BY <1>6, <1>8 DEF Keeps
<1>10. was.new[p] = k[2]
  BY <1>1, <1>9 DEF Names
<1>11. v.new = now.new
  BY <1>6 DEF Keeps
<1> QED BY <1>9, <1>10, <1>11

-----------------------------------------------------------------------------
(* Types.                                                                    *)

LEMMA NoJobType == NoJob \in Jobs
BY DEF NoJob, Jobs

LEMMA ReplaceType ==
  ASSUME NEW asked \in Jobs, NEW view \in Views,
         NEW then \in {"next", "file", "batch", "act", "line", "refile", "advance"},
         Replace(asked, view, then), raced \in BOOLEAN
  PROVE  /\ job' \in Jobs /\ job' = [asked EXCEPT !.view = view, !.then = then]
         /\ job'.view = view /\ job'.then = then /\ job'.verb = asked.verb
         /\ job'.was = asked.was /\ job'.ids = asked.ids /\ job'.path = asked.path
         /\ job'.partial = asked.partial /\ job'.unasked = asked.unasked
         /\ job'.guarded = asked.guarded
         /\ pc' = "invalidate" /\ raced' = (raced /\ asked.verb = "line")
         /\ raced' \in BOOLEAN
BY DEF Replace, Jobs

LEMMA ShowJob ==
  LET asked == [NoJob EXCEPT !.verb = "show"]
  IN  asked \in Jobs /\ asked.verb = "show" /\ ~asked.unasked
BY DEF NoJob, Jobs

LEMMA LineJob ==
  ASSUME NEW ids \in SUBSET Nat, NEW p \in Paths, NEW partial \in BOOLEAN,
         job' = [NoJob EXCEPT !.verb = "line", !.ids = ids, !.path = p, !.partial = partial]
  PROVE  /\ job' \in Jobs /\ job'.verb = "line" /\ job'.ids = ids /\ job'.path = p
         /\ job'.partial = partial /\ ~job'.unasked
BY DEF NoJob, Jobs

LEMMA RefileJob ==
  ASSUME job \in Jobs, NEW was \in Views
  PROVE  LET asked == [job EXCEPT !.was = was]
         IN  /\ asked \in Jobs /\ asked.was = was /\ asked.verb = job.verb
             /\ asked.ids = job.ids /\ asked.path = job.path /\ asked.partial = job.partial
             /\ asked.unasked = job.unasked /\ asked.guarded = job.guarded
BY DEF Jobs

LEMMA BareJob ==
  ASSUME NEW verb \in {"include", "discard"}
  PROVE  LET asked == [NoJob EXCEPT !.verb = verb, !.guarded = review # None]
             first == [asked EXCEPT !.unasked = TRUE]
         IN  /\ asked \in Jobs /\ asked.verb = verb /\ ~asked.unasked
             /\ asked.guarded = (review # None)
             /\ first \in Jobs /\ first.verb = verb /\ first.unasked
BY DEF NoJob, Jobs

LEMMA RenderedType ==
  ASSUME DiskType, NEW p \in Paths
  PROVE  /\ Rendered(p, index[p], work[p]) \in Views
         /\ Rendered(p, Head, work[p]) \in Views
         /\ \A t \in Texts : Rendered(p, Head, [s \in Slots |-> t]) \in Views
<1>1. index[p] \in Content /\ work[p] \in Content /\ Head \in Content
  BY DEF DiskType, Content, Head
<1>2. \A t \in Texts : [s \in Slots |-> t] \in Content
  BY DEF Content
<1> QED BY <1>1, <1>2, RenderedIsView


LEMMA InitType == Init => TypeOK
<1> SUFFICES ASSUME Init PROVE TypeOK
  OBVIOUS
<1>1. DiskType
  BY DEF Init, DiskType, Content, Head
<1>2. SelectedType
  BY DEF Init, SelectedType, Kinds
<1>3. UserType
  BY DEF Init, UserType, Blank
<1>4. ControlType
  BY NoJobType DEF Init, ControlType, Acting, Publishes
<1> QED BY <1>1, <1>2, <1>3, <1>4 DEF TypeOK


LEMMA UpdateType ==
  ASSUME NEW f \in [Paths -> Content], NEW p, NEW c, p \in Paths => c \in Content
  PROVE  [f EXCEPT ![p] = c] \in [Paths -> Content]
OBVIOUS

LEMMA DiskStep == TypeOK /\ Next => DiskType'
<1> SUFFICES ASSUME TypeOK, Next PROVE DiskType'
  OBVIOUS
<1> USE DEF DiskType
<1>1. DiskType /\ work \in [Paths -> Content] /\ index \in [Paths -> Content]
  BY DEF TypeOK
<1>2. CASE UNCHANGED disk
  BY <1>1, <1>2 DEF disk
<1>3. CASE StageLines
  <2>1. CASE UNCHANGED index
    BY <1>1, <1>3, <2>1 DEF StageLines
  <2>2. CASE ~UNCHANGED index
    <3> DEFINE p == lines.path
               chosen == {s \in DOMAIN lines.ids : lines.ids[s] \in job.ids}
               c == [s \in Slots |-> IF s \in chosen THEN work[p][s] ELSE index[p][s]]
    <3>1. index' = [index EXCEPT ![p] = c] /\ UNCHANGED work
      BY <1>3, <2>2 DEF StageLines
    <3>2. p \in Paths => c \in Content
      BY <1>1 DEF Content
    <3> HIDE DEF p, c
    <3> QED BY <1>1, <3>1, <3>2, UpdateType
  <2> QED BY <2>1, <2>2
<1>4. CASE StageHunk
  <2>1. patch.new \in Content
    BY <1>4 DEF TypeOK, ControlType, StageHunk, Patches
  <2>2. UNCHANGED index \/ index' = [index EXCEPT ![patch.path] = patch.new]
    BY <1>4 DEF StageHunk
  <2> QED BY <1>1, <1>4, <2>1, <2>2, UpdateType DEF StageHunk
<1>5. CASE DiscardHunk
  <2>1. patch.old \in Content
    BY <1>5 DEF TypeOK, ControlType, DiscardHunk, Patches
  <2>2. UNCHANGED work \/ work' = [work EXCEPT ![patch.path] = patch.old]
    BY <1>5 DEF DiscardHunk
  <2> QED BY <1>1, <1>5, <2>1, <2>2, UpdateType DEF DiscardHunk
<1>6. CASE StageFile
  <2>1. UNCHANGED index \/ index' = [index EXCEPT ![patch.path] = work[patch.path]]
    BY <1>6 DEF StageFile
  <2>2. patch.path \in Paths => work[patch.path] \in Content
    BY <1>1
  <2> QED BY <1>1, <1>6, <2>1, <2>2, UpdateType DEF StageFile
<1>7. CASE UserEdits
  <2>1. PICK p \in Paths, s \in Slots, t \in AnyText : work' = [work EXCEPT ![p][s] = t]
    BY <1>7 DEF UserEdits, AnyText
  <2>2. [work[p] EXCEPT ![s] = t] \in Content
    BY <1>1 DEF Content, AnyText
  <2>3. work' = [work EXCEPT ![p] = [work[p] EXCEPT ![s] = t]]
    BY <2>1
  <2> QED BY <1>1, <1>7, <2>2, <2>3, UpdateType DEF UserEdits
<1>8. CASE UserStages
  <2>1. PICK p \in Paths : index' = [index EXCEPT ![p] = work[p]]
    BY <1>8 DEF UserStages, Unstaged
  <2> QED BY <1>1, <1>8, <2>1, UpdateType DEF UserStages
<1> QED
  BY <1>2, <1>3, <1>4, <1>5, <1>6, <1>7, <1>8
  DEF Next, ShowNext, ShowFile, ShowBatch, ShowList, InvalidateCache, WritePatch, WriteLines,
      WriteSnapshots, WriteKind, ForgetReview, WriteReview, RenumberLines, Display,
      IncludeLines, StaleSelectionIsCleared, Refresh, BareAction, Finish, Dies, Publishing, disk

LEMMA FingerprintType == SelectedType => Fingerprint \in Prints
BY DEF SelectedType, Fingerprint, Prints, Snapshots

LEMMA SelectedStep == TypeOK /\ Next => SelectedType'
<1> SUFFICES ASSUME TypeOK, Next PROVE SelectedType'
  OBVIOUS
<1>1. SelectedType /\ DiskType /\ ControlType
  BY DEF TypeOK
<1>2. CASE UNCHANGED selected
  BY <1>1, <1>2 DEF selected, SelectedType
<1>3. ASSUME NEW because \in {"none", "list", "advance"}, ClearSelection(because)
      PROVE  SelectedType'
  BY <1>3 DEF ClearSelection, SelectedType, Kinds
<1>4. CASE UNCHANGED <<patch, lines, snaps, kind, reason>> /\ review' \in {review, None}
  BY <1>1, <1>4 DEF SelectedType
<1>5. CASE InvalidateCache
  BY <1>1, <1>5 DEF SelectedType, InvalidateCache, Kinds
<1>6. pc \in Publishes => job.view \in Views
  BY <1>1 DEF ControlType
<1>7. CASE WritePatch
  <2>1. patch' \in Patches
    BY <1>6, <1>7, ViewType DEF WritePatch, Publishes, Patches
  <2> QED BY <1>1, <1>7, <2>1 DEF WritePatch, SelectedType
<1>8. CASE WriteLines
  BY <1>1, <1>6, <1>8 DEF SelectedType, WriteLines, Publishes
<1>9. CASE WriteSnapshots
  <2>1. job.view.path \in Paths
    BY <1>6, <1>9, ViewType DEF WriteSnapshots, Publishes
  <2>2. snaps' \in Snapshots \cup {None}
    BY <1>1, <1>9, <2>1 DEF WriteSnapshots, Snapshots, DiskType
  <2> QED BY <1>1, <1>9, <2>2 DEF WriteSnapshots, SelectedType
<1>10. CASE WriteKind
  <2>1. kind' \in Kinds /\ reason' = "none"
    BY <1>10 DEF WriteKind, KindOf, Kinds
  <2> QED BY <1>1, <1>10, <2>1 DEF WriteKind, SelectedType
<1>11. CASE WriteReview
  <2>1. IdsOf(job.view) \subseteq Nat /\ job.view.path \in Paths
    BY <1>6, <1>11, ViewType DEF WriteReview, Publishes
  <2>2. Fingerprint \in Prints
    BY <1>1, FingerprintType
  <2>3. PICK source \in {"live", "batch"}, shown \in SUBSET IdsOf(job.view), entire \in BOOLEAN :
          review' = [path |-> job.view.path, source |-> source, shown |-> shown,
                     entire |-> entire, of |-> Fingerprint]
    BY <1>11 DEF WriteReview
  <2>4. review' \in Reviews
    BY <2>1, <2>2, <2>3 DEF Reviews
  <2> QED BY <1>1, <1>11, <2>4 DEF WriteReview, SelectedType
<1>12. CASE RenumberLines
  <2>1. job.was \in Views \cup {None} /\ job.view \in Views
    BY <1>1, <1>6, <1>12 DEF RenumberLines, Publishes, ControlType, Jobs
  <2>2. lines' \in Views
    BY <1>12, <2>1, PreservedIsView DEF RenumberLines
  <2> QED BY <1>1, <1>12, <2>2 DEF RenumberLines, SelectedType
<1>13. CASE Refresh
  BY <1>2, <1>3, <1>13 DEF Refresh, Advance, selected
<1>14. CASE Finish
  BY <1>2, <1>3, <1>14 DEF Finish, Advance, selected
<1>15. CASE IncludeLines
  BY <1>2, <1>3, <1>15 DEF IncludeLines, StaleSelectionIsCleared, selected
<1>16. CASE \E verb \in {"include", "discard"} : BareAction(verb)
  BY <1>3, <1>4, <1>16 DEF BareAction, StaleSelectionIsCleared, ReviewAfterBareAction
<1> QED
  BY <1>2, <1>3, <1>4, <1>5, <1>7, <1>8, <1>9, <1>10, <1>11, <1>12, <1>13, <1>14, <1>15, <1>16
  DEF Next, ShowNext, ShowFile, ShowBatch, ShowList, ForgetReview, Display, StageLines,
      StageHunk, DiscardHunk, StageFile, UserEdits, UserStages, Dies, selected

\* What replaces a selection is a view of a file, and its command goes on.
LEMMA ReplaceControl ==
  ASSUME NEW asked \in Jobs, NEW view \in Views,
         NEW then \in {"next", "file", "batch", "act", "line", "refile", "advance"},
         Replace(asked, view, then), raced \in BOOLEAN,
         asked.verb # "none",
         then \in {"file", "batch"} => asked.verb = "show",
         then \in {"line", "refile"} => asked.verb = "line",
         then = "next" => asked.verb \in {"show", "line"},
         then \in {"act", "advance"} => asked.verb \in {"include", "discard"},
         then = "act" => asked.unasked,
         then = "refile" => asked.was \in Views /\ asked.was # None
  PROVE  ControlType' /\ raced' \in BOOLEAN
BY ReplaceType DEF ControlType, Acting, Publishes

LEMMA ExitControl == Exit => ControlType'
BY NoJobType DEF Exit, ControlType, Acting, Publishes

LEMMA AdvanceControl ==
  ASSUME TypeOK, NEW then \in {"next", "advance"}, Advance(then),
         then = "next" => job.verb = "line",
         then = "advance" => job.verb \in {"include", "discard"}
  PROVE  ControlType' /\ raced' \in BOOLEAN
<1>1. CASE Exit /\ UNCHANGED raced
  BY <1>1, ExitControl DEF TypeOK, UserType
<1>2. ASSUME NEW p \in Unstaged, Replace(job, Rendered(p, index[p], work[p]), then)
      PROVE  ControlType' /\ raced' \in BOOLEAN
  <2>1. p \in Paths /\ job \in Jobs /\ raced \in BOOLEAN /\ DiskType
    BY <1>2 DEF Unstaged, TypeOK, ControlType, UserType
  <2>2. Rendered(p, index[p], work[p]) \in Views
    BY <2>1, RenderedType
  <2> QED BY <1>2, <2>1, <2>2, ReplaceControl
<1> QED BY <1>1, <1>2 DEF Advance, luck

LEMMA ControlStep == TypeOK /\ Published /\ Next => ControlType' /\ raced' \in BOOLEAN
<1> SUFFICES ASSUME TypeOK, Published, Next PROVE ControlType' /\ raced' \in BOOLEAN
  OBVIOUS
<1>1. ControlType /\ SelectedType /\ DiskType /\ raced \in BOOLEAN /\ job \in Jobs
  BY DEF TypeOK, ControlType, UserType
<1>2. CASE Exit /\ UNCHANGED raced
  BY <1>1, <1>2, ExitControl
<1>3. ASSUME NEW p \in Paths, NEW t \in Texts
      PROVE  /\ Rendered(p, index[p], work[p]) \in Views
             /\ Rendered(p, Head, work[p]) \in Views
             /\ Rendered(p, Head, [s \in Slots |-> t]) \in Views
  BY <1>1, <1>3, RenderedType
<1>4. CASE ShowNext
  <2>1. PICK p \in Paths :
          Replace([NoJob EXCEPT !.verb = "show"], Rendered(p, index[p], work[p]), "next")
    BY <1>4 DEF ShowNext, Unstaged
  <2> QED BY <1>1, <2>1, RenderedType, ShowJob, ReplaceControl
<1>5. CASE ShowFile
  <2>1. PICK p \in Paths :
          Replace([NoJob EXCEPT !.verb = "show"], Rendered(p, Head, work[p]), "file")
    BY <1>5 DEF ShowFile
  <2> QED BY <1>1, <2>1, RenderedType, ShowJob, ReplaceControl
<1>6. CASE ShowBatch
  <2>1. PICK p \in Paths, t \in Texts :
          Replace([NoJob EXCEPT !.verb = "show"], Rendered(p, Head, [s \in Slots |-> t]), "batch")
    BY <1>6 DEF ShowBatch
  <2> QED BY <1>1, <2>1, RenderedType, ShowJob, ReplaceControl
<1>7. CASE ShowList
  BY <1>1, <1>7 DEF ShowList, Begins, ControlType, Acting, Publishes
<1>8. CASE InvalidateCache
  BY <1>1, <1>8 DEF InvalidateCache, Publishing, luck, ControlType, Acting, Publishes
<1>9. CASE WritePatch
  BY <1>1, <1>9 DEF WritePatch, Publishing, luck, ControlType, Acting, Publishes
<1>10. CASE WriteLines
  BY <1>1, <1>10 DEF WriteLines, Publishing, luck, ControlType, Acting, Publishes
<1>11. CASE WriteSnapshots
  BY <1>1, <1>11 DEF WriteSnapshots, ControlType, Acting, Publishes
<1>12. CASE WriteKind
  <2>1. /\ pc = "kind" /\ UNCHANGED <<job, patch, lines, raced>>
        /\ job.view \in Views /\ patch = Shape(job.view)
    BY <1>1, <1>12 DEF WriteKind, Publishing, luck, ControlType, Publishes, Published
  <2>2. patch \in Patches
    BY <2>1, ViewType DEF Shape, Patches
  <2>3. CASE job.then = "act"
    <3>1. pc' = job.verb /\ job.verb \in {"include", "discard"}
      BY <1>1, <1>12, <2>1, <2>3 DEF WriteKind, ControlType, Publishes
    <3> QED BY <1>1, <2>1, <2>2, <3>1 DEF ControlType, Acting, Publishes
  <2>4. CASE job.then # "act"
    <3>1. /\ pc' \in {"forget", "review", "renumber", "display"}
          /\ pc' = "forget" => job.then \in {"next", "file"}
          /\ pc' = "review" => job.then = "batch"
          /\ pc' = "renumber" => job.then = "refile"
      BY <1>12, <2>4 DEF WriteKind
    <3> QED BY <1>1, <2>1, <2>4, <3>1 DEF ControlType, Acting, Publishes
  <2> QED BY <2>3, <2>4
<1>13. CASE ForgetReview
  BY <1>1, <1>13 DEF ForgetReview, Publishing, luck, ControlType, Acting, Publishes
<1>14. CASE WriteReview
  BY <1>1, <1>14 DEF WriteReview, Publishing, luck, ControlType, Acting, Publishes
<1>15. CASE RenumberLines
  BY <1>1, <1>15 DEF RenumberLines, Publishing, luck, ControlType, Acting, Publishes
<1>16. CASE Display
  BY <1>2, <1>16 DEF Display
<1>17. CASE IncludeLines
  <2>1. lines # None /\ lines \in Views /\ lines.path \in Paths /\ IdsOf(lines) \subseteq Nat
    BY <1>1, <1>17, ViewType DEF IncludeLines, SelectedType
  <2>2. CASE StaleSelectionIsCleared
    BY <1>2, <2>2 DEF StaleSelectionIsCleared, luck
  <2>3. CASE ~StaleSelectionIsCleared
    <3> DEFINE partial == review # None /\ ~review.entire
    <3>1. PICK ids \in SUBSET IdsOf(lines) :
            /\ job' = [NoJob EXCEPT !.verb = "line", !.ids = ids, !.path = lines.path,
                                    !.partial = partial]
            /\ pc' = "stage" /\ UNCHANGED <<disk, selected, user, luck>>
      BY <1>17, <2>3 DEF IncludeLines
    <3>2. partial \in BOOLEAN /\ ids \in SUBSET Nat
      BY <1>1, <2>1 DEF SelectedType, Reviews
    <3> HIDE DEF partial
    <3>5. lines.path \in Paths
      BY <2>1
    <3>3. job' \in Jobs /\ job'.verb = "line" /\ ~job'.unasked
      <4>1. job' = [NoJob EXCEPT !.verb = "line", !.ids = ids, !.path = lines.path,
                                 !.partial = partial]
        BY <3>1
      <4> HIDE <3>1
      <4> QED BY <3>2, <3>5, <4>1, LineJob
    <3>4. lines' \in Views /\ raced' = raced
      BY <2>1, <3>1 DEF selected, luck
    <3> QED BY <1>1, <3>1, <3>3, <3>4 DEF ControlType, Acting, Publishes
  <2> QED BY <2>2, <2>3
<1>18. CASE StageLines
  <2>1. CASE Exit
    BY <1>2, <1>18, <2>1 DEF StageLines, luck
  <2>2. CASE pc' = "refresh" /\ UNCHANGED <<job, lines, raced>>
    BY <1>1, <1>18, <2>2 DEF StageLines, ControlType, Acting, Publishes
  <2> QED BY <1>18, <2>1, <2>2 DEF StageLines, luck, selected
<1>19. CASE Refresh
  <2>1. job.verb = "line" /\ lines \in Views /\ lines.path \in Paths
    BY <1>1, <1>19, ViewType DEF Refresh, ControlType
  <2>2. CASE Advance("next")
    BY <2>1, <2>2, AdvanceControl
  <2> DEFINE view == Rendered(lines.path, index[lines.path], work[lines.path])
             asked == [job EXCEPT !.was = lines]
  <2>5. view \in Views /\ lines # None
    BY <1>1, <2>1, RenderedType, NoneIsNoView
  <2>6. /\ asked \in Jobs /\ asked.verb = "line" /\ asked.was \in Views /\ asked.was # None
    BY <1>1, <2>1, <2>5, RefileJob
  <2> HIDE DEF view, asked
  <2>3. CASE Replace(asked, view, "refile")
    BY <1>1, <2>3, <2>5, <2>6, ReplaceControl
  <2>4. CASE \E v \in Preserved(lines, view) : Replace(job, v, "line")
    <3>1. PICK v \in Preserved(lines, view) : Replace(job, v, "line")
      BY <2>4
    <3>2. v \in Views
      BY <2>1, <2>5, PreservedIsView
    <3> QED BY <1>1, <2>1, <3>1, <3>2, ReplaceControl
  <2> QED BY <1>19, <2>2, <2>3, <2>4 DEF Refresh, view, asked
<1>20. CASE \E verb \in {"include", "discard"} : BareAction(verb)
  <2>1. PICK verb \in {"include", "discard"} : BareAction(verb)
    BY <1>20
  <2> DEFINE asked == [NoJob EXCEPT !.verb = verb, !.guarded = review # None]
             first == [asked EXCEPT !.unasked = TRUE]
  <2>2. /\ asked \in Jobs /\ asked.verb = verb /\ ~asked.unasked
        /\ first \in Jobs /\ first.verb = verb /\ first.unasked
    BY BareJob
  <2> HIDE DEF asked, first
  <2>3. CASE /\ job' = asked /\ UNCHANGED <<patch, raced>>
             /\ \/ verb = "include" /\ pc' = "stage file"
                \/ pc' = verb /\ patch \in Patches
    <3>1. job' \in Jobs /\ job'.verb = verb /\ ~job'.unasked /\ patch' = patch
      BY <2>2, <2>3
    <3>2. pc' \in {"stage file", "include", "discard"}
      BY <2>3
    <3>3. pc' = "stage file" => verb = "include"
      BY <2>3
    <3>4. pc' \in {"include", "discard"} => verb = pc' /\ patch \in Patches
      BY <2>3
    <3> QED BY <1>1, <2>3, <3>1, <3>2, <3>3, <3>4 DEF ControlType, Acting, Publishes
  <2>4. CASE StaleSelectionIsCleared
    BY <1>2, <2>4 DEF StaleSelectionIsCleared, luck
  <2>5. CASE \E p \in Unstaged : Replace(first, Rendered(p, index[p], work[p]), "act")
    <3>1. PICK p \in Paths : Replace(first, Rendered(p, index[p], work[p]), "act")
      BY <2>5 DEF Unstaged
    <3>2. Rendered(p, index[p], work[p]) \in Views
      BY <1>1, RenderedType
    <3> QED BY <1>1, <2>2, <3>1, <3>2, ReplaceControl
  <2>6. patch = None \/ patch \in Patches
    BY <1>1 DEF SelectedType
  <2> QED BY <2>1, <2>3, <2>4, <2>5, <2>6 DEF BareAction, asked, first, luck
<1>21. CASE StageHunk
  <2>1. CASE Exit
    BY <1>2, <1>21, <2>1 DEF StageHunk
  <2>2. CASE pc' = "finish" /\ UNCHANGED <<job, raced>>
    BY <1>1, <1>21, <2>2 DEF StageHunk, ControlType, Acting, Publishes
  <2> QED BY <1>21, <2>1, <2>2 DEF StageHunk, Fails
<1>22. CASE DiscardHunk
  <2>1. CASE Exit
    BY <1>2, <1>22, <2>1 DEF DiscardHunk
  <2>2. CASE pc' = "finish" /\ UNCHANGED <<job, raced>>
    BY <1>1, <1>22, <2>2 DEF DiscardHunk, ControlType, Acting, Publishes
  <2> QED BY <1>22, <2>1, <2>2 DEF DiscardHunk, Fails
<1>23. CASE StageFile
  <2>1. CASE Exit
    BY <1>2, <1>23, <2>1 DEF StageFile, luck
  <2>2. CASE pc' = "finish" /\ UNCHANGED <<job, raced>>
    BY <1>1, <1>23, <2>2 DEF StageFile, ControlType, Acting, Publishes
  <2> QED BY <1>23, <2>1, <2>2 DEF StageFile, luck
<1>24. CASE Finish
  BY <1>1, <1>24, AdvanceControl DEF Finish, ControlType
<1>25. CASE UserEdits
  BY <1>1, <1>25 DEF UserEdits, Notice, selected, ControlType
<1>26. CASE UserStages
  BY <1>1, <1>26 DEF UserStages, Notice, selected, ControlType
<1>27. CASE Dies
  BY <1>2, <1>27 DEF Dies
<1> QED
  BY <1>4, <1>5, <1>6, <1>7, <1>8, <1>9, <1>10, <1>11, <1>12, <1>13, <1>14, <1>15, <1>16, <1>17,
     <1>18, <1>19, <1>20, <1>21, <1>22, <1>23, <1>24, <1>25, <1>26, <1>27 DEF Next

\* A view goes through the files of the selection one step at a time.
PublishNext ==
  \/ InvalidateCache \/ WritePatch \/ WriteLines \/ WriteSnapshots \/ WriteKind
  \/ ForgetReview \/ WriteReview \/ RenumberLines

LEMMA UserStep == TypeOK /\ Published /\ Next => UserType'
<1> SUFFICES ASSUME TypeOK, Published, Next PROVE UserType'
  OBVIOUS
<1>1. /\ screen \in [path : Paths \cup {None}, rows : SUBSET AllRows]
      /\ known \subseteq Nat \X AnyText
  BY DEF TypeOK, UserType
<1>2. told \in BOOLEAN /\ raced \in BOOLEAN /\ aged \in BOOLEAN /\ broken \in BOOLEAN
  BY DEF TypeOK, UserType
<1>3. commands \in Nat /\ edits \in Nat /\ deaths \in Nat
  BY DEF TypeOK, UserType
<1>4. raced' \in BOOLEAN
  BY ControlStep
<1>5. /\ screen' \in [path : Paths \cup {None}, rows : SUBSET AllRows]
      /\ known' \subseteq Nat \X AnyText
  <2>1. CASE UNCHANGED <<screen, known>>
    BY <1>1, <2>1
  <2>2. CASE ShowList
    BY <2>2 DEF ShowList, Blank
  <2>3. CASE Display
    <3>1. lines \in Views
      BY <2>3 DEF Display, Published
    <3>2. lines.path \in Paths /\ Rows(lines) \in SUBSET AllRows
      BY <3>1, ViewType
    <3>3. PICK rows \in SUBSET Rows(lines), seen \in SUBSET known :
            /\ screen' = [path |-> lines.path, rows |-> rows]
            /\ known' = seen \cup {<<r[1], r[3]>> : r \in rows}
      BY <2>3 DEF Display
    <3>4. \A r \in AllRows : <<r[1], r[3]>> \in Nat \X AnyText
      BY DEF AllRows
    <3> QED BY <1>1, <3>2, <3>3, <3>4
  <2> QED
    BY <2>1, <2>2, <2>3
    DEF Next, ShowNext, ShowFile, ShowBatch, InvalidateCache, WritePatch, WriteLines,
        WriteSnapshots, WriteKind, ForgetReview, WriteReview, RenumberLines, IncludeLines,
        StaleSelectionIsCleared, StageLines, Refresh, BareAction, StageHunk, DiscardHunk,
        StageFile, Finish, Advance, UserEdits, UserStages, Dies, Publishing, user
<1>6. told' \in BOOLEAN
  BY <1>2
  DEF Next, ShowNext, ShowFile, ShowBatch, ShowList, InvalidateCache, WritePatch, WriteLines,
      WriteSnapshots, WriteKind, ForgetReview, WriteReview, RenumberLines, Display,
      IncludeLines, StaleSelectionIsCleared, StageLines, Refresh, BareAction, StageHunk,
      DiscardHunk, StageFile, Finish, Advance, UserEdits, UserStages, Dies, Publishing, user
<1>7. aged' \in BOOLEAN
  BY <1>2
  DEF Next, ShowNext, ShowFile, ShowBatch, ShowList, InvalidateCache, WritePatch, WriteLines,
      WriteSnapshots, WriteKind, ForgetReview, WriteReview, RenumberLines, Display,
      IncludeLines, StaleSelectionIsCleared, StageLines, Refresh, BareAction, StageHunk,
      DiscardHunk, StageFile, Finish, Advance, UserEdits, UserStages, Dies, Publishing, luck, Notice
<1>8. broken' \in BOOLEAN
  BY <1>2
  DEF Next, ShowNext, ShowFile, ShowBatch, ShowList, InvalidateCache, WritePatch, WriteLines,
      WriteSnapshots, WriteKind, ForgetReview, WriteReview, RenumberLines, Display,
      IncludeLines, StaleSelectionIsCleared, StageLines, Refresh, BareAction, StageHunk,
      DiscardHunk, StageFile, Finish, Advance, UserEdits, UserStages, Dies, Publishing, luck, Fails
<1>9. commands' \in Nat /\ edits' \in Nat /\ deaths' \in Nat
  <2>1. CASE Begins
    BY <1>3, <2>1 DEF Begins
  <2>2. CASE UNCHANGED counts
    BY <1>3, <2>2 DEF counts
  <2>3. CASE UserEdits \/ UserStages \/ Dies
    BY <1>3, <2>3 DEF UserEdits, UserStages, Dies
  <2>4. CASE PublishNext
    BY <2>2, <2>4
    DEF PublishNext, InvalidateCache, WritePatch, WriteLines, WriteSnapshots, WriteKind,
        ForgetReview, WriteReview, RenumberLines, Publishing
  <2> QED
    BY <2>1, <2>2, <2>3, <2>4
    DEF Next, PublishNext, ShowNext, ShowFile, ShowBatch, ShowList, Display, IncludeLines,
        StageLines, Refresh, BareAction, StageHunk, DiscardHunk, StageFile, Finish
<1> QED BY <1>4, <1>5, <1>6, <1>7, <1>8, <1>9 DEF UserType

LEMMA TypeStep == TypeOK /\ Published /\ [Next]_vars => TypeOK'
<1>1. CASE Next
  BY <1>1, DiskStep, SelectedStep, UserStep, ControlStep DEF TypeOK
<1>2. CASE UNCHANGED vars
  <2>1. UNCHANGED disk /\ UNCHANGED selected /\ UNCHANGED user /\ UNCHANGED luck
        /\ UNCHANGED counts /\ UNCHANGED <<pc, job>>
    BY <1>2 DEF vars
  <2>2. DiskType <=> DiskType'
    BY <2>1 DEF disk, DiskType
  <2>3. SelectedType <=> SelectedType'
    BY <2>1 DEF selected, SelectedType
  <2>4. UserType <=> UserType'
    BY <2>1 DEF user, luck, counts, UserType
  <2>5. ControlType <=> ControlType'
    <3>1. pc' = pc /\ job' = job /\ patch' = patch /\ lines' = lines
      BY <2>1 DEF selected
    <3> QED BY <3>1 DEF ControlType
  <2> QED BY <2>2, <2>3, <2>4, <2>5 DEF TypeOK
<1> QED BY <1>1, <1>2

-----------------------------------------------------------------------------
(* The publication of a view.                                                *)

LEMMA OnlyPublishing ==
  ASSUME TypeOK, Next, pc' \in Publishes \ {"invalidate"}, ~UserEdits
  PROVE  PublishNext
<1>1. pc' \notin {"idle", "invalidate", "refresh", "finish"} \cup Acting
  BY DEF Publishes, Acting
<1>2. ASSUME NEW asked, NEW view, NEW then, Replace(asked, view, then) PROVE FALSE
  BY <1>1, <1>2 DEF Replace
<1>3. ~Exit
  BY <1>1 DEF Exit
<1>4. \A then : ~Advance(then)
  BY <1>2, <1>3 DEF Advance
<1>5. ~ShowNext /\ ~ShowFile /\ ~ShowBatch
  BY <1>2 DEF ShowNext, ShowFile, ShowBatch
<1>6. ~ShowList /\ ~UserStages /\ ~Dies /\ ~Display
  BY <1>1, <1>3 DEF ShowList, UserStages, Dies, Begins, Display
<1>7. ~IncludeLines /\ ~StageLines
  BY <1>1, <1>3 DEF IncludeLines, StaleSelectionIsCleared, StageLines, Acting
<1>8. ~Refresh /\ ~Finish
  BY <1>2, <1>4 DEF Refresh, Finish
<1>9. ~\E verb \in {"include", "discard"} : BareAction(verb)
  BY <1>1, <1>2, <1>3 DEF BareAction, StaleSelectionIsCleared, Acting
<1>10. ~StageHunk /\ ~DiscardHunk /\ ~StageFile
  BY <1>1, <1>3 DEF StageHunk, DiscardHunk, StageFile, Fails, Acting
<1> QED BY <1>5, <1>6, <1>7, <1>8, <1>9, <1>10 DEF Next, PublishNext

LEMMA PublishedStep == TypeOK /\ Published /\ Next => Published'
<1> SUFFICES ASSUME TypeOK, Published, Next PROVE Published'
  OBVIOUS
<1>1. pc \in Publishes => job.view \in Views
  BY DEF TypeOK, ControlType
<1>2. CASE pc' \notin Publishes \ {"invalidate"}
  BY <1>2 DEF Published, Publishes
<1>3. CASE UserEdits
  BY <1>3 DEF UserEdits, selected, Published
<1>4. CASE InvalidateCache
  BY <1>4 DEF InvalidateCache, Publishing, Published, Publishes
<1>5. CASE WritePatch
  BY <1>5 DEF WritePatch, Publishing, Published, Publishes, Shape
<1>6. CASE WriteLines
  BY <1>6 DEF WriteLines, Publishing, Published, Publishes, Shape
<1>7. CASE WriteSnapshots
  <2>1. job.view.path \in Paths /\ DiskType
    BY <1>1, <1>7, ViewType DEF WriteSnapshots, Publishes, TypeOK
  <2>2. job.then # "batch" => snaps' \in Snapshots /\ snaps'.path = job.view.path
    BY <1>7, <2>1 DEF WriteSnapshots, Snapshots, DiskType
  <2> QED BY <1>7, <2>2 DEF WriteSnapshots, Published, Publishes
<1>8. CASE WriteKind
  <2>1. /\ pc = "kind" /\ pc' # "kind" /\ pc' \notin {"patch", "lines", "snaps"}
        /\ UNCHANGED <<patch, lines, snaps, job>> /\ kind' = KindOf(job.then) /\ reason' = "none"
    BY <1>8 DEF WriteKind, Publishing, TypeOK, ControlType, Publishes
  <2>2. lines = job.view /\ patch = Shape(job.view) /\ job.view \in Views
    BY <1>1, <2>1 DEF Published, Publishes
  <2> QED BY <2>1, <2>2 DEF Published, Publishes
<1>9. CASE ForgetReview
  BY <1>1, <1>9 DEF ForgetReview, Publishing, Published, Publishes
<1>10. CASE WriteReview
  BY <1>1, <1>10 DEF WriteReview, Publishing, Published, Publishes
<1>11. CASE RenumberLines
  <2>1. job.was \in Views /\ job.view \in Views /\ job.then = "refile"
    BY <1>1, <1>11 DEF RenumberLines, TypeOK, ControlType, Publishes
  <2>2. lines' \in Views /\ Shape(lines') = Shape(job.view)
    BY <1>11, <2>1, PreservedIsView DEF RenumberLines
  <2> QED BY <1>11, <2>1, <2>2 DEF RenumberLines, Publishing, Published, Publishes
<1> QED
  BY <1>2, <1>3, <1>4, <1>5, <1>6, <1>7, <1>8, <1>9, <1>10, <1>11, OnlyPublishing DEF PublishNext

\* What starts to be published was rendered from its file, by a command that
\* has made way for it.
LEMMA OnlyStarts ==
  ASSUME TypeOK, Next, pc' = "invalidate"
  PROVE  \/ ShowNext \/ ShowFile \/ ShowBatch \/ Refresh \/ Finish \/ UserEdits
         \/ \E verb \in {"include", "discard"} : BareAction(verb)
<1>1. ~Exit
  BY DEF Exit
<1>2. ~Dies /\ ~Display /\ ~IncludeLines /\ ~StageLines /\ ~UserStages /\ ~ShowList
  BY <1>1 DEF Dies, Display, IncludeLines, StaleSelectionIsCleared, StageLines, UserStages,
              ShowList, Begins
<1>3. ~StageHunk /\ ~DiscardHunk /\ ~StageFile
  BY <1>1 DEF StageHunk, DiscardHunk, StageFile, Fails
<1>4. ~InvalidateCache /\ ~WritePatch /\ ~WriteLines /\ ~WriteSnapshots
  BY DEF InvalidateCache, WritePatch, WriteLines, WriteSnapshots
<1>5. ~WriteKind
  BY DEF WriteKind, TypeOK, ControlType, Publishes
<1>6. ~ForgetReview /\ ~WriteReview /\ ~RenumberLines
  BY DEF ForgetReview, WriteReview, RenumberLines
<1> QED BY <1>2, <1>3, <1>4, <1>5, <1>6 DEF Next

LEMMA ReviewPublishedStep ==
  TypeOK /\ Published /\ ReviewPublished /\ Selection /\ Next => ReviewPublished'
<1> SUFFICES ASSUME TypeOK, Published, ReviewPublished, Selection, Next PROVE ReviewPublished'
  OBVIOUS
<1>1. /\ ControlType /\ SelectedType /\ job \in Jobs /\ raced \in BOOLEAN
      /\ broken \in BOOLEAN /\ DiskType
  BY DEF TypeOK, ControlType, UserType
<1>2. CASE pc' \notin Publishes
  BY <1>2 DEF ReviewPublished
<1>3. CASE UserEdits
  BY <1>3 DEF UserEdits, selected, ReviewPublished
<1>4. CASE InvalidateCache \/ WritePatch \/ WriteLines \/ WriteSnapshots
  <2>1. /\ pc \in Publishes /\ pc' \in Publishes \ {"display"} /\ UNCHANGED <<job, review, broken>>
    BY <1>4 DEF InvalidateCache, WritePatch, WriteLines, WriteSnapshots, Publishing, luck, Publishes
  <2> QED BY <2>1 DEF ReviewPublished
<1>5. CASE WriteKind
  <2>1. /\ pc \in Publishes /\ UNCHANGED <<job, review, broken>>
        /\ pc' = "display" => job.then \notin {"next", "file"}
    BY <1>5 DEF WriteKind, Publishing, luck, Publishes
  <2> QED BY <2>1 DEF ReviewPublished
<1>6. CASE ForgetReview
  <2>1. /\ review' = None /\ job' = job /\ job.then \in {"next", "file"}
        /\ job.then = "file" => pc' = "review"
    BY <1>1, <1>6 DEF ForgetReview, Publishing, ControlType
  <2> QED BY <2>1 DEF ReviewPublished
<1>7. CASE WriteReview
  <2>1. job' = job /\ job.then \in {"file", "batch"}
    BY <1>1, <1>7 DEF WriteReview, Publishing, ControlType
  <2>3. CASE job.then = "file"
    <3>1. PICK shown \in SUBSET IdsOf(job.view) :
            \E entire \in {FALSE, shown = IdsOf(job.view)} :
            review' = [path |-> job.view.path, source |-> "live", shown |-> shown,
                       entire |-> entire, of |-> Fingerprint]
      BY <1>7, <2>3 DEF WriteReview
    <3>3. PICK entire \in {FALSE, shown = IdsOf(job.view)} :
            review' = [path |-> job.view.path, source |-> "live", shown |-> shown,
                       entire |-> entire, of |-> Fingerprint]
      BY <3>1
    <3>4. entire => shown = IdsOf(job.view)
      OBVIOUS
    <3>2. /\ review'.source = "live" /\ review'.path = job.view.path
          /\ review'.entire => review'.shown = IdsOf(job.view)
      BY <3>3, <3>4
    <3> QED BY <2>1, <2>3, <3>2 DEF ReviewPublished
  <2>4. CASE job.then = "batch"
    BY <2>1, <2>4 DEF ReviewPublished
  <2> QED BY <2>1, <2>3, <2>4
<1>8. CASE RenumberLines
  <2>1. /\ pc \in Publishes /\ UNCHANGED <<job, review, broken>> /\ job.then = "refile"
    BY <1>1, <1>8 DEF RenumberLines, Publishing, luck, Publishes, ControlType
  <2> QED BY <2>1 DEF ReviewPublished
<1>9. CASE ShowNext \/ ShowFile \/ ShowBatch
  <2>1. job'.then \in {"next", "file", "batch"} /\ pc' = "invalidate"
    <3>1. ASSUME NEW p, NEW old, NEW new, NEW then \in {"next", "file", "batch"},
                 Replace([NoJob EXCEPT !.verb = "show"], Rendered(p, old, new), then)
          PROVE  job'.then \in {"next", "file", "batch"} /\ pc' = "invalidate"
      BY <3>1 DEF Replace, NoJob
    <3> QED BY <1>9, <3>1 DEF ShowNext, ShowFile, ShowBatch
  <2> QED BY <2>1 DEF ReviewPublished
<1>10. CASE Refresh
  <2>1. pc = "refresh" /\ lines \in Views /\ lines.path \in Paths
    BY <1>1, <1>10, ViewType DEF Refresh, ControlType
  <2> DEFINE view == Rendered(lines.path, index[lines.path], work[lines.path])
             asked == [job EXCEPT !.was = lines]
  <2>2. view \in Views /\ view.path = lines.path
    BY <1>1, <2>1, RenderedType DEF Rendered
  <2>3. ~broken => /\ kind \in {"hunk", "file"} /\ job.path = lines.path
                   /\ job.partial <=> review # None /\ ~review.entire
                   /\ kind = "hunk" => review = None
                   /\ kind = "file" /\ review # None => review.source = "live" /\ review.path = lines.path
    BY <2>1 DEF Selection, Publishes
  <2>4. asked \in Jobs /\ asked.path = job.path /\ asked.partial = job.partial
    BY <1>1, <2>1, RefileJob
  <2> HIDE DEF view, asked
  <2>5. CASE Advance("next")
    <3>1. CASE Exit
      BY <1>2, <3>1 DEF Exit, Publishes
    <3>2. ASSUME NEW p, Replace(job, Rendered(p, index[p], work[p]), "next")
          PROVE  job'.then = "next" /\ pc' = "invalidate"
      BY <1>1, <3>2 DEF Replace, Jobs
    <3>3. CASE job'.then = "next" /\ pc' = "invalidate"
      BY <3>3 DEF ReviewPublished
    <3> QED BY <2>5, <3>1, <3>2, <3>3 DEF Advance
  <2>6. CASE Replace(asked, view, "refile") /\ kind = "file" /\ UNCHANGED <<selected, broken>>
    <3>1. /\ job'.then = "refile" /\ job'.view = view /\ job'.path = job.path
          /\ job'.partial = job.partial /\ pc' = "invalidate"
      BY <1>1, <2>2, <2>4, <2>6, ReplaceType
    <3>2. review' = review /\ broken' = broken
      BY <2>6 DEF selected
    <3> QED BY <2>2, <2>3, <2>6, <3>1, <3>2 DEF ReviewPublished
  <2>7. ASSUME NEW v \in Preserved(lines, view), Replace(job, v, "line"), kind # "file",
               UNCHANGED <<selected, broken>>
        PROVE  ReviewPublished'
    <3>1. job'.then = "line" /\ pc' = "invalidate"
      BY <1>1, <2>7 DEF Replace, Jobs
    <3>2. review' = review /\ broken' = broken
      BY <2>7 DEF selected
    <3> QED BY <2>3, <2>7, <3>1, <3>2 DEF ReviewPublished
  <2> QED BY <1>10, <2>5, <2>6, <2>7 DEF Refresh, view, asked
<1>11. CASE Finish
  <2>1. CASE Exit
    BY <1>2, <2>1 DEF Exit, Publishes
  <2>2. ASSUME NEW p, Replace(job, Rendered(p, index[p], work[p]), "advance")
        PROVE  job'.then = "advance" /\ pc' = "invalidate"
    BY <1>1, <2>2 DEF Replace, Jobs
  <2>3. CASE job'.then = "advance" /\ pc' = "invalidate" /\ review' = None
    BY <2>3 DEF ReviewPublished
  <2> QED BY <1>11, <2>1, <2>2, <2>3 DEF Finish, Advance, ClearSelection
<1>12. CASE \E verb \in {"include", "discard"} : BareAction(verb)
  <2>1. CASE pc' # "invalidate"
    <3>1. pc' \notin Publishes
      BY <1>12, <2>1 DEF BareAction, StaleSelectionIsCleared, Exit, Replace, Publishes
    <3> QED BY <1>2, <3>1
  <2>2. CASE pc' = "invalidate"
    <3>1. PICK verb \in {"include", "discard"} : BareAction(verb)
      BY <1>12
    <3> DEFINE first == [[NoJob EXCEPT !.verb = verb, !.guarded = review # None]
                           EXCEPT !.unasked = TRUE]
    <3>2. first \in Jobs
      BY BareJob
    <3> HIDE DEF first
    <3>3. /\ pc = "idle" /\ kind \notin {"batch", "file"} /\ broken' = broken
          /\ \E p : Replace(first, Rendered(p, index[p], work[p]), "act")
          /\ review' = ReviewAfterBareAction
      BY <2>2, <3>1 DEF BareAction, StaleSelectionIsCleared, Exit, Begins, first
    <3>4. job'.then = "act"
      BY <3>2, <3>3 DEF Replace, Jobs
    <3>5. ~broken => review = None
      BY <1>1, <3>3 DEF Selection, Publishes, SelectedType, Kinds
    <3>6. ~broken => review' = None
      BY <3>3, <3>5 DEF ReviewAfterBareAction
    <3> QED BY <2>2, <3>3, <3>4, <3>6 DEF ReviewPublished
  <2> QED BY <2>1, <2>2
<1> QED
  BY <1>2, <1>3, <1>4, <1>5, <1>6, <1>7, <1>8, <1>9, <1>10, <1>11, <1>12, OnlyPublishing,
     OnlyStarts DEF PublishNext

-----------------------------------------------------------------------------
(* What is selected.                                                         *)

LEMMA SelectionCleared ==
  ASSUME NEW because, ClearSelection(because),
         pc' \notin {"stage", "refresh"} \cup Acting
  PROVE  Selection'
BY DEF ClearSelection, Selection, Acting

LEMMA SelectionKept ==
  ASSUME Selection, UNCHANGED selected, ~broken' => ~broken /\ pc \notin Publishes,
         pc' \in {"idle", "finish"} \/ (pc' = pc /\ job' = job)
  PROVE  Selection'
BY DEF Selection, selected

LEMMA SelectionDisplayed ==
  TypeOK /\ Published /\ ReviewPublished /\ Display => Selection'
<1> SUFFICES ASSUME TypeOK, Published, ReviewPublished, Display, ~broken' PROVE Selection'
  BY DEF Selection
<1>1. /\ pc = "display" /\ pc' = "idle" /\ UNCHANGED <<patch, lines, snaps, kind>>
      /\ review' \in {review, None} /\ broken' = (broken /\ job.verb = "line")
  BY DEF Display, Exit
<1>2. /\ job.then \in {"next", "file", "batch", "line", "refile", "advance"}
      /\ job.then \in {"line", "refile"} => ~broken
  BY <1>1 DEF TypeOK, ControlType, Jobs, Publishes, UserType
<1>3. /\ lines \in Views /\ patch = Shape(lines) /\ kind = KindOf(job.then)
      /\ lines.path = job.view.path
      /\ job.then # "batch" => snaps \in Snapshots /\ snaps.path = lines.path
  BY <1>1 DEF Published, Publishes, Shape
<1>4. kind = "hunk" => job.then \in {"next", "line", "advance"}
  BY <1>2, <1>3 DEF KindOf
<1>5. kind = "hunk" => review = None
  BY <1>1, <1>2, <1>4 DEF ReviewPublished, Publishes
<1>6. kind = "file" => job.then \in {"file", "refile"}
  BY <1>2, <1>3 DEF KindOf
<1>7. kind = "file" /\ review # None => review.source = "live" /\ review.path = lines.path
  BY <1>1, <1>2, <1>3, <1>6 DEF ReviewPublished, Publishes
<1>8. kind # "none" /\ (kind \in {"hunk", "file"} => job.then # "batch")
  BY <1>2, <1>3 DEF KindOf
<1> QED BY <1>1, <1>3, <1>5, <1>7, <1>8 DEF Selection

LEMMA SelectionStep ==
  TypeOK /\ Published /\ ReviewPublished /\ Selection /\ Next => Selection'
<1> SUFFICES ASSUME TypeOK, Published, ReviewPublished, Selection, Next PROVE Selection'
  OBVIOUS
<1>1. /\ ControlType /\ SelectedType /\ job \in Jobs /\ raced \in BOOLEAN
      /\ broken \in BOOLEAN /\ DiskType
  BY DEF TypeOK, ControlType, UserType
<1>2. CASE pc' \in Publishes
  BY <1>2 DEF Selection
<1>3. CASE ShowNext \/ ShowFile \/ ShowBatch
  BY <1>2, <1>3 DEF ShowNext, ShowFile, ShowBatch, Replace, Publishes
<1>4. CASE ShowList
  BY <1>4, SelectionCleared DEF ShowList, Begins, Acting
<1>5. CASE PublishNext
  <2>1. CASE ~WriteKind
    BY <1>2, <1>5, <2>1
    DEF PublishNext, InvalidateCache, WritePatch, WriteLines, WriteSnapshots, ForgetReview,
        WriteReview, RenumberLines, Publishes
  <2>2. CASE WriteKind /\ pc' \notin Publishes
    <3>1. /\ job.then = "act" /\ pc = "kind" /\ kind' = "hunk" /\ pc' = job.verb
          /\ UNCHANGED <<patch, lines, snaps, review, broken>>
      BY <1>1, <2>2 DEF WriteKind, Publishing, luck, ControlType, Publishes, Jobs, KindOf
    <3>2. pc' \in {"include", "discard"}
      BY <1>1, <3>1 DEF ControlType, Publishes
    <3>3. /\ lines = job.view /\ lines \in Views /\ patch = Shape(lines)
          /\ snaps \in Snapshots /\ snaps.path = lines.path
      BY <1>1, <3>1 DEF Published, ControlType, Publishes
    <3>4. ~broken' => review' = None
      BY <3>1 DEF ReviewPublished, Publishes
    <3> QED BY <3>1, <3>2, <3>3, <3>4 DEF Selection
  <2> QED BY <1>2, <2>1, <2>2
<1>6. CASE Display
  BY <1>6, SelectionDisplayed
<1>7. CASE StaleSelectionIsCleared
  BY <1>7, SelectionCleared DEF StaleSelectionIsCleared, Exit, Acting
<1>8. CASE IncludeLines
  <2>1. CASE ~StaleSelectionIsCleared
    <3>1. /\ pc = "idle" /\ pc' = "stage" /\ kind # "batch" /\ patch # None /\ lines # None
          /\ UNCHANGED <<patch, lines, snaps, kind, review, broken>>
      BY <1>8, <2>1 DEF IncludeLines, Begins, HunkIsSelected, selected, luck
    <3> DEFINE partial == review # None /\ ~review.entire
    <3>2. PICK ids \in SUBSET IdsOf(lines) :
            job' = [NoJob EXCEPT !.verb = "line", !.ids = ids, !.path = lines.path,
                                 !.partial = partial]
      BY <1>8, <2>1 DEF IncludeLines
    <3>3. lines.path \in Paths /\ ids \in SUBSET Nat /\ partial \in BOOLEAN
      BY <1>1, <3>1, ViewType DEF SelectedType, Reviews
    <3> HIDE DEF partial
    <3>4. job'.path = lines.path /\ job'.partial = partial
      <4> HIDE <1>8, <2>1, <3>1
      <4> QED BY <3>2, <3>3, LineJob
    <3>5. ~broken => kind # "none"
      BY <3>1 DEF Selection, Publishes
    <3>6. kind \in Kinds
      BY <1>1 DEF SelectedType
    <3> QED BY <3>1, <3>4, <3>5, <3>6 DEF Selection, Publishes, Kinds, partial
  <2> QED BY <1>7, <2>1
<1>9. CASE StageLines
  <2>1. CASE Exit
    <3>1. /\ UNCHANGED selected /\ pc' \in {"idle", "finish"}
          /\ ~broken' => ~broken /\ pc \notin Publishes
      BY <1>9, <2>1 DEF StageLines, luck, Exit, Publishes
    <3> QED BY <3>1, SelectionKept
  <2>2. CASE ~Exit
    BY <1>9, <2>2 DEF StageLines, luck, selected, Selection, Publishes
  <2> QED BY <2>1, <2>2
<1>10. CASE \E then : Advance(then)
  <2>1. PICK then : Advance(then)
    BY <1>10
  <2>2. CASE Exit
    BY <2>1, <2>2, SelectionCleared DEF Advance, Exit, Acting, Replace
  <2>3. CASE ~Exit
    BY <1>2, <2>1, <2>3 DEF Advance, Replace, Publishes
  <2> QED BY <2>2, <2>3
<1>11. CASE Refresh
  BY <1>2, <1>10, <1>11 DEF Refresh, Replace, Publishes
<1>12. CASE \E verb \in {"include", "discard"} : BareAction(verb)
  <2>1. PICK verb \in {"include", "discard"} : BareAction(verb)
    BY <1>12
  <2>2. CASE ~StaleSelectionIsCleared /\ pc' \notin Publishes
    <3>1. /\ pc = "idle" /\ kind # "batch" /\ UNCHANGED <<patch, lines, snaps, kind, broken>>
          /\ review' \in {review, None}
          /\ \/ pc' = "stage file" /\ kind = "file"
             \/ pc' = verb /\ kind # "file" /\ patch # None
      BY <2>1, <2>2 DEF BareAction, Begins, Replace, Publishes, luck, ReviewAfterBareAction
    <3>2. ~broken => kind # "none" \/ patch = None
      BY <3>1 DEF Selection, Publishes
    <3>3. kind \in Kinds
      BY <1>1 DEF SelectedType
    <3> QED BY <3>1, <3>2, <3>3 DEF Selection, Publishes, Kinds
  <2> QED BY <1>2, <1>7, <2>2
<1>13. CASE StageHunk \/ DiscardHunk \/ StageFile
  <2>1. /\ UNCHANGED selected /\ pc' \in {"idle", "finish"}
        /\ ~broken' => ~broken /\ pc \notin Publishes
    BY <1>1, <1>13 DEF StageHunk, DiscardHunk, StageFile, Fails, Exit, Publishes, luck
  <2> QED BY <2>1, SelectionKept
<1>14. CASE Finish
  BY <1>10, <1>14 DEF Finish
<1>15. CASE UserEdits \/ UserStages
  <2>1. CASE pc' \notin Publishes
    <3>1. /\ UNCHANGED selected /\ pc' = pc /\ job' = job
          /\ ~broken' => ~broken /\ pc \notin Publishes
      BY <1>15, <2>1 DEF UserEdits, UserStages
    <3> QED BY <3>1, SelectionKept
  <2> QED BY <1>2, <2>1
<1>16. CASE Dies
  <2>1. /\ UNCHANGED selected /\ pc' \in {"idle", "finish"}
        /\ ~broken' => ~broken /\ pc \notin Publishes
    BY <1>16 DEF Dies, Exit
  <2> QED BY <2>1, SelectionKept
<1> QED
  BY <1>3, <1>4, <1>5, <1>6, <1>8, <1>9, <1>11, <1>12, <1>13, <1>14, <1>15, <1>16
  DEF Next, PublishNext

LEMMA TellingStep == TypeOK /\ Telling /\ Next => Telling'
<1> SUFFICES ASSUME TypeOK, Telling, Next, told', ~broken' PROVE Telling'
  BY DEF Telling
<1>1. ControlType /\ job \in Jobs /\ broken \in BOOLEAN
  BY DEF TypeOK, ControlType, UserType
<1>2. CASE ShowList
  BY <1>2 DEF ShowList, Begins, ClearSelection, ToldToChoose, Telling
<1>3. CASE Display
  BY <1>3 DEF Display
<1>5. CASE \E then : Advance(then) /\ (Refresh \/ Finish)
  <2>1. PICK then : Advance(then)
    BY <1>5
  <2>2. ~(told /\ ~broken)
    BY <1>5 DEF Telling, Refresh, Finish, Publishes
  <2>3. CASE told' = told /\ broken' = broken
    BY <2>2, <2>3
  <2>4. CASE ClearSelection("advance") /\ Exit
    BY <2>4 DEF ClearSelection, Exit, ToldToChoose, Telling
  <2> QED BY <2>1, <2>3, <2>4 DEF Advance, user, luck
<1>6. CASE told' = told /\ (~broken' => ~broken)
  <2>1. told /\ ~broken
    BY <1>6
  <2>2. CASE pc = "idle" /\ ToldToChoose
    <3>1. CASE ShowNext \/ ShowFile \/ ShowBatch
      <4>1. pc' = "invalidate" /\ job'.verb = "show"
        BY <3>1 DEF ShowNext, ShowFile, ShowBatch, Replace, NoJob
      <4> QED BY <4>1 DEF Telling, Publishes
    <3>2. CASE UserEdits \/ UserStages
      BY <2>2, <3>2 DEF UserEdits, UserStages, selected, ToldToChoose, Telling
    <3>3. ~IncludeLines /\ ~\E verb \in {"include", "discard"} : BareAction(verb)
      BY <2>2 DEF IncludeLines, BareAction
    <3>4. ~PublishNext /\ ~StageLines /\ ~Refresh /\ ~StageHunk /\ ~DiscardHunk /\ ~StageFile
          /\ ~Finish /\ ~Dies
      BY <2>2
      DEF PublishNext, InvalidateCache, WritePatch, WriteLines, WriteSnapshots, WriteKind,
          ForgetReview, WriteReview, RenumberLines, StageLines, Refresh, StageHunk, DiscardHunk,
          StageFile, Finish, Dies
    <3> QED BY <1>2, <1>3, <3>1, <3>2, <3>3, <3>4 DEF Next, PublishNext
  <2>3. CASE pc \in Publishes /\ job.verb = "show"
    <3>1. CASE PublishNext
      <4>1. job' = job
        BY <3>1
        DEF PublishNext, InvalidateCache, WritePatch, WriteLines, WriteSnapshots, WriteKind,
            ForgetReview, WriteReview, RenumberLines, Publishing
      <4>2. CASE WriteKind
        <5>1. job.then \notin {"act", "exit"}
          BY <1>1, <2>3 DEF ControlType
        <5>2. pc' \in Publishes
          BY <4>2, <5>1 DEF WriteKind, Publishes
        <5> QED BY <2>3, <4>1, <5>2 DEF Telling
      <4>3. CASE ~WriteKind
        <5>1. pc' \in Publishes
          BY <3>1, <4>3
          DEF PublishNext, InvalidateCache, WritePatch, WriteLines, WriteSnapshots,
              ForgetReview, WriteReview, RenumberLines, Publishes
        <5> QED BY <2>3, <4>1, <5>1 DEF Telling
      <4> QED BY <4>2, <4>3
    <3>2. CASE UserEdits
      BY <2>3, <3>2 DEF UserEdits, Telling
    <3>3. ~Dies
      BY <2>3 DEF Dies
    <3>4. /\ ~ShowNext /\ ~ShowFile /\ ~ShowBatch /\ ~IncludeLines /\ ~UserStages
          /\ ~\E verb \in {"include", "discard"} : BareAction(verb)
      BY <2>3 DEF ShowNext, ShowFile, ShowBatch, IncludeLines, BareAction, UserStages, Begins, Publishes
    <3>5. ~StageLines /\ ~Refresh /\ ~StageHunk /\ ~DiscardHunk /\ ~StageFile /\ ~Finish
      BY <2>3 DEF StageLines, Refresh, StageHunk, DiscardHunk, StageFile, Finish, Publishes
    <3> QED BY <1>2, <1>3, <3>1, <3>2, <3>3, <3>4, <3>5 DEF Next, PublishNext
  <2> QED BY <2>1, <2>2, <2>3 DEF Telling
<1>7. CASE PublishNext
  BY <1>6, <1>7
  DEF PublishNext, InvalidateCache, WritePatch, WriteLines, WriteSnapshots, WriteKind,
      ForgetReview, WriteReview, RenumberLines, Publishing, user, luck
<1>8. CASE ShowNext \/ ShowFile \/ ShowBatch \/ IncludeLines
  BY <1>6, <1>8 DEF ShowNext, ShowFile, ShowBatch, IncludeLines, StaleSelectionIsCleared, user, luck
<1>9. CASE \E verb \in {"include", "discard"} : BareAction(verb)
  <2>1. told' = told /\ broken' = broken
    BY <1>9 DEF BareAction, StaleSelectionIsCleared, user, luck
  <2> QED BY <1>6, <2>1
<1>10. CASE (Refresh \/ Finish) /\ ~\E then : Advance(then)
  <2>1. ~Finish
    BY <1>10 DEF Finish
  <2>2. UNCHANGED user /\ broken' = broken
    BY <1>10, <2>1 DEF Refresh
  <2> QED BY <1>6, <2>2 DEF user
<1>11. CASE StageLines \/ StageHunk \/ DiscardHunk \/ StageFile \/ UserEdits \/ UserStages \/ Dies
  <2>1. UNCHANGED user
    BY <1>11 DEF StageLines, StageHunk, DiscardHunk, StageFile, UserEdits, UserStages, Dies
  <2>2. ~broken' => ~broken
    BY <1>1, <1>11
    DEF StageLines, StageHunk, DiscardHunk, StageFile, UserEdits, UserStages, Dies, Fails, luck
  <2> QED BY <1>6, <2>1, <2>2 DEF user
<1> QED
  BY <1>2, <1>3, <1>5, <1>7, <1>8, <1>9, <1>10, <1>11 DEF Next, PublishNext

\* What the user has seen stays as it is until it is replaced.
LEMMA SeenStep ==
  ASSUME TypeOK, Selection, Next, Seen', ~Display
  PROVE  Seen /\ UNCHANGED <<patch, lines, snaps, kind, review, screen, known>>
<1>1. /\ ControlType /\ SelectedType /\ job \in Jobs /\ raced \in BOOLEAN
      /\ broken \in BOOLEAN
  BY DEF TypeOK, ControlType, UserType
<1>2. pc' \notin Publishes /\ kind' \in {"hunk", "file"} /\ ~raced' /\ ~broken' /\ ~job'.unasked
  BY DEF Seen, Clean
<1>3. \A because : ~ClearSelection(because)
  BY <1>2 DEF ClearSelection
<1>4. \A asked, view, then : ~Replace(asked, view, then)
  BY <1>2 DEF Replace, Publishes
<1>5. ~NoJob.unasked
  BY DEF NoJob
<1>6. ~ShowNext /\ ~ShowFile /\ ~ShowBatch /\ ~ShowList /\ ~Refresh /\ ~Finish
  BY <1>3, <1>4 DEF ShowNext, ShowFile, ShowBatch, ShowList, Refresh, Finish, Advance
<1>7. CASE PublishNext
  <2>1. CASE ~WriteKind
    BY <1>2, <1>7, <2>1
    DEF PublishNext, InvalidateCache, WritePatch, WriteLines, WriteSnapshots, ForgetReview,
        WriteReview, RenumberLines, Publishes
  <2>2. CASE WriteKind
    <3>1. job' = job /\ job.then # "act"
      BY <1>1, <1>2, <2>2 DEF WriteKind, Publishing, ControlType, Publishes
    <3>2. pc' \in Publishes
      BY <1>1, <2>2, <3>1 DEF WriteKind, ControlType, Publishes
    <3> QED BY <1>2, <3>2
  <2> QED BY <2>1, <2>2
<1>8. CASE IncludeLines
  <2>1. /\ pc = "idle" /\ job = NoJob /\ UNCHANGED selected /\ UNCHANGED <<screen, known, raced, broken>>
    BY <1>1, <1>3, <1>8
    DEF IncludeLines, StaleSelectionIsCleared, Begins, ControlType, user, luck
  <2> QED BY <1>2, <1>5, <2>1 DEF Seen, Clean, Publishes, selected
<1>9. CASE \E verb \in {"include", "discard"} : BareAction(verb)
  <2>1. /\ pc = "idle" /\ job = NoJob /\ UNCHANGED <<patch, lines, snaps, kind>>
        /\ review' = ReviewAfterBareAction /\ UNCHANGED <<screen, known, raced, broken>>
    BY <1>1, <1>3, <1>4, <1>9
    DEF BareAction, StaleSelectionIsCleared, Begins, ControlType, user, luck
  <2>2. kind = "hunk" => review = None
    BY <1>2, <2>1 DEF Selection, Publishes
  <2>3. kind = "file" /\ review # None => review.source = "live"
    BY <1>2, <2>1 DEF Selection, Publishes
  <2>4. review' = review
    BY <1>2, <2>1, <2>2, <2>3 DEF ReviewAfterBareAction, KindFitsReview
  <2> QED BY <1>2, <1>5, <2>1, <2>4 DEF Seen, Clean, Publishes
<1>10. CASE StageLines
  <2>1. /\ pc = "stage" /\ UNCHANGED <<selected, user, raced, broken>>
    BY <1>10 DEF StageLines, luck
  <2> QED BY <1>1, <1>2, <2>1 DEF Seen, Clean, Publishes, selected, user, ControlType
<1>11. CASE StageHunk \/ DiscardHunk
  <2>1. /\ pc \in {"include", "discard"} /\ UNCHANGED <<selected, user, raced>>
    BY <1>11 DEF StageHunk, DiscardHunk
  <2>2. ~broken /\ ~job.unasked
    <3>1. \/ job' = job /\ broken' = broken
          \/ broken' <=> broken \/ job.unasked
      BY <1>11 DEF StageHunk, DiscardHunk, Fails
    <3> QED BY <1>2, <3>1
  <2> QED BY <1>2, <2>1, <2>2 DEF Seen, Clean, Publishes, selected, user
<1>12. CASE StageFile
  <2>1. /\ pc = "stage file" /\ UNCHANGED <<selected, user, raced, broken>>
    BY <1>12 DEF StageFile, luck
  <2> QED BY <1>1, <1>2, <2>1 DEF Seen, Clean, Publishes, selected, user, ControlType
<1>13. CASE UserEdits \/ UserStages
  <2>1. /\ UNCHANGED <<selected, user, pc, job, broken>> /\ (~raced' => ~raced)
    BY <1>13 DEF UserEdits, UserStages, Notice
  <2> QED BY <1>2, <2>1 DEF Seen, Clean, selected, user
<1>14. CASE Dies
  <2>1. /\ UNCHANGED <<selected, user, raced>> /\ broken' = (broken \/ job.unasked \/ pc \in Publishes)
    BY <1>14 DEF Dies
  <2> QED BY <1>1, <1>2, <2>1 DEF Seen, Clean, selected, user
<1> QED BY <1>6, <1>7, <1>8, <1>9, <1>10, <1>11, <1>12, <1>13, <1>14 DEF Next, PublishNext

-----------------------------------------------------------------------------
(* A view is true of its file.                                               *)

LEMMA RenderedCovers ==
  ASSUME DiskType, NEW p \in Paths, NEW v
  PROVE  /\ Shape(v) = Shape(Rendered(p, index[p], work[p])) => CoversFile(v)
         /\ Shape(v) = Shape(Rendered(p, Head, work[p])) => CoversFile(v)
<1>1. index[p] \in Content /\ work[p] \in Content /\ Head \in Content
  BY DEF DiskType, Content, Head
<1>2. ASSUME NEW old \in {index[p], Head}, Shape(v) = Shape(Rendered(p, old, work[p]))
      PROVE  CoversFile(v)
  <2>1. v.path = p /\ v.old = old /\ v.new = work[p]
    BY <1>2 DEF Shape, Rendered
  <2>2. \A s \in Slots : old[s] = work[p][s] => work[p][s] \in {index[p][s], Old}
    BY <1>2 DEF Head
  <2> QED BY <2>1, <2>2 DEF CoversFile, Covers
<1> QED BY <1>2

LEMMA CoversShape ==
  ASSUME NEW v, NEW w, Shape(v) = Shape(w), NEW old, NEW new
  PROVE  v.path = w.path /\ (Covers(v, old, new) <=> Covers(w, old, new))
BY DEF Shape, Covers

LEMMA ViewStarts ==
  ASSUME TypeOK, Next, pc' = "invalidate", ~UserEdits, job'.then # "batch"
  PROVE  CoversFile(job'.view) /\ UNCHANGED disk
<1>1. /\ ControlType /\ SelectedType /\ job \in Jobs /\ raced \in BOOLEAN /\ DiskType
  BY DEF TypeOK, ControlType, UserType
<1>2. ASSUME NEW asked \in Jobs, NEW view, NEW then, Replace(asked, view, then)
      PROVE  job'.view = view /\ job'.then = then
  BY <1>2 DEF Replace, Jobs
<1>3. CASE ShowNext
  <2>1. PICK p \in Paths :
          Replace([NoJob EXCEPT !.verb = "show"], Rendered(p, index[p], work[p]), "next")
    BY <1>3 DEF ShowNext, Unstaged
  <2>2. job'.view = Rendered(p, index[p], work[p])
    BY <1>2, <2>1, ShowJob
  <2> QED BY <1>1, <1>3, <2>2, RenderedCovers DEF ShowNext
<1>4. CASE ShowFile
  <2>1. PICK p \in Paths :
          Replace([NoJob EXCEPT !.verb = "show"], Rendered(p, Head, work[p]), "file")
    BY <1>4 DEF ShowFile
  <2>2. job'.view = Rendered(p, Head, work[p])
    BY <1>2, <2>1, ShowJob
  <2> QED BY <1>1, <1>4, <2>2, RenderedCovers DEF ShowFile
<1>5. ~ShowBatch
  <2>1. ASSUME NEW p \in Paths, NEW t \in Texts,
               Replace([NoJob EXCEPT !.verb = "show"], Rendered(p, Head, [s \in Slots |-> t]), "batch")
        PROVE  FALSE
    BY <1>2, <2>1, ShowJob
  <2> QED BY <2>1 DEF ShowBatch
<1>6. ASSUME NEW p \in Unstaged, NEW asked \in Jobs, NEW then,
             Replace(asked, Rendered(p, index[p], work[p]), then)
      PROVE  CoversFile(job'.view)
  <2>1. p \in Paths
    BY DEF Unstaged
  <2> QED BY <1>1, <1>2, <1>6, <2>1, RenderedCovers
<1>7. ASSUME NEW then, Advance(then) PROVE CoversFile(job'.view)
  BY <1>1, <1>6, <1>7 DEF Advance, Exit
<1>8. CASE Finish
  BY <1>7, <1>8 DEF Finish
<1>9. CASE Refresh
  <2>1. pc = "refresh" /\ lines \in Views /\ lines.path \in Paths
    BY <1>1, <1>9, ViewType DEF Refresh, ControlType
  <2> DEFINE view == Rendered(lines.path, index[lines.path], work[lines.path])
             asked == [job EXCEPT !.was = lines]
  <2>2. view \in Views
    BY <1>1, <2>1, RenderedType
  <2>3. asked \in Jobs
    BY <1>1, <2>1, RefileJob
  <2>4. \A v : Shape(v) = Shape(view) => CoversFile(v)
    BY <1>1, <2>1, RenderedCovers
  <2> HIDE DEF view, asked
  <2>5. CASE Replace(asked, view, "refile")
    <3>1. job'.view = view
      BY <1>2, <2>3, <2>5
    <3>2. CoversFile(view)
      BY <2>4
    <3> QED BY <1>9, <3>1, <3>2 DEF Refresh
  <2>6. ASSUME NEW v \in Preserved(lines, view), Replace(job, v, "line")
        PROVE  CoversFile(job'.view)
    <3>1. Shape(v) = Shape(view)
      BY <2>1, <2>2, PreservedIsView
    <3> QED BY <1>1, <1>2, <2>4, <2>6, <3>1
  <2> QED BY <1>7, <1>9, <2>5, <2>6 DEF Refresh, view, asked
<1>10. CASE \E verb \in {"include", "discard"} : BareAction(verb)
  <2>1. PICK verb \in {"include", "discard"} : BareAction(verb)
    BY <1>10
  <2> DEFINE first == [[NoJob EXCEPT !.verb = verb, !.guarded = review # None]
                         EXCEPT !.unasked = TRUE]
  <2>2. first \in Jobs
    BY BareJob
  <2> HIDE DEF first
  <2>3. /\ \E p \in Unstaged : Replace(first, Rendered(p, index[p], work[p]), "act")
        /\ UNCHANGED disk
    BY <2>1 DEF BareAction, StaleSelectionIsCleared, Exit, first
  <2> QED BY <1>6, <2>2, <2>3
<1> QED BY <1>3, <1>4, <1>5, <1>8, <1>9, <1>10, OnlyStarts

LEMMA ViewIsTrueStep == TypeOK /\ Published /\ ViewIsTrue /\ Next => ViewIsTrue'
<1> SUFFICES ASSUME TypeOK, Published, ViewIsTrue, Next,
                    pc' \in Publishes, job'.then # "batch", ~raced'
             PROVE  /\ pc' \in Rendering \/ ~aged' =>
                         Covers(job'.view, index'[job'.view.path], work'[job'.view.path])
                    /\ pc' \notin Rendering => Covers(job'.view, snaps'.index, snaps'.work)
  BY DEF ViewIsTrue, CoversFile, Covers
<1>1. /\ ControlType /\ SelectedType /\ job \in Jobs /\ raced \in BOOLEAN
      /\ aged \in BOOLEAN /\ DiskType
  BY DEF TypeOK, ControlType, UserType
<1>2. CASE pc' = "invalidate" /\ ~UserEdits
  BY <1>2, ViewStarts DEF disk, CoversFile, Rendering
<1>3. CASE InvalidateCache \/ WritePatch \/ WriteLines
  <2>1. /\ pc \in Publishes \cap Rendering /\ pc' \in Publishes \cap Rendering
        /\ UNCHANGED <<work, index, job, raced>>
    BY <1>3 DEF InvalidateCache, WritePatch, WriteLines, Publishing, disk, luck, Publishes, Rendering
  <2> QED BY <2>1 DEF ViewIsTrue, CoversFile
<1>4. CASE WriteSnapshots
  <2>1. /\ pc \in Publishes \cap Rendering /\ pc' \notin Rendering
        /\ UNCHANGED <<work, index, job, raced>>
    BY <1>4 DEF WriteSnapshots, disk, Publishes, Rendering
  <2>2. Covers(job.view, index[job.view.path], work[job.view.path])
    BY <2>1 DEF ViewIsTrue, CoversFile
  <2>3. snaps' = [path |-> job.view.path, index |-> index[job.view.path], work |-> work[job.view.path]]
    BY <1>4, <2>1 DEF WriteSnapshots
  <2> QED BY <2>1, <2>2, <2>3
<1>5. CASE WriteKind \/ ForgetReview \/ WriteReview \/ RenumberLines
  <2>1. /\ pc \in Publishes \ Rendering /\ pc' \notin Rendering
        /\ UNCHANGED <<work, index, job, raced, aged, snaps>>
    BY <1>1, <1>5
    DEF WriteKind, ForgetReview, WriteReview, RenumberLines, Publishing, disk, luck, Publishes,
        Rendering, ControlType
  <2> QED BY <2>1 DEF ViewIsTrue, CoversFile
<1>6. CASE UserEdits
  <2>1. /\ pc \in Publishes /\ pc' = pc /\ UNCHANGED <<index, snaps, lines, patch, job>>
        /\ job.view \in Views /\ job.view.path \in Paths
    BY <1>1, <1>6, ViewType DEF UserEdits, selected, ControlType
  <2>2. PICK p \in Paths, s \in Slots, t \in Texts \cup {Old} :
          work' = [work EXCEPT ![p][s] = t] /\ Notice(p)
    BY <1>6 DEF UserEdits
  <2>3. ~raced /\ (pc \in Rendering => p # job.view.path)
    BY <1>1, <2>1, <2>2 DEF Notice
  <2>4. p # job.view.path => work'[job.view.path] = work[job.view.path]
    BY <1>1, <2>1, <2>2 DEF DiskType
  <2>5. pc \notin Rendering => PathOf(lines) = job.view.path
    <3>1. ASSUME pc \notin Rendering PROVE lines \in Views /\ Shape(lines) = Shape(job.view)
      BY <2>1, <3>1 DEF Published, Publishes, Rendering
    <3>2. ASSUME pc \notin Rendering PROVE lines # None /\ lines.path = job.view.path
      BY <3>1, <3>2, NoneIsNoView, CoversShape
    <3> QED BY <3>2 DEF PathOf
  <2>6. pc \notin Rendering /\ ~aged' => ~aged /\ p # job.view.path
    BY <1>1, <2>2, <2>5 DEF Notice
  <2> QED BY <2>1, <2>3, <2>4, <2>6 DEF ViewIsTrue, CoversFile
<1> QED BY <1>2, <1>3, <1>4, <1>5, <1>6, OnlyPublishing DEF PublishNext

LEMMA SelectionIsTrueStep ==
  TypeOK /\ Published /\ Selection /\ ViewIsTrue /\ SelectionIsTrue /\ Next => SelectionIsTrue'
<1> SUFFICES ASSUME TypeOK, Published, Selection, ViewIsTrue, SelectionIsTrue, Next, Seen'
             PROVE  /\ Covers(lines', snaps'.index, snaps'.work)
                    /\ kind' = "file" /\ ~aged' =>
                         Covers(lines', index'[lines'.path], work'[lines'.path])
  BY DEF SelectionIsTrue, CoversFile
<1>1. /\ ControlType /\ SelectedType /\ job \in Jobs /\ raced \in BOOLEAN
      /\ aged \in BOOLEAN /\ DiskType
  BY DEF TypeOK, ControlType, UserType
<1>2. CASE Display
  <2>1. /\ pc = "display" /\ UNCHANGED <<work, index, lines, snaps, kind, raced, aged>>
    BY <1>2 DEF Display, disk
  <2>2. ~raced /\ kind \in {"hunk", "file"}
    BY <2>1 DEF Seen, Clean
  <2>3. job.then # "batch" /\ Shape(lines) = Shape(job.view)
    BY <2>1, <2>2 DEF Published, Publishes, KindOf
  <2>4. /\ ~aged => CoversFile(job.view)
        /\ Covers(job.view, snaps.index, snaps.work)
    BY <2>1, <2>2, <2>3 DEF ViewIsTrue, Publishes, Rendering
  <2>5. /\ lines.path = job.view.path
        /\ \A old, new : Covers(lines, old, new) <=> Covers(job.view, old, new)
    BY <2>3, CoversShape
  <2> QED BY <2>1, <2>4, <2>5 DEF CoversFile
<1>3. CASE ~Display
  <2>1. Seen /\ UNCHANGED <<patch, lines, snaps, kind, review, screen, known>>
    BY <1>3, SeenStep
  <2>2. /\ Covers(lines, snaps.index, snaps.work)
        /\ kind = "file" /\ ~aged => CoversFile(lines)
    BY <2>1 DEF SelectionIsTrue
  <2>3. lines \in Views /\ lines # None /\ patch = Shape(lines) /\ lines.path \in Paths
    BY <2>1, NoneIsNoView, ViewType DEF Seen, Clean, Selection
  <2>4. SUFFICES ASSUME kind = "file", ~aged'
                 PROVE  Covers(lines, index'[lines.path], work'[lines.path])
    BY <2>1, <2>2
  <2>5. CASE UNCHANGED <<work, index, aged>>
    BY <2>2, <2>4, <2>5 DEF CoversFile
  <2>6. CASE UserEdits
    <3>1. PICK p \in Paths, s \in Slots, t \in Texts \cup {Old} :
            work' = [work EXCEPT ![p][s] = t] /\ Notice(p)
      BY <2>6 DEF UserEdits
    <3>2. ~aged /\ p # lines.path
      BY <1>1, <2>1, <2>3, <2>4, <3>1 DEF Notice, PathOf, Seen, Rendering, Publishes
    <3>3. work'[lines.path] = work[lines.path] /\ index' = index
      BY <1>1, <2>3, <2>6, <3>1, <3>2 DEF DiskType, UserEdits
    <3> QED BY <2>2, <2>4, <3>2, <3>3 DEF CoversFile
  <2>7. CASE UserStages
    <3>1. PICK p \in Paths : index' = [index EXCEPT ![p] = work[p]] /\ Notice(p)
      BY <2>7 DEF UserStages, Unstaged
    <3>2. ~aged /\ p # lines.path
      BY <1>1, <2>1, <2>3, <2>4, <3>1 DEF Notice, PathOf, Seen, Rendering, Publishes
    <3>3. index'[lines.path] = index[lines.path] /\ work' = work
      BY <1>1, <2>3, <2>7, <3>1, <3>2 DEF DiskType, UserStages
    <3> QED BY <2>2, <2>4, <3>2, <3>3 DEF CoversFile
  <2>8. CASE StageLines
    <3>1. CASE UNCHANGED index
      BY <2>5, <2>8, <3>1 DEF StageLines, luck
    <3>2. CASE ~UNCHANGED index
      <4> DEFINE p == lines.path
                 chosen == {s \in DOMAIN lines.ids : lines.ids[s] \in job.ids}
                 c == [s \in Slots |-> IF s \in chosen THEN work[p][s] ELSE index[p][s]]
      <4>1. index' = [index EXCEPT ![p] = c] /\ UNCHANGED <<work, aged>>
        BY <2>8, <3>2 DEF StageLines, luck
      <4>2. index'[p] = c
        BY <1>1, <2>3, <4>1 DEF DiskType
      <4>3. CoversFile(lines) /\ work' = work
        BY <2>2, <2>4, <4>1
      <4>4. \A s \in Slots : lines.old[s] = lines.new[s] => s \notin chosen
        BY <2>3, ViewType
      <4>5. \A s \in Slots : lines.old[s] = lines.new[s] => c[s] = index[p][s]
        BY <4>4
      <4> HIDE DEF chosen, c
      <4> QED BY <4>2, <4>3, <4>5 DEF CoversFile, Covers
    <3> QED BY <3>1, <3>2
  <2>9. ~StageHunk /\ ~DiscardHunk
    BY <2>1, <2>4 DEF Seen, Clean, Selection, StageHunk, DiscardHunk
  <2>10. CASE StageFile
    <3>1. CASE UNCHANGED index
      BY <2>5, <2>10, <3>1 DEF StageFile, luck
    <3>2. CASE ~UNCHANGED index
      <4>1. index' = [index EXCEPT ![lines.path] = work[lines.path]] /\ UNCHANGED <<work, aged>>
        BY <2>3, <2>10, <3>2 DEF StageFile, luck, Shape
      <4>2. index'[lines.path] = work[lines.path]
        BY <1>1, <2>3, <4>1 DEF DiskType
      <4>3. lines.new = work[lines.path]
        BY <2>2, <2>4, <4>1 DEF CoversFile, Covers
      <4> QED BY <4>1, <4>2, <4>3 DEF Covers
    <3> QED BY <3>1, <3>2
  <2>11. CASE PublishNext \/ ShowNext \/ ShowFile \/ ShowBatch \/ ShowList
    <3>1. pc' \notin Publishes /\ kind' # "none"
      BY DEF Seen
    <3>2. ~ShowNext /\ ~ShowFile /\ ~ShowBatch /\ ~ShowList
      BY <3>1 DEF ShowNext, ShowFile, ShowBatch, ShowList, Replace, ClearSelection, Publishes
    <3>3. pc \in Publishes
      BY <2>11, <3>2
      DEF PublishNext, InvalidateCache, WritePatch, WriteLines, WriteSnapshots, WriteKind,
          ForgetReview, WriteReview, RenumberLines, Publishes
    <3> QED BY <2>1, <3>3 DEF Seen
  <2>12. CASE IncludeLines \/ Dies
    BY <2>5, <2>12 DEF IncludeLines, StaleSelectionIsCleared, Dies, disk, luck
  <2>13. CASE \E verb \in {"include", "discard"} : BareAction(verb)
    BY <2>5, <2>13 DEF BareAction, StaleSelectionIsCleared, disk, luck
  <2>14. ~Refresh /\ ~Finish
    <3>1. pc' \notin Publishes /\ kind' # "none"
      BY DEF Seen
    <3> QED BY <3>1 DEF Refresh, Finish, Advance, Replace, ClearSelection, Publishes
  <2> QED
    BY <1>3, <2>6, <2>7, <2>8, <2>9, <2>10, <2>11, <2>12, <2>13, <2>14 DEF Next, PublishNext
<1> QED BY <1>2, <1>3

-----------------------------------------------------------------------------
(* What the user has seen, and what the IDs mean.                            *)

LEMMA DisplayedStep ==
  TypeOK /\ Published /\ ReviewPublished /\ Selection /\ Displayed /\ Next => Displayed'
<1> SUFFICES ASSUME TypeOK, Published, ReviewPublished, Selection, Displayed, Next, Seen'
             PROVE  /\ screen'.path = lines'.path /\ screen'.rows \subseteq Rows(lines')
                    /\ \A r \in Rows(lines') :
                         review' = None \/ review'.entire \/ r[1] \in review'.shown =>
                           r \in screen'.rows
  BY DEF Displayed, Rows
<1>1. CASE Display
  <2>1. /\ pc = "display" /\ UNCHANGED <<lines, kind>> /\ kind \in {"hunk", "file"}
        /\ job.verb = "show" => review' = review
    BY <1>1 DEF Display, Seen
  <2>2. kind # "batch"
    BY <2>1
  <2>3. CASE job.verb = "show" /\ review # None
    <3>1. screen' = [path |-> lines.path, rows |-> {r \in Rows(lines) : r[1] \in review.shown}]
      BY <1>1, <2>2, <2>3 DEF Display
    <3>2. job.then = "file" /\ lines = job.view
      <4>1. job.then \in {"next", "file", "batch", "line", "refile", "advance"}
        BY <2>1 DEF TypeOK, ControlType, Jobs, Publishes
      <4>2. job.then \notin {"line", "refile", "advance"}
        BY <2>1, <2>3 DEF TypeOK, ControlType, Publishes
      <4>3. job.then # "batch"
        BY <2>1 DEF Published, KindOf
      <4>4. job.then # "next"
        BY <2>1, <2>3 DEF ReviewPublished, Publishes
      <4> QED BY <2>1, <4>1, <4>2, <4>3, <4>4 DEF Published
    <3>3. review.entire => review.shown = IdsOf(lines)
      BY <2>1, <2>3, <3>2 DEF ReviewPublished, Publishes
    <3>4. \A r \in Rows(lines) : r[1] \in IdsOf(lines)
      BY DEF Rows, IdsOf
    <3> QED BY <2>1, <2>3, <3>1, <3>3, <3>4
  <2>4. CASE ~(job.verb = "show" /\ review # None)
    <3>1. screen' = [path |-> lines.path, rows |-> Rows(lines)]
      BY <1>1, <2>2, <2>4 DEF Display
    <3> QED BY <2>1, <3>1
  <2> QED BY <2>3, <2>4
<1>2. CASE ~Display
  <2>1. Seen /\ UNCHANGED <<patch, lines, snaps, kind, review, screen, known>>
    BY <1>2, SeenStep
  <2> QED BY <2>1 DEF Displayed
<1> QED BY <1>1, <1>2

\* Nothing is acted on that was edited since it was compared.
LEMMA FreshFile ==
  ASSUME NEW p, ~SnapshotsAreStale(p)
  PROVE  snaps.path = p /\ snaps.index = index[p] /\ snaps.work = work[p]
BY DEF SnapshotsAreStale

LEMMA GuardedStep ==
  /\ TypeOK /\ Published /\ Selection /\ SelectionIsTrue /\ Displayed /\ Guarded /\ Next
  => Guarded'
<1> SUFFICES ASSUME TypeOK, Published, Selection, SelectionIsTrue, Displayed, Guarded, Next,
                    Clean', pc' \in {"stage", "stage file"}
             PROVE  Guarded'
  BY DEF Guarded
<1>1. /\ ControlType /\ SelectedType /\ job \in Jobs /\ raced \in BOOLEAN
      /\ aged \in BOOLEAN /\ DiskType
  BY DEF TypeOK, ControlType, UserType
<1>2. CASE IncludeLines
  <2>1. /\ pc = "idle" /\ pc' = "stage" /\ kind # "batch" /\ patch # None /\ lines # None
        /\ ~SelectionIsStale /\ UNCHANGED <<work, lines, screen, raced, broken>>
    BY <1>2
    DEF IncludeLines, StaleSelectionIsCleared, Exit, Begins, HunkIsSelected, disk, selected,
        user, luck
  <2>2. PICK ids \in SUBSET IdsOf(lines) :
          /\ LinesWereReviewed(ids)
          /\ job' = [NoJob EXCEPT !.verb = "line", !.ids = ids, !.path = lines.path,
                                  !.partial = review # None /\ ~review.entire]
    BY <1>2, <2>1 DEF IncludeLines, StaleSelectionIsCleared, Exit
  <2>3. job'.ids = ids
    BY <2>2 DEF NoJob
  <2>4. ~raced /\ ~broken
    BY <2>1 DEF Clean
  <2>5. kind \in {"hunk", "file"}
    BY <1>1, <2>1, <2>4 DEF Selection, Publishes, SelectedType, Kinds
  <2>6. Seen
    BY <1>1, <2>1, <2>4, <2>5 DEF Seen, Clean, Publishes, ControlType, NoJob
  <2>7. work[lines.path] = lines.new
    <3>1. snaps.work = work[lines.path]
      BY <2>1, FreshFile DEF SelectionIsStale
    <3> QED BY <2>6, <3>1 DEF SelectionIsTrue, Covers
  <2>8. ASSUME NEW r \in Rows(lines), r[1] \in ids PROVE r \in screen.rows
    BY <2>2, <2>6, <2>8 DEF LinesWereReviewed, Displayed
  <2> QED BY <2>1, <2>3, <2>7, <2>8 DEF Guarded
<1>3. CASE \E verb \in {"include", "discard"} : BareAction(verb)
  <2>1. PICK verb \in {"include", "discard"} : BareAction(verb)
    BY <1>3
  <2>2. pc = "idle" /\ kind = "file" /\ WholeWasReviewed /\ pc' = "stage file"
    BY <2>1 DEF BareAction, StaleSelectionIsCleared, Exit, Begins, Replace
  <2>3. /\ job'.guarded = (review # None)
        /\ UNCHANGED <<work, index, lines, screen, raced, aged, broken>>
    BY <2>1, <2>2 DEF BareAction, NoJob, disk, user, luck
  <2>4. ~raced /\ ~broken
    BY <2>3 DEF Clean
  <2>5. Seen
    <3>1. job = NoJob
      BY <1>1, <2>2 DEF ControlType
    <3>2. ~job.unasked
      BY <3>1 DEF NoJob
    <3> QED BY <2>2, <2>4, <3>2 DEF Seen, Clean, Publishes
  <2>6. review # None => review.source = "live" /\ review.path = lines.path
    BY <2>2, <2>4 DEF Selection, Publishes
  <2>7. review # None => ReviewIsFresh /\ review.entire
    BY <2>2, <2>6 DEF WholeWasReviewed, KindFitsReview
  <2>8. Rows(lines) \subseteq screen.rows
    BY <2>5, <2>7 DEF Displayed
  <2>9. review # None => CoversFile(lines)
    <3>1. review # None => snaps.index = index[lines.path] /\ snaps.work = work[lines.path]
      BY <2>6, <2>7, FreshFile DEF ReviewIsFresh
    <3> QED BY <2>5, <3>1 DEF SelectionIsTrue, CoversFile
  <2>10. ~aged => CoversFile(lines)
    BY <2>2, <2>5 DEF SelectionIsTrue
  <2>11. CoversFile(lines)' <=> CoversFile(lines)
    BY <2>3 DEF CoversFile, Covers
  <2>12. (Rows(lines) \subseteq screen.rows)'
    BY <2>3, <2>8
  <2> QED BY <2>2, <2>3, <2>9, <2>10, <2>11, <2>12 DEF Guarded
<1>4. CASE UserEdits
  <2>1. pc' = pc /\ UNCHANGED <<index, lines, patch, job, screen, broken>> /\ pc \notin Publishes
    BY <1>4 DEF UserEdits, selected, user, Publishes
  <2>2. PICK p \in Paths, s \in Slots, t \in Texts \cup {Old} :
          work' = [work EXCEPT ![p][s] = t] /\ Notice(p)
    BY <1>4 DEF UserEdits
  <2>3. ~raced /\ ~broken /\ p \notin {PathOf(patch), PathOf(lines)} /\ aged' = aged
    BY <1>1, <2>1, <2>2 DEF Clean, Notice, Acting, Rendering
  <2>4. lines \in Views /\ lines # None /\ lines.path \in Paths
    <3>1. lines \in Views
      BY <1>1, <2>1, <2>3 DEF ControlType, Selection
    <3> QED BY <3>1, NoneIsNoView, ViewType
  <2>5. work'[lines.path] = work[lines.path]
    BY <1>1, <2>2, <2>3, <2>4 DEF PathOf, DiskType
  <2>6. CoversFile(lines)' <=> CoversFile(lines)
    BY <2>1, <2>5 DEF CoversFile, Covers
  <2>7. (Rows(lines) \subseteq screen.rows)' <=> Rows(lines) \subseteq screen.rows
    BY <2>1
  <2> QED BY <2>1, <2>3, <2>5, <2>6, <2>7 DEF Guarded, Clean
<1>5. ~(PublishNext \/ Display)
  <2>1. CASE WriteKind
    BY <1>1, <2>1 DEF WriteKind, ControlType, Publishes
  <2>2. CASE ~WriteKind
    BY <2>2
    DEF PublishNext, InvalidateCache, WritePatch, WriteLines, WriteSnapshots,
        ForgetReview, WriteReview, RenumberLines, Display, Exit
  <2> QED BY <2>1, <2>2
<1>6. ~ShowNext /\ ~ShowFile /\ ~ShowBatch /\ ~ShowList /\ ~UserStages /\ ~Dies
  BY DEF ShowNext, ShowFile, ShowBatch, ShowList, UserStages, Dies, Replace, Begins, Exit
<1>7. ~StageLines /\ ~StageHunk /\ ~DiscardHunk /\ ~StageFile
  BY DEF StageLines, StageHunk, DiscardHunk, StageFile, Fails, Exit
<1>8. ~Refresh /\ ~Finish
  BY DEF Refresh, Finish, Advance, Replace, Exit
<1> QED BY <1>2, <1>3, <1>4, <1>5, <1>6, <1>7, <1>8 DEF Next, PublishNext

LEMMA RowsAreNamed ==
  ASSUME NEW v \in Views, NEW r \in Rows(v)
  PROVE  Names(v, <<r[1], r[3]>>)
<1>1. PICK q \in DOMAIN v.ids : r = <<v.ids[q], q, v.new[q]>>
  BY DEF Rows
<1>2. \A s \in DOMAIN v.ids : v.ids[s] = v.ids[q] => s = q
  BY ViewType
<1> QED BY <1>1, <1>2 DEF Names

LEMMA MeaningDisplayed ==
  TypeOK /\ Published /\ Meaning /\ Display /\ Seen' => \A k \in known' : Names(lines, k)
<1> SUFFICES ASSUME TypeOK, Published, Meaning, Display, Seen', NEW k \in known'
             PROVE  Names(lines, k)
  OBVIOUS
<1>1. /\ pc = "display" /\ UNCHANGED <<lines, kind, raced>>
      /\ broken' = (broken /\ job.verb = "line")
  BY DEF Display
<1>2. lines \in Views /\ lines.path = job.view.path /\ (job.then # "refile" => lines = job.view)
  BY <1>1 DEF Published, Shape
<1>3. ~raced /\ ~broken'
  BY <1>1 DEF Seen, Clean
<1>4. job.verb = "line" => ~broken
  BY <1>1, <1>3 DEF TypeOK, UserType
<1> DEFINE seen == IF job.verb = "line" /\ screen.path = lines.path
                   THEN {l \in known : \E r \in screen.rows : l[1] <= r[1]} ELSE {}
<1>5. PICK rows \in SUBSET Rows(lines) : known' = seen \cup {<<r[1], r[3]>> : r \in rows}
  BY DEF Display
<1>6. CASE k \in seen
  <2>1. job.verb = "line" /\ screen.path = job.view.path /\ Clean
    BY <1>2, <1>3, <1>4, <1>6 DEF Clean
  <2>2. Continues(lines)
    BY <1>1, <1>2, <2>1 DEF Meaning, Publishes
  <2> QED BY <1>6, <2>2 DEF Continues
<1>7. CASE k \notin seen
  <2>1. PICK r \in rows : k = <<r[1], r[3]>>
    BY <1>5, <1>7
  <2> QED BY <1>2, <2>1, RowsAreNamed
<1> QED BY <1>6, <1>7

\* A line action's next view continues the last one.
LEMMA MeaningStarts ==
  ASSUME TypeOK, Selection, Displayed, Meaning, Next, pc' = "invalidate", ~UserEdits,
         job'.verb = "line", Clean', screen'.path = job'.view.path
  PROVE  IF job'.then = "refile" THEN Continuable(job.was)' ELSE Continues(job.view)'
<1>1. /\ ControlType /\ SelectedType /\ job \in Jobs /\ raced \in BOOLEAN
      /\ known \subseteq Nat \X AnyText /\ DiskType
  BY DEF TypeOK, ControlType, UserType
<1>2. ASSUME NEW asked \in Jobs, NEW view, NEW then, Replace(asked, view, then)
      PROVE  /\ job'.view = view /\ job'.then = then /\ job'.verb = asked.verb
             /\ job'.was = asked.was /\ raced' = (raced /\ asked.verb = "line")
  BY <1>2 DEF Replace, Jobs
<1>3. ~ShowNext /\ ~ShowFile /\ ~ShowBatch
  <2>1. \A view, then : ~Replace([NoJob EXCEPT !.verb = "show"], view, then)
    BY <1>2, ShowJob
  <2> QED BY <2>1 DEF ShowNext, ShowFile, ShowBatch
<1>4. ~\E verb \in {"include", "discard"} : BareAction(verb)
  <2>1. ASSUME NEW verb \in {"include", "discard"}, BareAction(verb) PROVE FALSE
    <3> DEFINE first == [[NoJob EXCEPT !.verb = verb, !.guarded = review # None]
                           EXCEPT !.unasked = TRUE]
    <3>1. first \in Jobs /\ first.verb = verb
      BY BareJob
    <3> HIDE DEF first
    <3>2. \E view, then : Replace(first, view, then)
      BY <2>1 DEF BareAction, StaleSelectionIsCleared, Exit, first
    <3> QED BY <1>2, <3>1, <3>2
  <2> QED BY <2>1
<1>5. ~Finish
  <2>1. ASSUME Finish PROVE FALSE
    <3>1. job.verb # "line"
      BY <1>1, <2>1 DEF Finish, ControlType
    <3>2. \E view, then : Replace(job, view, then)
      BY <2>1 DEF Finish, Advance, Exit
    <3> QED BY <1>1, <1>2, <3>1, <3>2
  <2> QED BY <2>1
<1>6. CASE Refresh
  <2>1. /\ pc = "refresh" /\ job.verb = "line" /\ lines \in Views /\ lines.path \in Paths
        /\ lines # None /\ ~job.unasked
    BY <1>1, <1>6, NoneIsNoView, ViewType DEF Refresh, ControlType
  <2> DEFINE view == Rendered(lines.path, index[lines.path], work[lines.path])
             asked == [job EXCEPT !.was = lines]
  <2>2. view \in Views
    BY <1>1, <2>1, RenderedType
  <2>3. asked \in Jobs /\ asked.was = lines
    BY <1>1, <2>1, RefileJob
  <2>9. UNCHANGED <<screen, known, broken>> /\ \E v, then : Replace(job, v, then) \/ Replace(asked, v, then)
    BY <1>6 DEF Refresh, Advance, Exit, user, view, asked
  <2>4. ~raced /\ ~broken
    <3>1. asked.verb = "line"
      BY <1>1, <2>1 DEF Jobs
    <3>2. raced' = (raced /\ TRUE)
      BY <1>1, <1>2, <2>1, <2>3, <2>9, <3>1
    <3> QED BY <1>1, <2>9, <3>2 DEF Clean
  <2>5. Seen
    BY <2>1, <2>4 DEF Seen, Clean, Selection, Publishes
  <2>6. /\ screen.path = lines.path /\ screen.rows \subseteq Rows(lines)
        /\ \A k \in known : Names(lines, k)
    BY <2>5 DEF Displayed, Meaning
  <2> HIDE DEF view, asked
  <2>7. CASE Replace(asked, view, "refile")
    <3>1. job'.then = "refile" /\ job'.was = lines
      BY <1>2, <2>3, <2>7
    <3>2. screen'.rows \subseteq Rows(lines) /\ \A k \in known' : Names(lines, k)
      BY <2>6, <2>9
    <3> QED BY <3>1, <3>2 DEF Continuable, Rows, Names
  <2>8. ASSUME NEW v \in Preserved(lines, view), Replace(job, v, "line")
        PROVE  job'.then # "refile" /\ Continues(job.view)'
    <3>1. job'.then = "line" /\ job'.view = v
      BY <1>1, <1>2, <2>8
    <3>2. Continues(v)
      BY <1>1, <2>1, <2>2, <2>6, PreservedContinues
    <3> QED BY <2>9, <3>1, <3>2 DEF Continues, Names
  <2>10. ~(index[lines.path] = work[lines.path] /\ Advance("next"))
    <3>1. ASSUME NEW p \in Unstaged, Replace(job, Rendered(p, index[p], work[p]), "next"),
                 index[lines.path] = work[lines.path]
          PROVE  FALSE
      <4>1. p # lines.path
        BY <3>1 DEF Unstaged
      <4>2. job'.view.path = p
        BY <1>1, <1>2, <3>1 DEF Rendered
      <4> QED BY <2>6, <2>9, <4>1, <4>2
    <3> QED BY <3>1 DEF Advance, Exit
  <2> QED BY <1>6, <2>7, <2>8, <2>10 DEF Refresh, view, asked
<1> QED BY <1>3, <1>4, <1>5, <1>6, OnlyStarts

LEMMA MeaningStep ==
  TypeOK /\ Published /\ Selection /\ Displayed /\ Meaning /\ Next => Meaning'
<1> SUFFICES ASSUME TypeOK, Published, Selection, Displayed, Meaning, Next PROVE Meaning'
  OBVIOUS
<1>1. /\ ControlType /\ SelectedType /\ job \in Jobs /\ raced \in BOOLEAN
      /\ known \subseteq Nat \X AnyText
  BY DEF TypeOK, ControlType, UserType
<1>2. Seen' => \A k \in known' : Names(lines', k)
  <2>1. CASE Display
    BY <2>1, MeaningDisplayed DEF Display
  <2>2. ASSUME ~Display, Seen' PROVE \A k \in known' : Names(lines', k)
    <3>1. Seen /\ UNCHANGED <<lines, known>>
      BY <2>2, SeenStep
    <3> QED BY <3>1 DEF Meaning
  <2> QED BY <2>1, <2>2
<1>3. ASSUME pc' \in Publishes, job'.verb = "line", Clean', screen'.path = job'.view.path
      PROVE  IF job'.then # "refile" THEN Continues(job.view)'
             ELSE IF pc' = "display" THEN Continues(lines)'
             ELSE Continuable(job.was)'
  <2>1. CASE pc' = "invalidate" /\ ~UserEdits
    BY <1>3, <2>1, MeaningStarts
  <2>2. CASE UserEdits \/ (PublishNext /\ ~RenumberLines)
    <3>7. ASSUME UserEdits
          PROVE  UNCHANGED <<job, screen, known>> /\ pc \in Publishes /\ Clean
      <4>1. PICK p \in Paths : Notice(p)
        BY <3>7 DEF UserEdits
      <4>2. ~raced' => ~raced
        BY <1>1, <4>1 DEF Notice
      <4>3. UNCHANGED <<job, screen, known, pc, broken>>
        BY <3>7 DEF UserEdits, user
      <4> QED BY <1>3, <4>2, <4>3 DEF Clean
    <3>8. ASSUME PublishNext, ~RenumberLines
          PROVE  UNCHANGED <<job, screen, known>> /\ pc \in Publishes /\ Clean
      <4>1. UNCHANGED <<job, screen, known, raced, broken>> /\ pc \in Publishes
        BY <3>8
        DEF PublishNext, InvalidateCache, WritePatch, WriteLines, WriteSnapshots,
            WriteKind, ForgetReview, WriteReview, Publishing, user, luck, Publishes
      <4> QED BY <1>3, <4>1 DEF Clean
    <3>1. UNCHANGED <<job, screen, known>> /\ pc \in Publishes /\ Clean
      BY <2>2, <3>7, <3>8
    <3>2. job.then = "refile" => /\ (pc' = "display") <=> (pc = "display")
                                 /\ pc = "display" => lines' = lines
      BY <1>1, <2>2, <3>1
      DEF PublishNext, UserEdits, InvalidateCache, WritePatch, WriteLines, WriteSnapshots,
          WriteKind, ForgetReview, WriteReview, selected, ControlType
    <3>3. screen.path = job.view.path /\ job.verb = "line" /\ Clean
      BY <1>3, <3>1
    <3>4. CASE job.then # "refile"
      <4>1. Continues(job.view)
        BY <3>1, <3>3, <3>4 DEF Meaning
      <4> QED BY <3>1, <3>4, <4>1 DEF Continues, Names
    <3>5. CASE job.then = "refile" /\ pc = "display"
      <4>1. Continues(lines)
        BY <3>1, <3>3, <3>5 DEF Meaning
      <4> QED BY <3>1, <3>2, <3>5, <4>1 DEF Continues, Names
    <3>6. CASE job.then = "refile" /\ pc # "display"
      <4>1. Continuable(job.was)
        BY <3>1, <3>3, <3>6 DEF Meaning
      <4> QED BY <3>1, <3>2, <3>6, <4>1 DEF Continuable, Names, Rows
    <3> QED BY <3>4, <3>5, <3>6
  <2>3. CASE RenumberLines
    <3>1. /\ UNCHANGED <<job, screen, known, raced, broken>> /\ pc = "renumber"
          /\ pc' = "display" /\ lines' \in Preserved(job.was, job.view)
      BY <2>3 DEF RenumberLines, Publishing, user, luck
    <3>2. job.then = "refile" /\ job.was \in Views /\ job.was # None /\ job.view \in Views
      BY <1>1, <3>1 DEF ControlType, Publishes
    <3>3. Continuable(job.was)
      BY <1>3, <3>1, <3>2 DEF Meaning, Clean, Publishes
    <3>4. \A v \in Preserved(job.was, job.view) : Continues(v)
      BY <1>1, <3>2, <3>3, PreservedContinues DEF Continuable
    <3>5. Continues(lines)'
      BY <3>1, <3>4 DEF Continues, Names
    <3> QED BY <3>1, <3>2, <3>5
  <2> QED BY <1>3, <2>1, <2>2, <2>3, OnlyPublishing
<1> QED BY <1>2, <1>3 DEF Meaning, Continues, Continuable, Names

-----------------------------------------------------------------------------
(* The theorems.                                                             *)

LEMMA InvInit == Init => Inv
<1> SUFFICES ASSUME Init PROVE Inv
  OBVIOUS
<1>1. /\ pc = "idle" /\ kind = "none" /\ patch = None /\ lines = None /\ review = None
      /\ told = FALSE /\ broken = FALSE
  BY DEF Init
<1>2. ~Seen
  BY <1>1 DEF Seen
<1> QED
  BY <1>1, <1>2
  DEF Inv, Published, ReviewPublished, Selection, Telling, ViewIsTrue, SelectionIsTrue, Displayed,
      Guarded, Meaning, Publishes

LEMMA InvStep == TypeOK /\ Inv /\ [Next]_vars => Inv'
<1> SUFFICES ASSUME TypeOK, Inv, [Next]_vars PROVE Inv'
  OBVIOUS
<1>1. CASE Next
  BY <1>1, PublishedStep, ReviewPublishedStep, SelectionStep, TellingStep, ViewIsTrueStep,
     SelectionIsTrueStep, DisplayedStep, GuardedStep, MeaningStep DEF Inv
<1>2. CASE UNCHANGED vars
  <2>1. /\ UNCHANGED <<work, index, patch, lines, snaps, kind, reason, review, pc, job>>
        /\ UNCHANGED <<screen, known, told, raced, aged, broken>>
    BY <1>2 DEF vars, disk, selected, user, luck
  <2>6. Published' /\ Telling'
    BY <2>1 DEF Inv, Published, Telling, ToldToChoose
  <2>7. ReviewPublished'
    BY <2>1 DEF Inv, ReviewPublished
  <2>2. Selection'
    BY <2>1 DEF Inv, Selection
  <2>3. ViewIsTrue' /\ SelectionIsTrue'
    BY <2>1 DEF Inv, ViewIsTrue, SelectionIsTrue, Seen, Clean, CoversFile, Covers
  <2>4. Displayed' /\ Guarded'
    BY <2>1 DEF Inv, Displayed, Guarded, Seen, Clean, CoversFile, Covers, Rows
  <2>5. Meaning'
    BY <2>1 DEF Inv, Meaning, Seen, Clean, Continues, Continuable, Names, Rows
  <2> QED BY <2>2, <2>3, <2>4, <2>5, <2>6, <2>7 DEF Inv
<1> QED BY <1>1, <1>2

\* Every variable keeps its type: files, views and jobs are what they may be,
\* and no step of a command comes with a task that has no such step.
THEOREM TypeCorrect == Spec => []TypeOK
<1>1. TypeOK /\ Inv /\ [Next]_vars => (TypeOK /\ Inv)'
  BY TypeStep, InvStep DEF Inv
<1> QED BY InitType, InvInit, <1>1, PTL DEF Spec

\* The invariant: what is published follows its view, a selection is the one
\* that was displayed, and its IDs mean what the user has read.
THEOREM InvHolds == Spec => [](TypeOK /\ Inv)
<1>1. TypeOK /\ Inv /\ [Next]_vars => (TypeOK /\ Inv)'
  BY TypeStep, InvStep DEF Inv
<1> QED BY InitType, InvInit, <1>1, PTL DEF Spec

\* Only the steps that act change the files while their command goes on.
LEMMA OnlyActions ==
  ASSUME TypeOK, Next, Acts
  PROVE  StageLines \/ StageHunk \/ DiscardHunk \/ StageFile
<1>1. pc \in Acting /\ disk' # disk /\ pc' # pc
  BY DEF Acts
<1>2. ~UserEdits /\ ~UserStages /\ ~Dies
  BY <1>1 DEF UserEdits, UserStages, Dies
<1>3. ~PublishNext /\ ~Display
  BY <1>1
  DEF PublishNext, InvalidateCache, WritePatch, WriteLines, WriteSnapshots, WriteKind,
      ForgetReview, WriteReview, RenumberLines, Display, Acting
<1>4. pc # "idle"
  BY <1>1 DEF Acting
<1>5. /\ ~ShowNext /\ ~ShowFile /\ ~ShowBatch /\ ~ShowList /\ ~IncludeLines
      /\ ~\E verb \in {"include", "discard"} : BareAction(verb)
  BY <1>4 DEF ShowNext, ShowFile, ShowBatch, ShowList, IncludeLines, BareAction, Begins
<1>6. ~Refresh /\ ~Finish
  BY <1>1 DEF Refresh, Finish, Acting
<1> QED BY <1>2, <1>3, <1>5, <1>6 DEF Next, PublishNext

\* What an action that is neither raced nor broken acts on was seen.
LEMMA ActsOnSeen ==
  ASSUME TypeOK, Inv, pc \in Acting, ~raced, ~broken, ~(job.unasked /\ ~told)
  PROVE  /\ Seen /\ lines \in Views /\ lines.path \in Paths /\ patch = Shape(lines)
         /\ pc \in {"include", "discard"} => review = None
         /\ screen.path = lines.path
<1>1. pc \notin Publishes /\ pc # "idle"
  BY DEF Acting, Publishes
<1>2. ~told
  BY <1>1 DEF Inv, Telling
<1>3. kind \in {"hunk", "file"} /\ (pc \in {"include", "discard"} => kind = "hunk")
  BY <1>1 DEF Inv, Selection, Acting
<1>4. Seen
  BY <1>1, <1>2, <1>3 DEF Seen, Clean
<1>5. /\ lines \in Views /\ patch = Shape(lines)
      /\ pc \in {"include", "discard"} => review = None
  BY <1>1, <1>3 DEF Inv, Selection
<1> QED BY <1>4, <1>5, ViewType DEF Inv, Displayed

\* The lines that are staged are the ones of the view.
LEMMA LinesStaged ==
  ASSUME TypeOK, Inv, Seen, StageLines, lines \in Views, lines.path \in Paths
  PROVE  /\ work' = work
         /\ \A p \in Paths \ {lines.path} : index'[p] = index[p]
         /\ \A s \in Slots : index'[lines.path][s] # index[lines.path][s] =>
              /\ s \in DOMAIN lines.ids /\ lines.ids[s] \in job.ids
              /\ index'[lines.path][s] = lines.new[s]
<1>1. DiskType
  BY DEF TypeOK
<1>2. CASE UNCHANGED index
  BY <1>2 DEF StageLines
<1>3. CASE ~UNCHANGED index
  <2> DEFINE p == lines.path
             chosen == {s \in DOMAIN lines.ids : lines.ids[s] \in job.ids}
             c == [s \in Slots |-> IF s \in chosen THEN work[p][s] ELSE index[p][s]]
  <2>1. index' = [index EXCEPT ![p] = c] /\ UNCHANGED work
    BY <1>3 DEF StageLines
  <2>2. index'[p] = c /\ \A q \in Paths \ {p} : index'[q] = index[q]
    BY <1>1, <2>1 DEF DiskType
  <2>3. work[p] = lines.new
    BY DEF Inv, Guarded, Seen, StageLines
  <2>4. \A s \in Slots : c[s] # index[p][s] => s \in chosen /\ c[s] = lines.new[s]
    BY <2>3
  <2> HIDE DEF c
  <2> QED BY <2>1, <2>2, <2>4
<1> QED BY <1>2, <1>3

LEMMA ChangedRow ==
  ASSUME NEW v \in Views, NEW s \in Slots, v.old[s] # v.new[s]
  PROVE  s \in DOMAIN v.ids /\ <<v.ids[s], s, v.new[s]>> \in Rows(v)
BY ViewType DEF Rows

\* An action on lines or on a hunk changes only what the last output showed
\* (require_selected_hunk, validate_pathless_review_line_action,
\* refuse_bare_action_after_file_list).
THEOREM ActsOnTheScreen == Spec => ActsOnWhatWasShown
<1>1. ASSUME TypeOK, Inv, [Next]_vars, Acts, pc # "stage file",
             ~raced, ~broken, ~(job.unasked /\ ~told),
             NEW p \in Paths, NEW s \in Slots
      PROVE  /\ index'[p][s] # index[p][s] => OnScreen(p, s, index'[p][s])
             /\ work'[p][s] # work[p][s]   => OnScreen(p, s, work[p][s])
  <2>1. pc \in Acting /\ DiskType /\ Next
    BY <1>1 DEF Acts, TypeOK, vars
  <2>2. /\ Seen /\ lines \in Views /\ lines.path \in Paths /\ patch = Shape(lines)
        /\ pc \in {"include", "discard"} => review = None
        /\ screen.path = lines.path
    BY <1>1, <2>1, ActsOnSeen
  <2>9. Guarded /\ Displayed
    BY <1>1 DEF Inv
  <2>3. ASSUME NEW q \in DOMAIN lines.ids, <<lines.ids[q], q, lines.new[q]>> \in screen.rows
        PROVE  OnScreen(lines.path, q, lines.new[q])
    BY <2>2, <2>3 DEF OnScreen
  <2>4. CASE StageLines
    <3>1. \A r \in Rows(lines) : r[1] \in job.ids => r \in screen.rows
      BY <2>2, <2>4, <2>9 DEF StageLines, Guarded, Seen
    <3>2. \A q \in DOMAIN lines.ids : lines.ids[q] \in job.ids => OnScreen(lines.path, q, lines.new[q])
      BY <2>3, <3>1 DEF Rows
    <3>3. /\ work' = work
          /\ p # lines.path => index'[p] = index[p]
          /\ index'[lines.path][s] # index[lines.path][s] =>
              /\ s \in DOMAIN lines.ids /\ lines.ids[s] \in job.ids
              /\ index'[lines.path][s] = lines.new[s]
      BY <1>1, <2>2, <2>4, LinesStaged
    <3> QED BY <3>2, <3>3
  <2>5. ASSUME StageHunk \/ DiscardHunk, lines.old[s] # lines.new[s]
        PROVE  OnScreen(lines.path, s, lines.new[s])
    <3>1. review = None
      BY <2>2, <2>5 DEF StageHunk, DiscardHunk
    <3>2. s \in DOMAIN lines.ids /\ <<lines.ids[s], s, lines.new[s]>> \in Rows(lines)
      BY <2>2, <2>5, ChangedRow
    <3>3. <<lines.ids[s], s, lines.new[s]>> \in screen.rows
      BY <2>2, <2>9, <3>1, <3>2 DEF Displayed
    <3> QED BY <2>3, <3>2, <3>3
  <2>6. CASE StageHunk
    <3>1. work' = work /\ (index' = index \/ /\ index[lines.path] = lines.old
                                             /\ index' = [index EXCEPT ![lines.path] = lines.new])
      BY <2>2, <2>6 DEF StageHunk, Shape
    <3>2. CASE index' = index
      BY <3>1, <3>2
    <3>3. CASE index' = [index EXCEPT ![lines.path] = lines.new] /\ index[lines.path] = lines.old
      <4>1. index'[p] = IF p = lines.path THEN lines.new ELSE index[p]
        BY <2>1, <2>2, <3>3 DEF DiskType
      <4> QED BY <2>5, <2>6, <3>1, <3>3, <4>1
    <3> QED BY <3>1, <3>2, <3>3
  <2>7. CASE DiscardHunk
    <3>1. index' = index /\ (work' = work \/ /\ work[lines.path] = lines.new
                                             /\ work' = [work EXCEPT ![lines.path] = lines.old])
      BY <2>2, <2>7 DEF DiscardHunk, Shape
    <3>2. CASE work' = work
      BY <3>1, <3>2
    <3>3. CASE work' = [work EXCEPT ![lines.path] = lines.old] /\ work[lines.path] = lines.new
      <4>1. work'[p] = IF p = lines.path THEN lines.old ELSE work[p]
        BY <2>1, <2>2, <3>3 DEF DiskType
      <4> QED BY <2>5, <2>7, <3>1, <3>3, <4>1
    <3> QED BY <3>1, <3>2, <3>3
  <2>8. ~StageFile
    BY <1>1 DEF StageFile
  <2> QED BY <1>1, <2>1, <2>4, <2>6, <2>7, <2>8, OnlyActions
<1>2. TypeOK /\ Inv /\ [Next]_vars =>
        [Acts /\ pc # "stage file" =>
           \/ raced \/ broken
           \/ job.unasked /\ ~told
           \/ \A p \in Paths, s \in Slots :
                /\ index'[p][s] # index[p][s] => OnScreen(p, s, index'[p][s])
                /\ work'[p][s] # work[p][s]   => OnScreen(p, s, work[p][s])]_vars
  BY <1>1
<1> QED BY <1>2, InvHolds, PTL DEF Spec, ActsOnWhatWasShown

\* An ID names the same text in all views of a series of line actions
\* (preserve_line_ids_from_previous_view).
THEOREM IdsKeepTheirMeaning == Spec => IdsAreNeverReused
<1>1. ASSUME TypeOK, Inv, [Next]_vars, Acts, pc = "stage", ~raced, ~broken,
             NEW s \in Slots, index'[lines.path][s] # index[lines.path][s],
             NEW seen \in known, seen[1] = lines.ids[s]
      PROVE  seen[2] = index'[lines.path][s]
  <2>1. pc \in Acting /\ Next /\ ~job.unasked
    BY <1>1 DEF Acts, Acting, vars, TypeOK, ControlType
  <2>2. Seen /\ lines \in Views /\ lines.path \in Paths
    BY <1>1, <2>1, ActsOnSeen
  <2>3. StageLines
    BY <1>1, <2>1, OnlyActions DEF StageHunk, DiscardHunk, StageFile
  <2>4. s \in DOMAIN lines.ids /\ index'[lines.path][s] = lines.new[s]
    BY <1>1, <2>2, <2>3, LinesStaged
  <2>5. Names(lines, seen)
    BY <1>1, <2>2 DEF Inv, Meaning
  <2> QED BY <1>1, <2>4, <2>5 DEF Names
<1>2. TypeOK /\ Inv /\ [Next]_vars =>
        [Acts /\ pc = "stage" =>
           \/ raced \/ broken
           \/ \A s \in Slots : index'[lines.path][s] # index[lines.path][s] =>
                \A seen \in known : seen[1] = lines.ids[s] => seen[2] = index'[lines.path][s]]_vars
  BY <1>1
<1> QED BY <1>2, InvHolds, PTL DEF Spec, IdsAreNeverReused

\* A file's view is staged whole only after all its changes were shown
\* (refuse_ambiguous_bare_action_after_partial_file_review).
THEOREM FileWasShown == Spec => WholeFileWasShown
<1>1. ASSUME TypeOK, Inv, [Next]_vars, Acts, pc = "stage file", ~raced, ~broken,
             ~(aged /\ ~job.guarded), NEW p \in Paths, NEW s \in Slots,
             index'[p][s] \notin {index[p][s], Old}
      PROVE  OnScreen(p, s, index'[p][s])
  <2>1. pc \in Acting /\ Next /\ ~job.unasked /\ DiskType
    BY <1>1 DEF Acts, Acting, vars, TypeOK, ControlType
  <2>2. Seen /\ lines \in Views /\ lines.path \in Paths /\ patch = Shape(lines)
        /\ screen.path = lines.path
    BY <1>1, <2>1, ActsOnSeen
  <2>3. StageFile
    BY <1>1, <2>1, OnlyActions DEF StageLines, StageHunk, DiscardHunk
  <2>4. /\ Rows(lines) \subseteq screen.rows
        /\ job.guarded \/ ~aged => CoversFile(lines)
    BY <1>1 DEF Inv, Guarded, Clean
  <2>5. CoversFile(lines)
    BY <1>1, <2>4
  <2>6. index' = [index EXCEPT ![lines.path] = work[lines.path]]
    BY <1>1, <2>2, <2>3 DEF StageFile, Shape
  <2>7. index'[p] = IF p = lines.path THEN work[p] ELSE index[p]
    BY <2>1, <2>2, <2>6 DEF DiskType
  <2>8. p = lines.path /\ index'[p][s] = lines.new[s] /\ lines.old[s] # lines.new[s]
    BY <1>1, <2>5, <2>7 DEF CoversFile, Covers
  <2>9. <<lines.ids[s], s, lines.new[s]>> \in screen.rows
    BY <2>2, <2>4, <2>8, ChangedRow
  <2> QED BY <2>2, <2>8, <2>9 DEF OnScreen
<1>2. TypeOK /\ Inv /\ [Next]_vars =>
        [Acts /\ pc = "stage file" =>
           \/ raced \/ broken
           \/ aged /\ ~job.guarded
           \/ \A p \in Paths, s \in Slots :
                index'[p][s] \notin {index[p][s], Old} => OnScreen(p, s, index'[p][s])]_vars
  BY <1>1
<1> QED BY <1>2, InvHolds, PTL DEF Spec, WholeFileWasShown
=============================================================================
