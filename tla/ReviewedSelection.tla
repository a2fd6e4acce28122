--------------------------- MODULE ReviewedSelection ---------------------------
(***************************************************************************)
(* The selected change, and the review of a file that guards it.  `show`   *)
(* renders a change from a diff, writes it and a snapshot of the file into *)
(* session/selected/, records which pages of a file were shown, and prints *)
(* the lines with the IDs that a later command may name.  An action that   *)
(* names no path (`include`, `include --line 1`, `discard`) acts on what   *)
(* those files say, after it compared them with the file and the index.    *)
(*                                                                         *)
(* One command runs at a time, under the session lock; the user edits and  *)
(* stages files whenever no lock stops him, and a command may die between  *)
(* any two of its writes.  A file is a row of slots: a slot holds the line *)
(* of HEAD (Old) or another text, and a slot that differs is one change    *)
(* with one line ID.  A text hunk is the whole change of its file.         *)
(***************************************************************************)
EXTENDS Naturals, FiniteSets

CONSTANTS
  Paths,
  Slots,        \* the places for lines in a file, by position
  Texts,        \* what may stand in a slot instead of the line of HEAD
  Old,          \* the line of HEAD
  None,         \* no such file in session/selected/
  MaxCommands,  \* bound on the commands that start
  MaxEdits,     \* bound on what the user changes
  MaxDeaths     \* bound on the commands that die

ASSUME SlotAssumption == Slots \subseteq Nat /\ IsFiniteSet(Slots)
ASSUME TextAssumption == Old \notin Texts
ASSUME BoundAssumption == MaxCommands \in Nat /\ MaxEdits \in Nat /\ MaxDeaths \in Nat

Content == [Slots -> Texts \cup {Old}]
Head    == [s \in Slots |-> Old]

\* None is no path, and nothing that a file in session/selected/ may hold.
ASSUME NoneAssumption ==
  /\ None \notin Paths
  /\ None \notin [path : Paths, old : Content, new : Content]
  /\ None \notin [path : Paths, index : Content, work : Content]
  /\ None \notin [path : Paths, old : Content, new : Content,
                  ids : UNION {[S -> Nat] : S \in SUBSET Slots}]

VARIABLES
  work, index,
  \* session/selected/
  patch,     \* hunk.patch
  lines,     \* hunk.lines.json, the change with its line IDs
  snaps,     \* index.snapshot, working-tree.snapshot and snapshots.json
  kind,      \* change-kind.txt
  reason,    \* clear-reason.txt
  review,    \* file-review.json
  \* the command that holds the lock
  pc,
  job,       \* what it was asked to do, and the view it is publishing
  \* what the user knows (history variables)
  screen,    \* the rows of the last display, <<ID, slot, text>>
  known,     \* every <<ID, text>> displayed since the last `show`, until a view
             \* has only lower IDs
  told,      \* the last command left nothing selected, on purpose
  raced,     \* the user changed the file while this view, or one before it in a
             \* series of line actions, was made, acted on or refreshed
  aged,      \* ... or after the view was made
  broken,    \* a command died, or failed, before it displayed what it selected
  commands, edits, deaths

disk     == <<work, index>>
selected == <<patch, lines, snaps, kind, reason, review>>
user     == <<screen, known, told>>
luck     == <<raced, aged, broken>>
counts   == <<commands, edits, deaths>>
vars     == <<disk, selected, pc, job, user, luck, counts>>

Blank == [path |-> None, rows |-> {}]
NoJob == [verb |-> "none", view |-> None, was |-> None, then |-> "exit", ids |-> {},
          path |-> None, partial |-> FALSE, unasked |-> FALSE, guarded |-> FALSE]

-----------------------------------------------------------------------------
(* Views.                                                                  *)

PathOf(view)    == IF view = None THEN None ELSE view.path
Rank(S, s)      == Cardinality({t \in S : t <= s})
IdsOf(view)     == {view.ids[s] : s \in DOMAIN view.ids}
Rows(view)      == {<<view.ids[s], s, view.new[s]>> : s \in DOMAIN view.ids}

\* render_file_as_single_hunk, build_line_changes_from_patch_lines.
Rendered(p, old, new) ==
  LET S == {s \in Slots : old[s] # new[s]}
  IN  [path |-> p, old |-> old, new |-> new, ids |-> [s \in S |-> Rank(S, s)]]

\* The runs of equal rows that SequenceMatcher may align: in order, and no
\* further pair fits.
Alignments(was, now) ==
  LET Fits(m) == \A a, b \in m : /\ (a[1] < b[1]) <=> (a[2] < b[2])
                                 /\ (a[1] = b[1]) <=> (a[2] = b[2])
      Pairs == {m \in (DOMAIN was.ids) \X (DOMAIN now.ids) : was.new[m[1]] = now.new[m[2]]}
      Sets  == {m \in SUBSET Pairs : Fits(m)}
  IN  {m \in Sets : \A pair \in Pairs \ m : ~Fits(m \cup {pair})}

\* preserve_line_ids_from_previous_view, of two views of a file: an aligned row keeps its ID, the
\* others get IDs above the previous ones.
Renumbered(was, now, m) ==
  LET kept == {pair[2] : pair \in m}
      rest == DOMAIN now.ids \ kept
      top  == CHOOSE i \in IdsOf(was) : \A j \in IdsOf(was) : j <= i
      IdOf(s) == IF s \in kept THEN was.ids[CHOOSE r \in Slots : <<r, s>> \in m]
                               ELSE top + Rank(rest, s)
  IN  [now EXCEPT !.ids = [s \in DOMAIN now.ids |-> IdOf(s)]]

\* A mistake: each view counts its lines from one.
RawIds(was, now) == {now}

Preserved(was, now) ==
  IF was = None \/ DOMAIN was.ids = {} THEN {now}
  ELSE {Renumbered(was, now, m) : m \in Alignments(was, now)}

Unstaged == {p \in Paths : index[p] # work[p]}

-----------------------------------------------------------------------------
(* What an action asks before it acts.                                     *)

\* A mistake: the working tree is not compared.
OnlyTheIndexCounts(p) ==
  snaps = None \/ (snaps # None /\ (snaps.path # p \/ snaps.index # index[p]))

\* snapshots_are_stale.
SnapshotsAreStale(p) ==
  \/ snaps = None
  \/ snaps # None /\ (snaps.path # p \/ snaps.index # index[p] \/ snaps.work # work[p])

\* fingerprint_selected_file_view.
Fingerprint ==
  [kind |-> kind, lines |-> lines,
   snaps |-> IF snaps = None THEN None ELSE <<snaps.index, snaps.work>>]

KindFitsReview == kind = IF review.source = "batch" THEN "batch" ELSE "file"

\* selected_change_matches_review_state, for a review of the live file.
ReviewIsFresh ==
  /\ KindFitsReview /\ review.source = "live"
  /\ patch # None /\ patch.path = review.path
  /\ ~SnapshotsAreStale(review.path)
  /\ review.of = Fingerprint

\* refuse_bare_action_after_file_list, ..._after_auto_advance_disabled.
ToldToChoose == kind = "none" /\ reason # "none"

\* validate_pathless_review_line_action.
LinesWereReviewed(ids) ==
  review # None => ReviewIsFresh /\ ids \subseteq review.shown

\* A mistake: one page that was shown stands for all.
AnyPageWillDo == review # None => kind \in {"hunk", "none"} \/ ReviewIsFresh

\* refuse_ambiguous_bare_action_after_partial_file_review: a review that is
\* of another view is an error for a file's view and forgotten for a hunk's.
WholeWasReviewed ==
  review # None =>
    \/ ~KindFitsReview /\ kind \in {"hunk", "none"}
    \/ ReviewIsFresh /\ review.entire

ReviewAfterBareAction == IF review # None /\ ~KindFitsReview THEN None ELSE review

\* require_selected_hunk, but for its staleness.
HunkIsSelected == kind # "batch" /\ patch # None

SelectionIsStale == lines # None /\ SnapshotsAreStale(lines.path)

-----------------------------------------------------------------------------
Init ==
  /\ work \in [Paths -> Content] /\ index = [p \in Paths |-> Head]
  /\ patch = None /\ lines = None /\ snaps = None
  /\ kind = "none" /\ reason = "none" /\ review = None
  /\ pc = "idle" /\ job = NoJob
  /\ screen = Blank /\ known = {} /\ told = FALSE
  /\ raced = FALSE /\ aged = FALSE /\ broken = FALSE
  /\ commands = 0 /\ edits = 0 /\ deaths = 0

Begins ==
  /\ pc = "idle" /\ commands < MaxCommands
  /\ commands' = commands + 1
  /\ UNCHANGED <<edits, deaths>>

Exit == pc' = "idle" /\ job' = NoJob

\* A view was rendered and is about to replace what is selected.  The views of
\* one series of line actions share their IDs, and what went wrong with them.
Replace(asked, view, then) ==
  /\ job' = [asked EXCEPT !.view = view, !.then = then]
  /\ pc' = "invalidate"
  /\ raced' = (raced /\ asked.verb = "line")

\* clear_selected_change_state_files.  The patch goes first, and nothing acts
\* on what is left without it.
ClearSelection(because) ==
  /\ patch' = None /\ lines' = None /\ snaps' = None /\ kind' = "none"
  /\ review' = None /\ reason' = because

-----------------------------------------------------------------------------
(* show.                                                                   *)

ShowNext ==
  /\ Begins
  /\ \E p \in Unstaged :
       Replace([NoJob EXCEPT !.verb = "show"], Rendered(p, index[p], work[p]), "next")
  /\ UNCHANGED <<disk, selected, user, aged, broken>>

\* show --file compares with HEAD (session_comparison_base).
ShowFile ==
  /\ Begins
  /\ \E p \in Paths :
       /\ work[p] # Head
       /\ Replace([NoJob EXCEPT !.verb = "show"], Rendered(p, Head, work[p]), "file")
  /\ UNCHANGED <<disk, selected, user, aged, broken>>

\* show --from: the batch holds any text.
ShowBatch ==
  /\ Begins
  /\ \E p \in Paths, t \in Texts :
       Replace([NoJob EXCEPT !.verb = "show"],
               Rendered(p, Head, [s \in Slots |-> t]), "batch")
  /\ review' = None
  /\ UNCHANGED <<disk, patch, lines, snaps, kind, reason, user, aged, broken>>

\* A list of files selects none of them.
ShowList ==
  /\ Begins
  /\ \E p \in Paths : work[p] # Head
  /\ ClearSelection("list")
  /\ screen' = Blank /\ known' = {} /\ told' = TRUE
  /\ raced' = FALSE /\ aged' = FALSE /\ broken' = FALSE
  /\ UNCHANGED <<disk, pc, job>>

-----------------------------------------------------------------------------
(* cache_hunk_change, _cache_combined_file_line_changes and                *)
(* cache_rendered_batch_file_display: one file after the other.            *)

Publishing == <<disk, job, user, luck, counts>>

InvalidateCache ==
  /\ pc = "invalidate"
  /\ kind' = "none"
  /\ pc' = "patch"
  /\ UNCHANGED <<patch, lines, snaps, reason, review, Publishing>>

WritePatch ==
  /\ pc = "patch"
  /\ patch' = [path |-> job.view.path, old |-> job.view.old, new |-> job.view.new]
  /\ pc' = "lines"
  /\ UNCHANGED <<lines, snaps, kind, reason, review, Publishing>>

WriteLines ==
  /\ pc = "lines"
  /\ lines' = job.view
  /\ pc' = "snaps"
  /\ UNCHANGED <<patch, snaps, kind, reason, review, Publishing>>

\* The snapshots are read now, not when the view was rendered.
WriteSnapshots ==
  /\ pc = "snaps"
  /\ LET p == job.view.path
     IN  snaps' = IF job.then = "batch" THEN None
                  ELSE [path |-> p, index |-> index[p], work |-> work[p]]
  /\ pc' = "kind" /\ aged' = FALSE
  /\ UNCHANGED <<disk, patch, lines, kind, reason, review, job, user, raced, broken, counts>>

KindOf(then) ==
  IF then = "batch" THEN "batch" ELSE IF then \in {"file", "refile"} THEN "file" ELSE "hunk"

WriteKind ==
  /\ pc = "kind"
  /\ kind' = KindOf(job.then) /\ reason' = "none"
  /\ pc' = CASE job.then \in {"next", "file"} -> "forget"
             [] job.then = "batch"            -> "review"
             [] job.then = "refile"           -> "renumber"
             [] job.then = "act"              -> job.verb
             [] OTHER                         -> "display"
  /\ UNCHANGED <<patch, lines, snaps, review, Publishing>>

\* clear_last_file_review_state.
ForgetReview ==
  /\ pc = "forget"
  /\ review' = None
  /\ pc' = IF job.then = "file" THEN "review" ELSE "display"
  /\ UNCHANGED <<patch, lines, snaps, kind, reason, Publishing>>

\* make_file_review_state: the changes on the pages that are to be shown.  A
\* `show --line` never counts as the entire file.  Of a batch's review, only
\* that it is one matters here.
WriteReview ==
  /\ pc = "review"
  /\ LET all == IdsOf(job.view)
         Review(source, shown, entire) ==
           [path |-> job.view.path, source |-> source, shown |-> shown,
            entire |-> entire, of |-> Fingerprint]
     IN  \/ /\ job.then = "batch"
            /\ review' = Review("batch", all, TRUE)
         \/ /\ job.then = "file"
            /\ \E shown \in SUBSET all \ {{}} : \E entire \in {FALSE, shown = all} :
                 review' = Review("live", shown, entire)
  /\ pc' = "display"
  /\ UNCHANGED <<patch, lines, snaps, kind, reason, Publishing>>

\* recalculate_selected_hunk_for_file gives the lines of a file's view their
\* old IDs after it published them.
RenumberLines ==
  /\ pc = "renumber"
  /\ lines' \in Preserved(job.was, job.view)
  /\ pc' = "display"
  /\ UNCHANGED <<patch, snaps, kind, reason, review, Publishing>>

\* The command prints what is selected and ends.  A line action forgets the
\* review of its file, unless only a part of the file was shown.
Display ==
  /\ pc = "display"
  /\ LET rows == IF kind = "batch" THEN {}
                 ELSE IF job.verb = "show" /\ review # None
                      THEN {r \in Rows(lines) : r[1] \in review.shown}
                      ELSE Rows(lines)
         seen == IF job.verb = "line" /\ screen.path = lines.path
                 THEN {k \in known : \E r \in screen.rows : k[1] <= r[1]} ELSE {}
     IN  /\ screen' = [path |-> lines.path, rows |-> rows]
         /\ known' = seen \cup {<<r[1], r[3]>> : r \in rows}
  /\ review' = IF /\ job.verb = "line" /\ ~job.partial
                  /\ review # None /\ review.path = job.path
               THEN None ELSE review
  /\ told' = FALSE /\ broken' = (broken /\ job.verb = "line")
  /\ Exit
  /\ UNCHANGED <<disk, patch, lines, snaps, kind, reason, raced, aged, counts>>

\* An action left nothing selected: it advances and shows the next change, or
\* says that it does not, or that there is none.
Advance(then) ==
  \/ /\ \E p \in Unstaged : Replace(job, Rendered(p, index[p], work[p]), then)
     /\ ClearSelection("none")
     /\ UNCHANGED <<user, aged, broken>>
  \/ /\ Unstaged = {}
     /\ ClearSelection("none") /\ Exit
     /\ UNCHANGED <<user, luck>>
  \/ /\ ClearSelection("advance") /\ told' = TRUE /\ Exit
     /\ UNCHANGED <<screen, known, luck>>

-----------------------------------------------------------------------------
(* include --line.                                                         *)

\* A stale selection is cleared; a command that is refused otherwise changes
\* nothing.
StaleSelectionIsCleared ==
  /\ SelectionIsStale
  /\ ClearSelection("none") /\ Exit
  /\ UNCHANGED <<disk, user, luck>>

IncludeLines ==
  /\ Begins
  /\ ~ToldToChoose /\ HunkIsSelected /\ lines # None
  /\ \E ids \in SUBSET IdsOf(lines) \ {{}} :
       /\ LinesWereReviewed(ids)
       /\ \/ StaleSelectionIsCleared
          \/ /\ ~SelectionIsStale
             /\ job' = [NoJob EXCEPT !.verb = "line", !.ids = ids, !.path = lines.path,
                                     !.partial = review # None /\ ~review.entire]
             /\ pc' = "stage"
             /\ UNCHANGED <<disk, selected, user, luck>>

\* The working file is loaded after the check; it is refused, or merged with
\* the lines that now stand in the selected places.
StageLines ==
  /\ pc = "stage"
  /\ LET p == lines.path
         chosen == {s \in DOMAIN lines.ids : lines.ids[s] \in job.ids}
     IN  \/ /\ index' = [index EXCEPT ![p] =
                           [s \in Slots |-> IF s \in chosen THEN work[p][s] ELSE @[s]]]
            /\ pc' = "refresh"
            /\ UNCHANGED job
         \/ /\ work[p] # snaps.work \/ index[p] # snaps.index
            /\ Exit
            /\ UNCHANGED index
  /\ UNCHANGED <<work, selected, user, luck, counts>>

\* recalculate_selected_hunk_for_command.
Refresh ==
  /\ pc = "refresh"
  /\ LET p    == lines.path
         view == Rendered(p, index[p], work[p])
     IN  \/ /\ index[p] = work[p]
            /\ Advance("next")
         \/ /\ index[p] # work[p] /\ kind = "file"
            /\ Replace([job EXCEPT !.was = lines], view, "refile")
            /\ UNCHANGED <<selected, user, aged, broken>>
         \/ /\ index[p] # work[p] /\ kind # "file"
            /\ \E v \in Preserved(lines, view) : Replace(job, v, "line")
            /\ UNCHANGED <<selected, user, aged, broken>>
  /\ UNCHANGED <<disk, counts>>

-----------------------------------------------------------------------------
(* include and discard, with neither path nor lines.                       *)

BareAction(verb) ==
  /\ Begins
  /\ kind # "batch" /\ WholeWasReviewed /\ ~ToldToChoose
  /\ LET asked == [NoJob EXCEPT !.verb = verb, !.guarded = review # None]
     IN  \/ /\ kind = "file" /\ verb = "include"
            /\ job' = asked /\ pc' = "stage file"
            /\ review' = ReviewAfterBareAction
            /\ UNCHANGED <<disk, patch, lines, snaps, kind, reason, user, luck>>
         \/ /\ kind # "file" /\ patch # None
            /\ StaleSelectionIsCleared
         \/ /\ kind # "file" /\ patch # None /\ ~SelectionIsStale
            /\ job' = asked /\ pc' = verb
            /\ review' = ReviewAfterBareAction
            /\ UNCHANGED <<disk, patch, lines, snaps, kind, reason, user, luck>>
         \/ /\ kind # "file" /\ patch = None
            /\ \E p \in Unstaged :
                 Replace([asked EXCEPT !.unasked = TRUE],
                         Rendered(p, index[p], work[p]), "act")
            /\ review' = ReviewAfterBareAction
            /\ UNCHANGED <<disk, patch, lines, snaps, kind, reason, user, aged, broken>>

\* What a command fetched itself stays selected when the command fails.
Fails == Exit /\ broken' = (broken \/ job.unasked)

\* git apply --cached: it takes the hunk only where its context stands.
StageHunk ==
  /\ pc = "include"
  /\ LET p == patch.path
     IN  \/ /\ index[p] = patch.old
            /\ index' = [index EXCEPT ![p] = patch.new]
            /\ pc' = "finish"
            /\ UNCHANGED <<job, broken>>
         \/ /\ index[p] # patch.old
            /\ Fails
            /\ UNCHANGED index
  /\ UNCHANGED <<work, selected, user, raced, aged, counts>>

\* git apply --reverse on the working tree.
DiscardHunk ==
  /\ pc = "discard"
  /\ LET p == patch.path
     IN  \/ /\ work[p] = patch.new
            /\ work' = [work EXCEPT ![p] = patch.old]
            /\ pc' = "finish"
            /\ UNCHANGED <<job, broken>>
         \/ /\ work[p] # patch.new
            /\ Fails
            /\ UNCHANGED work
  /\ UNCHANGED <<index, selected, user, raced, aged, counts>>

\* include_file_changes stages what the live diff says of the selected file.
StageFile ==
  /\ pc = "stage file"
  /\ LET p == patch.path
     IN  \/ /\ index[p] # work[p]
            /\ index' = [index EXCEPT ![p] = work[p]]
            /\ pc' = "finish"
            /\ UNCHANGED job
         \/ /\ index[p] = work[p]
            /\ Exit
            /\ UNCHANGED index
  /\ UNCHANGED <<work, selected, user, luck, counts>>

Finish ==
  /\ pc = "finish"
  /\ Advance("advance")
  /\ UNCHANGED <<disk, counts>>

-----------------------------------------------------------------------------
(* The user and the machine.                                               *)

Rendering == {"invalidate", "patch", "lines", "snaps"}
Acting    == {"stage", "stage file", "include", "discard"}
Publishes == {"invalidate", "patch", "lines", "snaps", "kind", "forget", "review", "renumber", "display"}

Notice(p) ==
  /\ raced' = (raced \/ (pc \in Rendering /\ job.view.path = p)
                     \/ (pc \in Acting \cup {"refresh"} /\ p \in {PathOf(patch), PathOf(lines)}))
  /\ aged' = (aged \/ (pc \notin Rendering /\ p = PathOf(lines)))

UserEdits ==
  /\ edits < MaxEdits
  /\ \E p \in Paths, s \in Slots, t \in Texts \cup {Old} :
       /\ t # work[p][s]
       /\ work' = [work EXCEPT ![p][s] = t]
       /\ Notice(p)
  /\ edits' = edits + 1
  /\ UNCHANGED <<index, selected, pc, job, user, broken, commands, deaths>>

\* git add, while no command runs.
UserStages ==
  /\ pc = "idle" /\ edits < MaxEdits
  /\ \E p \in Unstaged :
       /\ index' = [index EXCEPT ![p] = work[p]]
       /\ Notice(p)
  /\ edits' = edits + 1
  /\ UNCHANGED <<work, selected, pc, job, user, broken, commands, deaths>>

Dies ==
  /\ pc # "idle" /\ deaths < MaxDeaths
  /\ Exit
  /\ deaths' = deaths + 1
  /\ broken' = (broken \/ job.unasked \/ pc \in Publishes)
  /\ UNCHANGED <<disk, selected, user, raced, aged, commands, edits>>

Next ==
  \/ ShowNext \/ ShowFile \/ ShowBatch \/ ShowList
  \/ InvalidateCache \/ WritePatch \/ WriteLines \/ WriteSnapshots \/ WriteKind
  \/ ForgetReview \/ WriteReview \/ RenumberLines \/ Display
  \/ IncludeLines \/ StageLines \/ Refresh
  \/ \E verb \in {"include", "discard"} : BareAction(verb)
  \/ StageHunk \/ DiscardHunk \/ StageFile \/ Finish
  \/ UserEdits \/ UserStages \/ Dies

Spec == Init /\ [][Next]_vars

-----------------------------------------------------------------------------
(* Properties.                                                             *)

OnScreen(p, s, t) == screen.path = p /\ \E r \in screen.rows : r[2] = s /\ r[3] = t

\* The changes that this step of a command makes to the file system.
Acts == pc \in Acting /\ disk' # disk /\ pc' # pc

\* An action on lines or on a hunk stages, or discards, only changes that the
\* last output showed; unless the file was edited in one of the moments the
\* program does not guard (raced), a command died while it replaced the
\* selection (broken), or nothing was selected and the last output did not say
\* so, when a bare action takes the next hunk unseen.
ActsOnWhatWasShown ==
  [][Acts /\ pc # "stage file" =>
       \/ raced \/ broken
       \/ job.unasked /\ ~told
       \/ \A p \in Paths, s \in Slots :
            /\ index'[p][s] # index[p][s] => OnScreen(p, s, index'[p][s])
            /\ work'[p][s] # work[p][s]   => OnScreen(p, s, work[p][s])]_vars

\* A line ID keeps naming the same text in the views that follow each line
\* action: an ID read from an earlier view of the file never stages other text,
\* as long as the views since then had that ID or a higher one, and nobody
\* edited the file during a line action (preserve_line_ids_from_previous_view).
IdsAreNeverReused ==
  [][Acts /\ pc = "stage" =>
       \/ raced \/ broken
       \/ \A s \in Slots : index'[lines.path][s] # index[lines.path][s] =>
            \A seen \in known : seen[1] = lines.ids[s] => seen[2] = index'[lines.path][s]]_vars

\* A bare include of a file's view stages no change of the file that was on no
\* page shown; a change back to the line of HEAD is in no such view, and the
\* view that follows a line action has no review to compare an edit with.
WholeFileWasShown ==
  [][Acts /\ pc = "stage file" =>
       \/ raced \/ broken
       \/ aged /\ ~job.guarded
       \/ \A p \in Paths, s \in Slots :
            index'[p][s] \notin {index[p][s], Old} => OnScreen(p, s, index'[p][s])]_vars
=============================================================================
