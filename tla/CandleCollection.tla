-------------------------- MODULE CandleCollection --------------------------
(***************************************************************************)
(* The collection of public candles for one range and one evidence         *)
(* directory: collect_evidence_range (data/collector.py) walks backward    *)
(* page by page, persist_raw_page (data/storage.py) makes each page        *)
(* durable in three atomic writes (the page, the snapshot of the walk, the *)
(* checkpoint), and a later call resumes from what it finds on disk.       *)
(*                                                                         *)
(* The data-download command calls it directly; the paper candle source     *)
(* (strict) first refuses unknown files beside an absent checkpoint and    *)
(* afterwards demands the exact contiguous interval                        *)
(* (cli.py, _PublicPaperCandleSource).                                     *)
(*                                                                         *)
(* Candle times are numbers; the range is Start..End with End exclusive in *)
(* the venue's answers.  A page is the set of its rows, and a file named   *)
(* by the hash of its content is its content.  A process may be killed at  *)
(* any step, which leaves the temporary file of a write behind when it     *)
(* happens inside one; an exception removes it.  A rename is atomic and    *)
(* lasting.  HTTP details, JSON and hashing are not modelled.              *)
(***************************************************************************)
EXTENDS Integers, Sequences, FiniteSets, FiniteSetsExt, SequencesExt

CONSTANTS
    Procs,        \* processes that may collect the range at the same time
    Start, End,   \* the range
    Missing,      \* candles the venue has not published at first
    PageSize,     \* most rows in an answer
    Attempts,     \* requests made for one page
    MaxFailures,  \* bound: failed requests and writes
    MaxKills,     \* bound: killed processes
    MaxChanges    \* bound: changes of the newest candle while it forms

ASSUME CollectionAssumption ==
    /\ {Start, End, PageSize, Attempts, MaxFailures, MaxKills, MaxChanges} \subseteq Nat
    /\ Start <= End /\ PageSize > 1 /\ Attempts > 0
    /\ Missing \subseteq 0..End - 1

VARIABLES
    mode,      \* strict: the paper candle source; inclusive: answers hold their boundary
    venue,     \* published candles: a function from their times to their values
    disk,      \* the evidence directory
    pc,        \* where each process is; "off" when it never collects
    ev,        \* the CollectionEvidence each process holds
    page,      \* the answer each process is making durable
    attempt,   \* requests a process has made for the page
    loaded,    \* a call has returned a frame
    budget     \* failures, kills and changes that may still happen

vars == <<mode, venue, disk, pc, ev, page, attempt, loaded, budget>>

None == -1
NoEvidence == [pages |-> <<>>, next |-> None, complete |-> FALSE]

-----------------------------------------------------------------------------
\* Evidence

Time(row) == row[1]
Oldest(rows) == IF rows = {} THEN None ELSE Min({Time(r) : r \in rows})

\* _new_collection_evidence
NewEvidence == [pages |-> <<>>, next |-> End, complete |-> FALSE]

\* _validate_pagination_state: the pages describe one backward walk.
WalksBack(e) ==
    LET n == Len(e.pages)
        request(k) == IF k = 1 THEN End ELSE e.pages[k - 1].oldest
    IN  /\ e.complete => n > 0
        /\ \A k \in 1..n :
              /\ e.pages[k].request = request(k)
              /\ e.pages[k].rows = {} => k = n /\ e.complete
              /\ e.pages[k].rows # {} =>
                    /\ e.pages[k].oldest < e.pages[k].request
                    /\ e.pages[k].oldest < Start => k = n /\ e.complete
        /\ e.next = IF n = 0 THEN End
                    ELSE IF e.pages[n].rows = {} THEN e.pages[n].request ELSE e.pages[n].oldest
        /\ e.complete /\ e.pages[n].rows # {} => e.pages[n].oldest < Start

\* _evidence_from_state_payload and load_raw_pages: every page file is there.
Valid(e) == WalksBack(e) /\ \A k \in 1..Len(e.pages) : e.pages[k].rows \in disk.pages

\* _is_snapshot_prefix
Extends(tip, e) ==
    \/ e = tip
    \/ /\ Len(e.pages) < Len(tip.pages)
       /\ e.pages = SubSeq(tip.pages, 1, Len(e.pages))
       /\ ~e.complete
       /\ e.next = tip.pages[Len(e.pages) + 1].request

Candidates == {e \in disk.snapshots : Valid(e)}
Tips == {e \in Candidates : \A other \in Candidates : Len(other.pages) <= Len(e.pages)}

Ambiguous == Candidates # {} /\ \A tip \in Tips : \E e \in Candidates : ~Extends(tip, e)

\* _validate_checkpointless_paper_evidence
PaperRefuses == mode.strict /\ disk.checkpoint = NoEvidence /\ (disk.temporary \/ Ambiguous \/ Candidates # disk.snapshots)

\* load_collection_evidence, _recover_uncheckpointed_evidence
Refused ==
    IF disk.checkpoint # NoEvidence
    THEN disk.checkpoint \notin disk.snapshots \/ ~Valid(disk.checkpoint)
    ELSE Ambiguous \/ PaperRefuses

LoadEvidence ==
    IF disk.checkpoint # NoEvidence THEN disk.checkpoint
    ELSE IF Candidates = {} THEN NewEvidence
    ELSE CHOOSE tip \in Tips : TRUE

-----------------------------------------------------------------------------
\* The normalized view

Rows(e) == UNION {e.pages[k].rows : k \in 1..Len(e.pages)}

\* Seeded fault: the first candle of the range is cut off.
AfterStart(rows) == {r \in rows : Start < Time(r) /\ Time(r) <= End}

InRange(rows) == {r \in rows : Start <= Time(r) /\ Time(r) <= End}

\* _frame_from_pages: two rows of one time that differ are refused.
Conflict(e) == \E r, s \in InRange(Rows(e)) : Time(r) = Time(s) /\ r # s
Frame(e) == {Time(r) : r \in InRange(Rows(e))}

\* _validated_public_frame
Contiguous(e) == Frame(e) = Start..End - 1

\* Seeded fault: every caller demands the gapless interval.
AcceptedGapless(e) == ~Conflict(e) /\ Contiguous(e)

Accepted(e) == ~Conflict(e) /\ (mode.strict => Contiguous(e))

-----------------------------------------------------------------------------
\* The venue

Published == DOMAIN venue
Newest == Max(Published)

\* Rows of the answer to a request up to to.
Answer(to) ==
    LET before == {t \in Published : t < to \/ (mode.inclusive /\ t = to)}
    IN  {<<t, venue[t]>> : t \in {u \in before : Cardinality({w \in before : w > u}) < PageSize}}

Publish ==
    /\ \E t \in Missing \ Published : venue' = [u \in Published \cup {t} |-> IF u = t THEN 0 ELSE venue[u]]
    /\ UNCHANGED <<mode, disk, pc, ev, page, attempt, loaded, budget>>

\* The newest candle trades until it closes.
Change ==
    /\ budget.changes > 0
    /\ venue' = [venue EXCEPT ![Newest] = 1 - @]
    /\ budget' = [budget EXCEPT !.changes = @ - 1]
    /\ UNCHANGED <<mode, disk, pc, ev, page, attempt, loaded>>

-----------------------------------------------------------------------------
\* A call

\* The process goes on with what it holds, or the call ends and forgets it.
Goto(p, label, e, rows, n) ==
    /\ pc' = [pc EXCEPT ![p] = label]
    /\ ev' = [ev EXCEPT ![p] = e]
    /\ page' = [page EXCEPT ![p] = rows]
    /\ attempt' = [attempt EXCEPT ![p] = n]
Leave(p) == Goto(p, "idle", NewEvidence, {}, 0)

\* The walk goes on with its next page, or the call returns a frame or raises.
Walk(p, e) ==
    \/ ~e.complete /\ Goto(p, "fetch", e, {}, 0) /\ UNCHANGED loaded
    \/ e.complete /\ Leave(p) /\ loaded' = (loaded \/ Accepted(e))

\* The call begins: load what is on disk, return it when it is complete.
Call(p) ==
    /\ pc[p] = "idle" /\ ~loaded
    /\ ~Refused
    /\ Walk(p, LoadEvidence)
    /\ UNCHANGED <<mode, venue, disk, budget>>

\* fetch_page answers; a page that did not move backward ends the call.
FetchPage(p) ==
    /\ pc[p] = "fetch"
    /\ LET rows == Answer(ev[p].next)
           forward == rows # {} /\ Oldest(rows) >= ev[p].next
       IN  IF forward THEN Leave(p) ELSE Goto(p, "page", ev[p], rows, 0)
    /\ UNCHANGED <<mode, venue, disk, loaded, budget>>

\* A request fails; after the last one PublicDataUnavailable ends the call.
FetchFails(p) ==
    /\ pc[p] = "fetch"
    /\ budget.failures > 0
    /\ budget' = [budget EXCEPT !.failures = @ - 1]
    /\ IF attempt[p] + 1 = Attempts THEN Leave(p) ELSE Goto(p, "fetch", ev[p], {}, attempt[p] + 1)
    /\ UNCHANGED <<mode, venue, disk, loaded>>

NextTo(rows, request) == IF rows = {} THEN request ELSE Oldest(rows)

\* The evidence with the page added (persist_raw_page).
Advanced(e, rows) ==
    [pages |-> Append(e.pages, [rows |-> rows, request |-> e.next, oldest |-> Oldest(rows)]),
     next |-> NextTo(rows, e.next),
     complete |-> rows = {} \/ Oldest(rows) < Start]

WritePage(p) ==
    /\ pc[p] = "page"
    /\ disk' = [disk EXCEPT !.pages = @ \cup {page[p]}]
    /\ pc' = [pc EXCEPT ![p] = "snapshot"]
    /\ UNCHANGED <<mode, venue, ev, page, attempt, loaded, budget>>

\* Seeded fault: the checkpoint is written before the snapshot it names.
WriteCheckpointFirst(p) ==
    /\ pc[p] = "snapshot"
    /\ disk' = [disk EXCEPT !.checkpoint = Advanced(ev[p], page[p])]
    /\ pc' = [pc EXCEPT ![p] = "checkpoint"]
    /\ UNCHANGED <<mode, venue, ev, page, attempt, loaded, budget>>

WriteSnapshot(p) ==
    /\ pc[p] = "snapshot"
    /\ disk' = [disk EXCEPT !.snapshots = @ \cup {Advanced(ev[p], page[p])}]
    /\ pc' = [pc EXCEPT ![p] = "checkpoint"]
    /\ UNCHANGED <<mode, venue, ev, page, attempt, loaded, budget>>

WriteCheckpoint(p) ==
    /\ pc[p] = "checkpoint"
    /\ disk' = [disk EXCEPT !.checkpoint = Advanced(ev[p], page[p])]
    /\ Walk(p, Advanced(ev[p], page[p]))
    /\ UNCHANGED <<mode, venue, budget>>

Writing(p) == pc[p] \in {"page", "snapshot", "checkpoint"}

\* A write raises; its temporary file is removed (_atomic_write).
WriteFails(p) ==
    /\ Writing(p)
    /\ budget.failures > 0
    /\ budget' = [budget EXCEPT !.failures = @ - 1]
    /\ Leave(p)
    /\ UNCHANGED <<mode, venue, disk, loaded>>

\* The process is killed, perhaps while it writes its temporary file.
Kill(p) ==
    /\ pc[p] \notin {"off", "idle"}
    /\ budget.kills > 0
    /\ budget' = [budget EXCEPT !.kills = @ - 1]
    /\ \E left \in {FALSE, Writing(p)} : disk' = [disk EXCEPT !.temporary = @ \/ left]
    /\ Leave(p)
    /\ UNCHANGED <<mode, venue, loaded>>

-----------------------------------------------------------------------------
Init ==
    /\ mode \in [strict : BOOLEAN, inclusive : BOOLEAN]
    /\ venue = [t \in 0..End - 1 \ Missing |-> 0]
    /\ disk = [pages |-> {}, snapshots |-> {}, checkpoint |-> NoEvidence, temporary |-> FALSE]
    /\ pc \in [Procs -> {"off", "idle"}] /\ \E p \in Procs : pc[p] = "idle"
    /\ ev = [p \in Procs |-> NewEvidence]
    /\ page = [p \in Procs |-> {}]
    /\ attempt = [p \in Procs |-> 0]
    /\ loaded = FALSE
    /\ budget = [failures |-> MaxFailures, kills |-> MaxKills, changes |-> MaxChanges]

Step(p) == Call(p) \/ FetchPage(p) \/ WritePage(p) \/ WriteSnapshot(p) \/ WriteCheckpoint(p)
Fault(p) == FetchFails(p) \/ WriteFails(p) \/ Kill(p)
Next == Publish \/ Change \/ \E p \in Procs : Step(p) \/ Fault(p)

\* A caller tries again for as long as it has no frame (paper-run and systemd
\* do; the operator of data-download may), the venue answers some request, and a
\* late candle is published in the end.
Fairness == WF_vars(Publish) /\ \A p \in Procs : WF_vars(Step(p))
Spec == Init /\ [][Next]_vars /\ Fairness

-----------------------------------------------------------------------------
\* Properties

Pages == [rows : SUBSET ((0..End) \X {0, 1}), request : 0..End, oldest : -1..End]

\* The types of the variables.
TypeOK ==
    /\ Published \subseteq 0..End /\ \A t \in Published : venue[t] \in {0, 1}
    /\ \A p \in Procs : /\ pc[p] \in {"off", "idle", "fetch", "page", "snapshot", "checkpoint"}
                        /\ ev[p].pages \in Seq(Pages) /\ ev[p].next \in 0..End
                        /\ attempt[p] \in 0..Attempts - 1
    /\ disk.temporary \in BOOLEAN /\ loaded \in BOOLEAN

\* One process at most collects.
Alone == \A p, q \in Procs : pc[p] # "off" /\ pc[q] # "off" => p = q

\* Whatever was interrupted where, and by whichever process, what is on disk
\* loads: the checkpoint names a snapshot and pages that are there and describe
\* one walk, and without a checkpoint the snapshots form one chain
\* (persist_raw_page writes the page, then the snapshot, then the checkpoint).
\* Before the first checkpoint there are two exceptions: a temporary file that a
\* killed process left stops the paper source, and two processes can leave
\* snapshots of two walks.
Resumable ==
    Refused => /\ disk.checkpoint = NoEvidence
               /\ (mode.strict /\ disk.temporary) \/ (~Alone /\ Ambiguous)

\* Complete evidence holds every candle of the range that was on the venue all
\* along and nothing that was never there: no boundary between two pages loses
\* a candle (collect_evidence_range's next_to_utc).
NothingLost ==
    LET e == disk.checkpoint
    IN  e.complete => /\ (Published \ Missing) \cap (Start..End - 1) \subseteq Frame(e)
                      /\ Frame(e) \subseteq Published

\* The evidence on disk is sound whatever was killed, failed or ran beside it
\* (persist_raw_page, load_collection_evidence).
EvidenceSound == TypeOK /\ Resumable /\ NothingLost

\* The walk went past a candle that was published late, and is complete without
\* it: a complete walk is never fetched again.
WentPast == mode.strict /\ LoadEvidence.complete /\ ~Contiguous(LoadEvidence)

\* A frame is loaded in the end: an interrupted or failed collection is resumed
\* and finished by a later call, unless it is stuck in one of the ways above.
LoadedInTheEnd == <>(loaded \/ Refused \/ WentPast)
=============================================================================
