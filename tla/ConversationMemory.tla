--------------------------- MODULE ConversationMemory ---------------------------
(***************************************************************************)
(* The memory of the conversations with one peer in one project: a file of *)
(* recent exchanges and a summary of older ones for each session, and      *)
(* meta.json, which names the active session.                              *)
(*                                                                         *)
(* The daemon's loops append exchanges and render a prompt's context, its  *)
(* ask and debate handlers resolve the session to ask in, and commands at  *)
(* a terminal create, select and reset sessions.  None takes a lock, each  *)
(* reads and rewrites whole files, and any may be killed or meet an I/O    *)
(* error in between.  A file that is being written is empty for a moment:  *)
(* a reader may find it so, and a writer that fails may leave it so.       *)
(***************************************************************************)
EXTENDS Naturals, Sequences, FiniteSets, SequencesExt

CONSTANTS
    Actors,       \* what is under way at once, in the daemon and at terminals
    Sessions,     \* session ids
    Absent,       \* no session; no file
    Limit,        \* MAX_EXCHANGES_BEFORE_COMPRESSION
    Keep,         \* MAX_RECENT_EXCHANGES
    SummaryMax,   \* exchanges that MAX_SUMMARY_CHARS leave in a summary
    MaxExchanges, \* bound: exchanges made
    MaxFailures   \* bound: actors that fail

ASSUME MemoryAssumption ==
    /\ Absent \notin Sessions /\ Absent \notin Seq(Nat)
    /\ Limit \in Nat /\ Keep \in 1..Limit
    /\ SummaryMax \in Nat /\ MaxExchanges \in Nat /\ MaxFailures \in Nat

VARIABLES
    active,    \* meta.json: the active session
    file,      \* <session>.jsonl
    summary,   \* <session>.summary.txt
    used,      \* ids given to a session, here or by the peer
    actor,     \* what each actor is doing
    exchanges, \* those that have been made; they are numbered in their order
    failures,  \* history: counted up to MaxFailures
    log,       \* history: the exchanges appended to each session since its last reset
    twice,     \* history: sessions with an append cut between its two writes
    harmed     \* history: sessions with overlapping changes, or a file or reset cut short

files == <<active, file, summary>>
history == <<failures, log, twice, harmed>>
memoryVars == <<files, used, actor, exchanges, history>>

IdleActor == [pc |-> "idle", at |-> Absent, exchange |-> 0, list |-> <<>>, sum |-> <<>>]

MemoryInit ==
    /\ active = Absent
    /\ file = [s \in Sessions |-> Absent]
    /\ summary = [s \in Sessions |-> Absent]
    /\ used = {}
    /\ actor = [a \in Actors |-> IdleActor]
    /\ exchanges = 0 /\ failures = 0
    /\ log = [s \in Sessions |-> <<>>]
    /\ twice = {} /\ harmed = {}

Contents(f) == IF f = Absent THEN <<>> ELSE f

Appending == {"fold", "summary", "write", "rewrite"}
Resetting == {"resetSummary"}
Changes(a, s) == actor[a].at = s /\ actor[a].pc \in Appending \cup Resetting
ChangedByOther(a, s) == \E b \in Actors \ {a} : Changes(b, s)

\* What a finds in a file: nothing, if another is writing it.
Found(a, s, f, pcs) ==
    {Contents(f)} \cup {<<>> : b \in {b \in Actors \ {a} : actor[b].at = s /\ actor[b].pc \in pcs}}

At(a, pc) == actor[a].pc = pc
GoTo(a, pc) == actor' = [actor EXCEPT ![a].pc = pc]
End(a) == actor' = [actor EXCEPT ![a] = IdleActor]

-----------------------------------------------------------------------------
(* Sessions *)

\* resolve_session, up to its save: the session requested, a new one, or the active one.
Chosen(a, requested, startNew) ==
    LET found == {active} \cup {Absent : b \in {b \in Actors \ {a} : At(b, "save")}}
        fresh == Sessions \ used
    IN  IF requested # Absent THEN {requested}
        ELSE UNION {IF startNew \/ s = Absent THEN fresh ELSE {s} : s \in found}

Resolve(a, requested, startNew, exchange) ==
    /\ At(a, "idle")
    /\ \E s \in Chosen(a, requested, startNew) :
          /\ actor' = [actor EXCEPT ![a] = [IdleActor EXCEPT !.pc = "save", !.at = s,
                                                             !.exchange = exchange]]
          /\ used' = used \cup {s}
    /\ UNCHANGED <<files, history>>

\* create_session, and an ask or debate, which may ask for a new session.
ResolveForAsk(a) ==
    /\ \E startNew \in BOOLEAN : Resolve(a, Absent, startNew, 0)
    /\ UNCHANGED exchanges

\* render_context, for the session an inbound message names, or for the active one.
Render(a) == (\E s \in Sessions \cup {Absent} : Resolve(a, s, FALSE, 0)) /\ UNCHANGED exchanges

\* use_session.
Use(a, s) ==
    /\ file[s] # Absent \/ summary[s] # Absent
    /\ Resolve(a, s, FALSE, 0)
    /\ UNCHANGED exchanges

\* append_exchange: by the loop that has run a message, and by the one that stores an answer.
AppendExchange(a) ==
    /\ exchanges < MaxExchanges
    /\ exchanges' = exchanges + 1
    /\ \E s \in Sessions \cup {Absent} : Resolve(a, s, FALSE, exchanges + 1)

\* The resolved session is made the active one.
SaveMeta(a) ==
    /\ At(a, "save")
    /\ active' = actor[a].at
    /\ IF actor[a].exchange = 0 THEN End(a) ELSE GoTo(a, "load")
    /\ UNCHANGED <<file, summary, used, exchanges, history>>

-----------------------------------------------------------------------------
(* append_exchange *)

Older(q) == SubSeq(q, 1, Len(q) - Keep)

\* Mutant of Recent: one exchange fewer than is left out of the summary.
RecentOneLess(q) == IF Len(q) <= Keep THEN q ELSE SubSeq(q, Len(q) - Keep + 2, Len(q))

Recent(q) == IF Len(q) <= Keep THEN q ELSE SubSeq(q, Len(q) - Keep + 1, Len(q))

\* summarize_exchanges: the older ones after what there is; only the end of it fits.
Summarized(old, older) ==
    LET all == old \o older
    IN  IF Len(all) <= SummaryMax THEN all
        ELSE SubSeq(all, Len(all) - SummaryMax + 1, Len(all))

\* The exchange is added to those of the file; too many, or too long ones, are folded.
Load(a) ==
    LET s == actor[a].at IN
    /\ At(a, "load")
    /\ \E found \in Found(a, s, file[s], {"write", "rewrite"}), long \in BOOLEAN :
          LET list == Append(found, actor[a].exchange)
          IN  actor' = [actor EXCEPT ![a].list = list,
                             ![a].pc = IF Len(list) > Limit \/ long THEN "fold" ELSE "write"]
    /\ harmed' = IF ChangedByOther(a, s) THEN harmed \cup {s} ELSE harmed
    /\ UNCHANGED <<files, used, exchanges, failures, log, twice>>

ReadSummary(a) ==
    LET s == actor[a].at IN
    /\ At(a, "fold")
    /\ \E found \in Found(a, s, summary[s], {"summary"}) :
          actor' = [actor EXCEPT ![a].pc = "summary", ![a].sum = found]
    /\ UNCHANGED <<files, used, exchanges, history>>

\* What is written to a file that was removed under its writer is gone.
WriteSummary(a) ==
    LET s == actor[a].at
        list == actor[a].list
    IN
    /\ At(a, "summary")
    /\ \/ summary' = [summary EXCEPT ![s] = Summarized(actor[a].sum, Older(list))]
       \/ summary[s] = Absent /\ s \in harmed /\ UNCHANGED summary
    /\ actor' = [actor EXCEPT ![a].pc = "rewrite", ![a].list = Recent(list), ![a].sum = <<>>]
    /\ UNCHANGED <<active, file, used, exchanges, history>>

WriteExchanges(a) ==
    LET s == actor[a].at IN
    /\ At(a, "write") \/ At(a, "rewrite")
    /\ \/ file' = [file EXCEPT ![s] = actor[a].list]
       \/ file[s] = Absent /\ s \in harmed /\ UNCHANGED file
    /\ log' = [log EXCEPT ![s] = Append(@, actor[a].exchange)]
    /\ End(a)
    /\ UNCHANGED <<active, summary, used, exchanges, failures, twice, harmed>>

-----------------------------------------------------------------------------
(* Resets *)

\* list_sessions: those with a file of exchanges, and the active one.
Listed == {s \in Sessions : file[s] # Absent} \cup ({active} \ {Absent})

\* reset_session removes the exchanges ...
Reset(a, s) ==
    /\ At(a, "idle")
    /\ file' = [file EXCEPT ![s] = Absent]
    /\ actor' = [actor EXCEPT ![a] = [IdleActor EXCEPT !.pc = "resetSummary", !.at = s]]
    /\ log' = [log EXCEPT ![s] = <<>>]
    /\ twice' = twice \ {s}
    /\ harmed' = IF ChangedByOther(a, s) THEN harmed \cup {s} ELSE harmed \ {s}
    /\ UNCHANGED <<active, summary, used, exchanges, failures>>

\* ... then the summary ...
ResetSummary(a) ==
    /\ At(a, "resetSummary")
    /\ summary' = [summary EXCEPT ![actor[a].at] = Absent]
    /\ GoTo(a, "resetMeta")
    /\ UNCHANGED <<active, file, used, exchanges, history>>

\* ... and if it was the active one, makes the first of the others active.
ResetMeta(a) ==
    /\ At(a, "resetMeta")
    /\ LET others == Listed \ {actor[a].at} IN
       IF active # actor[a].at THEN End(a)
       ELSE \E s \in IF others = {} THEN {Absent} ELSE others :
               actor' = [actor EXCEPT ![a] = [IdleActor EXCEPT !.pc = "save", !.at = s]]
    /\ UNCHANGED <<files, used, exchanges, history>>

\* reset_all_sessions removes the directory.
ResetAll(a) ==
    /\ At(a, "idle")
    /\ active' = Absent
    /\ file' = [s \in Sessions |-> Absent]
    /\ summary' = [s \in Sessions |-> Absent]
    /\ log' = [s \in Sessions |-> <<>>]
    /\ twice' = {}
    /\ harmed' = {s \in Sessions : ChangedByOther(a, s)}
    /\ UNCHANGED <<used, actor, exchanges, failures>>

-----------------------------------------------------------------------------
(* Failures: an I/O error, or the end of the process *)

Failure == failures < MaxFailures /\ failures' = failures + 1

\* Before it has written anything that counts, or between the two writes of a fold.
Fail(a) ==
    /\ Failure
    /\ actor[a].pc \in {"save", "load", "fold", "summary", "write", "rewrite", "resetMeta"}
    /\ twice' = IF At(a, "rewrite") THEN twice \cup {actor[a].at} ELSE twice
    /\ End(a)
    /\ UNCHANGED <<files, used, exchanges, log, harmed>>

\* In the midst of a write, or of a reset.
FailWriting(a) ==
    LET s == actor[a].at IN
    /\ Failure
    /\ \/ /\ At(a, "save")
          /\ active' = Absent
          /\ UNCHANGED <<file, summary, harmed>>
       \/ /\ At(a, "summary")
          /\ summary' = [summary EXCEPT ![s] = <<>>]
          /\ harmed' = harmed \cup {s}
          /\ UNCHANGED <<active, file>>
       \/ /\ At(a, "write") \/ At(a, "rewrite")
          /\ file' = [file EXCEPT ![s] = <<>>]
          /\ harmed' = harmed \cup {s}
          /\ UNCHANGED <<active, summary>>
       \/ /\ At(a, "resetSummary")
          /\ harmed' = harmed \cup {s}
          /\ UNCHANGED files
    /\ End(a)
    /\ UNCHANGED <<used, exchanges, log, twice>>

Step(a) ==
    \/ ResolveForAsk(a) \/ Render(a) \/ (\E s \in Sessions : Use(a, s) \/ Reset(a, s))
    \/ AppendExchange(a) \/ SaveMeta(a) \/ Load(a) \/ ReadSummary(a) \/ WriteSummary(a)
    \/ WriteExchanges(a) \/ ResetSummary(a) \/ ResetMeta(a) \/ ResetAll(a)
    \/ Fail(a) \/ FailWriting(a)

MemoryNext == \E a \in Actors : Step(a)

MemorySpec == MemoryInit /\ [][MemoryNext]_memoryVars

-----------------------------------------------------------------------------
(* Properties *)

\* A session that nobody is changing, in which no two changes have overlapped and no write
\* or reset was cut short since its last reset, remembers what was appended to it, in order:
\* its file holds the latest exchanges, and its summary the older ones, as many as fit.  An
\* append that ended between its two writes makes exchanges appear twice, and loses none.
MemoryKept ==
    \A s \in Sessions \ harmed :
        (\A a \in Actors : ~Changes(a, s)) =>
            LET recent == Contents(file[s])
                older == Contents(summary[s])
                all == older \o recent
            IN  /\ IsSuffix(recent, log[s])
                /\ Len(recent) <= Limit
                /\ Len(older) < SummaryMax => ToSet(log[s]) \subseteq ToSet(all)
                /\ s \notin twice => IsSuffix(all, log[s])
=============================================================================
