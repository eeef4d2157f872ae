-------------------------- MODULE FederationKernel --------------------------
(***************************************************************************)
(* federation_kernel.py as its command line uses it: every call is a       *)
(* process with a kernel of its own, several may be alive at once, and all *)
(* of them append to one trace file that outlives them.  A process that    *)
(* finds no file makes one in a second step, with open(path, "w"), which   *)
(* wipes what others wrote in between.  A line that a process could not    *)
(* write to the end (the disk is full) has no newline, so that the next    *)
(* line is glued to it.                                                    *)
(***************************************************************************)
EXTENDS Naturals, Sequences, FiniteSets

CONSTANTS Processes,  \* the processes that may be alive at a time
          Intents,    \* records [forbidden, words, atom, acos, aabs]: keyword hits
          Modes,      \* what --mode may say: a domain, or "none"
          MaxLines,   \* bound: lines written
          MaxStarts   \* bound: nobody starts once so many kernels were made

VARIABLES kernel,     \* process -> its FederationKernel, Absent or Opening
          started,    \* kernels made so far: each one is a life of its own
          onDisk,     \* is there a trace file?
          trace,      \* the lines ever written: whole ones and torn ones
          wiped       \* how many of them a late open(path, "w") took from the file
fkvars == <<kernel, started, onDisk, trace, wiped>>

Absent == [alive |-> FALSE]
\* The process saw that there is no file and is about to make it.
Opening == [alive |-> FALSE, opening |-> TRUE]
NoHash == 0

\* The lines of the file, by their numbers in trace.
InFile == {n \in DOMAIN trace : n > wiped}

\* __init__: the hash of the previous line starts empty, whatever the file holds.
FreshKernel(life) ==
  [alive |-> TRUE, life |-> life, prev |-> NoHash, total |-> 0, vetoed |-> 0, seen |-> 0]

\* route: the domain with most keywords; ATOM wins a tie, then ACOS.
Route(i) == IF i.atom >= i.acos /\ i.atom >= i.aabs THEN "ATOM"
            ELSE IF i.acos >= i.aabs THEN "ACOS" ELSE "AABS"

\* level: what the words say first, then the domain.
Level(i, domain) == CASE i.words = "critical" -> "CRITICAL" [] i.words = "high" -> "HIGH"
                      [] OTHER -> IF domain = "AABS" THEN "MEDIUM" ELSE "LOW"

Assess(i) == IF i.forbidden THEN "VETO" ELSE "PASS"

\* The engines only say what they would do.
Answer(domain) == CASE domain = "ATOM" -> "planned" [] domain = "ACOS" -> "computed"
                    [] OTHER -> "action_scheduled"

\* append: the line carries the hash the process last wrote, and is the hash of
\* its own number here.
AppendLine(p, i, domain, verdict, result) ==
  trace' = Append(trace, [whole |-> TRUE, hash |-> Len(trace) + 1, prev |-> kernel[p].prev,
                          life |-> kernel[p].life, verdict |-> verdict, domain |-> domain,
                          level |-> Level(i, domain), result |-> result])

Booked(p, verdict) ==
  [kernel[p] EXCEPT !.prev = Len(trace) + 1, !.total = @ + 1,
                    !.vetoed = @ + IF verdict = "VETO" THEN 1 ELSE 0]

\* Mutant of RecordedLine: a vetoed message is written but its hash is forgotten.
RecordedButVetoed(p, verdict) ==
  [Booked(p, verdict) EXCEPT !.prev = IF verdict = "VETO" THEN kernel[p].prev ELSE @]

RecordedLine(p, verdict) == Booked(p, verdict)

Alive(p) == /\ started' = started + 1
            /\ kernel' = [kernel EXCEPT ![p] = FreshKernel(started')]

\* Mutant of FindsFile: the file is opened anew whatever is there.
NeverFinds == FALSE

\* FederationTrace.__init__: os.path.exists, ...
FindsFile == onDisk
Starts(p) ==
  /\ kernel[p] = Absent /\ started < MaxStarts
  /\ IF FindsFile THEN Alive(p) ELSE kernel' = [kernel EXCEPT ![p] = Opening] /\ UNCHANGED started
  /\ UNCHANGED <<onDisk, trace, wiped>>

\* ... then open(path, "w"), whatever the file holds by now.
Opens(p) ==
  /\ kernel[p] = Opening
  /\ Alive(p)
  /\ onDisk' = TRUE /\ wiped' = Len(trace)
  /\ UNCHANGED trace

\* run: a veto, a plan (plan_only) or the engine of the domain; one line each.
RunIntent(p) ==
  /\ kernel[p].alive /\ Len(trace) < MaxLines
  /\ \E i \in Intents, mode \in Modes, planOnly \in BOOLEAN :
       LET domain == IF mode = "none" THEN Route(i) ELSE mode
           verdict == Assess(i)
           result == IF verdict = "VETO" THEN "none" ELSE IF planOnly THEN "planned"
                     ELSE Answer(domain)
       IN /\ AppendLine(p, i, domain, verdict, result)
          /\ kernel' = [kernel EXCEPT ![p] = RecordedLine(p, verdict)]
  /\ UNCHANGED <<started, onDisk, wiped>>

\* The write fails half way: run raises and the command line ends.
RunTearsLine(p) ==
  /\ kernel[p].alive /\ Len(trace) < MaxLines
  /\ trace' = Append(trace, [whole |-> FALSE, life |-> kernel[p].life])
  /\ kernel' = [kernel EXCEPT ![p] = Absent]
  /\ UNCHANGED <<started, onDisk, wiped>>

\* get_recent and summary (health, --audit): every line is parsed, and one that
\* cannot be parsed raises and ends the call.
Readable(n) == trace[n].whole /\ (n - 1 \in InFile => trace[n - 1].whole)
ReadTrace(p) ==
  /\ kernel[p].alive
  /\ kernel' = [kernel EXCEPT ![p] =
       IF \A n \in InFile : Readable(n) THEN [kernel[p] EXCEPT !.seen = Cardinality(InFile)]
       ELSE Absent]
  /\ UNCHANGED <<started, onDisk, trace, wiped>>

\* Or the process is killed, before it has a kernel too.
Exits(p) ==
  /\ kernel[p] # Absent
  /\ kernel' = [kernel EXCEPT ![p] = Absent]
  /\ UNCHANGED <<started, onDisk, trace, wiped>>

FkInit == /\ kernel = [p \in Processes |-> Absent] /\ started = 0
          /\ onDisk \in BOOLEAN /\ trace = <<>> /\ wiped = 0
FkNext == \E p \in Processes :
  Starts(p) \/ Opens(p) \/ RunIntent(p) \/ RunTearsLine(p) \/ ReadTrace(p) \/ Exits(p)
FkSpec == FkInit /\ [][FkNext]_fkvars

(***************************************************************************)
(* Properties.                                                             *)
(***************************************************************************)
LinesOf(life) == {n \in DOMAIN trace : trace[n].whole /\ trace[n].life = life}
LastLine(s) == CHOOSE n \in s : \A m \in s : m <= n

\* The chain holds within the life of a process and only there: a line names the
\* latest line of the same process, however the lines of others come in between,
\* and the first one of a process names none (federation_kernel.py:194).  The line
\* it names may be gone from the file (lines 120-121), never another's in its place.
ChainPerProcess == \A n \in InFile : trace[n].whole =>
  LET before == {m \in LinesOf(trace[n].life) : m < n}
  IN trace[n].prev = IF before = {} THEN NoHash ELSE trace[LastLine(before)].hash

\* A living kernel holds the hash of its own latest line and has counted all it
\* wrote, also what another process wiped from the file since.
KernelKnowsItsLines == \A p \in Processes : kernel[p].alive =>
  LET mine == LinesOf(kernel[p].life)
  IN /\ kernel[p].total = Cardinality(mine)
     /\ kernel[p].vetoed = Cardinality({n \in mine : trace[n].verdict = "VETO"})
     /\ kernel[p].prev = IF mine = {} THEN NoHash ELSE trace[LastLine(mine)].hash

\* Only what was not vetoed has a result, and a torn line costs the line behind
\* it and the readers, never the writers' chain.
TraceHolds ==
  /\ ChainPerProcess /\ KernelKnowsItsLines
  /\ \A n \in DOMAIN trace : trace[n].whole => (trace[n].result = "none") = (trace[n].verdict = "VETO")

\* Lines are lost only while processes overlap that all saw no file: once there is
\* one and nobody is about to make it, what is written stays, whoever starts, is
\* killed or starts again (federation_kernel.py:118-121).
Settled == onDisk /\ \A p \in Processes : kernel[p] # Opening
WrittenStays == [][Settled => Settled' /\ wiped' = wiped]_fkvars
=============================================================================
