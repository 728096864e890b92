------------------------------ MODULE TraceFilter ------------------------------
(***************************************************************************)
(* The filter of a trace session (matchTrace), and a user who narrows a    *)
(* trace: reopens it with one more of its four filters.                    *)
(***************************************************************************)
EXTENDS Naturals

CONSTANTS
  Words,    \* what a path or a function name is searched for
  Methods,  \* request methods
  Codes     \* response status codes

ASSUME CodesAssumption == Codes \subseteq Nat \ {0}

NoWord == ""

ASSUME WordsAssumption == NoWord \notin Words \cup Methods

VARIABLES
  opts,    \* the filters of the session, TraceRequest
  trace    \* a call MinIO traced: words its path and function name contain

traceVars == <<opts, trace>>

NoFilter == [path |-> NoWord, statusCode |-> 0, method |-> NoWord, funcName |-> NoWord]

Traces == [path : SUBSET Words, statusCode : Codes, method : Methods,
           funcName : SUBSET Words]

TraceInit == opts = NoFilter /\ trace \in Traces

\* The user reopens the trace with one more filter, in a field that had none.
AddFilter ==
  /\ \/ \E w \in Words : opts.path = NoWord /\ opts' = [opts EXCEPT !.path = w]
     \/ \E c \in Codes : opts.statusCode = 0 /\ opts' = [opts EXCEPT !.statusCode = c]
     \/ \E m \in Methods : opts.method = NoWord /\ opts' = [opts EXCEPT !.method = m]
     \/ \E w \in Words : opts.funcName = NoWord /\ opts' = [opts EXCEPT !.funcName = w]
  /\ UNCHANGED trace

TraceSpec == TraceInit /\ [][AddFilter]_traceVars

-----------------------------------------------------------------------------
(* matchTrace. *)

\* Mutated form of matchTrace: without a filter, no trace is shown.
MatchesFirst(o, t) ==
  \/ o.path # NoWord /\ o.path \in t.path
  \/ o.path = NoWord /\ o.statusCode > 0 /\ t.statusCode = o.statusCode
  \/ o.path = NoWord /\ o.statusCode = 0 /\ o.method = t.method
  \/ o.path = NoWord /\ o.statusCode = 0 /\ o.method = NoWord /\ o.funcName \in t.funcName

\* Each filter that is passed returns its own answer; the ones after it are not
\* looked at.
matchTrace(o, t) ==
  IF o.path # NoWord THEN o.path \in t.path
  ELSE IF o.statusCode > 0 THEN t.statusCode = o.statusCode
  ELSE IF o.method # NoWord THEN t.method = o.method
  ELSE o.funcName # NoWord => o.funcName \in t.funcName

-----------------------------------------------------------------------------
MatchesEach(o, t) ==
  /\ o.path # NoWord => o.path \in t.path
  /\ o.statusCode # 0 => t.statusCode = o.statusCode
  /\ o.method # NoWord => t.method = o.method
  /\ o.funcName # NoWord => o.funcName \in t.funcName

\* Nothing that satisfies every filter passed is left out of the trace.
NothingMissing == MatchesEach(opts, trace) => matchTrace(opts, trace)
=============================================================================
