------------------------------- MODULE WsStream -------------------------------
(***************************************************************************)
(* The sessions that forward what MinIO reports: trace, console log, watch *)
(* and the single answer of health-info. A producer goroutine of the MinIO *)
(* client hands records over an unbuffered channel; the session's goroutine*)
(* selects between that channel and the context the reader cancels, and    *)
(* writes one text frame per record (per event of the batch for watch).    *)
(***************************************************************************)
EXTENDS WsConn

CONSTANTS
  MaxItems,   \* records the producer makes (a bound of the model)
  MaxBatch    \* events in one notification of watch

ASSUME BoundsAssumption == MaxItems \in Nat /\ MaxBatch \in Nat \ {0}

VARIABLES
  step,       \* where the session's body is
  prod,       \* the producer: "none", "ready", "offering", "done"
  offer,      \* what it is sending, or sent last
  made,       \* records made so far
  doneChan,   \* close(wo.DoneChan) was called
  taken,      \* records received that are to be forwarded (history)
  pending,    \* those of them not yet written
  met         \* the error the session's body met, "nil" if none (history)

streamVars == <<step, prod, offer, made, doneChan, taken, pending, met>>
vars == <<connVars, streamVars>>

NoOffer == [kind |-> "none", ids |-> <<>>]

\* What can come over the channel: a record, for trace one that matchTrace
\* drops, for watch a batch of events, or an error.
RecordsFrom(n) ==
  {[kind |-> "records", ids |-> [i \in 1..k |-> n + i]] :
     k \in 1..(IF api = "watch" THEN MaxBatch ELSE 1)}
Offers ==
  RecordsFrom(made)
    \cup {[kind |-> k, ids |-> <<>>] : k \in {"error", "timeout"}}
    \cup (IF api = "trace" THEN {[kind |-> "filtered", ids |-> <<>>]} ELSE {})

TypeOK ==
  /\ ConnTypeOK
  /\ text \in Seq(Nat)
  /\ step \in {"call", "select", "write", "returned"}
  /\ prod \in {"none", "ready", "offering", "done"}
  /\ offer \in [kind : {"none", "records", "filtered", "error", "timeout"},
                ids : Seq(Nat)]
  /\ made \in Nat
  /\ doneChan \in BOOLEAN
  /\ taken \in Seq(Nat)
  /\ pending \in Seq(Nat)
  /\ met \in Results

Init ==
  /\ ConnInit
  /\ step = "call"
  /\ prod = "none"
  /\ offer = NoOffer
  /\ made = 0
  /\ doneChan = FALSE
  /\ taken = <<>>
  /\ pending = <<>>
  /\ met = "nil"

-----------------------------------------------------------------------------
(* The producer: goroutines of madmin-go and mc, external. *)

Streams == {"trace", "console", "watch"}

ProducerOffers ==
  /\ prod = "ready"
  /\ made < MaxItems
  /\ offer' \in Offers
  /\ made' = made + Len(offer'.ids)
  /\ prod' = "offering"
  /\ UNCHANGED <<connVars, step, doneChan, taken, pending, met>>

\* The server ends the stream.
ProducerEnds ==
  /\ prod = "ready"
  /\ prod' = "done"
  /\ UNCHANGED <<connVars, step, offer, made, doneChan, taken, pending, met>>

\* The context, or the watch's done channel, ends the producer between two
\* sends; the producers of trace and console log also give up a send.
ProducerReleased ==
  /\ canceled \/ doneChan
  /\ prod = "ready" \/ (prod = "offering" /\ api # "watch")
  /\ prod' = "done"
  /\ UNCHANGED <<connVars, step, offer, made, doneChan, taken, pending, met>>

-----------------------------------------------------------------------------
(* The body of the session. *)

Return(r) ==
  /\ ReturnBody(r)
  /\ step' = "returned"
  /\ met' = IF r = "nil" THEN met ELSE r

\* serviceTrace and getLogs start their producer; watch may fail to.
Subscribe ==
  /\ hpc = "run" /\ step = "call" /\ api \in Streams
  /\ \/ /\ prod' = "ready"
        /\ step' = "select"
        /\ UNCHANGED <<hpc, result, met>>
     \/ /\ api = "watch"
        /\ \E r \in {"error", "timeout"} : Return(r)
        /\ UNCHANGED prod
  /\ UNCHANGED <<request, api, reader, canceled, peer, closed, text, closeCode,
                 unread, offer, made, doneChan, taken, pending>>

\* startHealthInfo: one call, bounded by its deadline, and one message.
CallHealthInfo ==
  /\ hpc = "run" /\ step = "call" /\ api = "health-info"
  /\ \/ /\ step' = "write"
        /\ taken' = <<1>>
        /\ pending' = <<1>>
        /\ UNCHANGED <<hpc, result, met>>
     \/ /\ \E r \in {"error", "timeout"} : Return(r)
        /\ UNCHANGED <<taken, pending>>
  /\ UNCHANGED <<request, api, reader, canceled, peer, closed, text, closeCode,
                 unread, prod, offer, made, doneChan>>

\* case <-ctx.Done(); watch also closes the channel its producer waits on.
SelectDone ==
  /\ hpc = "run" /\ step = "select"
  /\ canceled
  /\ Return("nil")
  /\ doneChan' = (api = "watch")
  /\ UNCHANGED <<request, api, reader, canceled, peer, closed, text, closeCode,
                 unread, prod, offer, made, taken, pending>>

\* A case of the channel whose producer has closed it.
SelectClosed ==
  /\ hpc = "run" /\ step = "select"
  /\ prod = "done"
  /\ Return("nil")
  /\ UNCHANGED <<request, api, reader, canceled, peer, closed, text, closeCode,
                 unread, prod, offer, made, doneChan, taken, pending>>

\* Mutated form of TakeError: the Err field of the record is not looked at.
SkipError(o) ==
  /\ o.kind \in {"error", "timeout"}
  /\ met' = o.kind
  /\ UNCHANGED <<hpc, result, step, taken, pending>>

TakeError(o) ==
  /\ o.kind \in {"error", "timeout"}
  /\ Return(o.kind)
  /\ UNCHANGED <<taken, pending>>

TakeRecords(o) ==
  /\ o.kind = "records"
  /\ taken' = taken \o o.ids
  /\ pending' = o.ids
  /\ step' = "write"
  /\ UNCHANGED <<hpc, result, met>>

DropFiltered(o) ==
  /\ o.kind = "filtered"
  /\ UNCHANGED <<hpc, result, met, step, taken, pending>>

SelectItem ==
  /\ hpc = "run" /\ step = "select"
  /\ prod = "offering"
  /\ prod' = "ready"
  /\ TakeRecords(offer) \/ DropFiltered(offer) \/ TakeError(offer)
  /\ UNCHANGED <<request, api, reader, canceled, peer, closed, text, closeCode,
                 unread, offer, made, doneChan>>

\* Mutated form of AfterWrite: back to select after the first event of a batch.
AfterFirstWrite(rest) ==
  IF api = "health-info" THEN Return("nil")
  ELSE /\ step' = "select"
       /\ UNCHANGED <<hpc, result, met>>

AfterWrite(rest) ==
  IF rest # <<>> THEN UNCHANGED <<hpc, result, met, step>>
  ELSE IF api = "health-info" THEN Return("nil")
  ELSE /\ step' = "select"
       /\ UNCHANGED <<hpc, result, met>>

WriteRecord ==
  /\ hpc = "run" /\ step = "write"
  /\ WriteText(Head(pending))
  /\ pending' = Tail(pending)
  /\ AfterWrite(Tail(pending))
  /\ UNCHANGED <<request, api, reader, canceled, peer, closed, prod, offer,
                 made, doneChan, taken>>

\* Mutated form of WriteRecordFails: the loop goes on after a failed write.
WriteRecordRetries ==
  /\ hpc = "run" /\ step = "write"
  /\ WriteFails
  /\ met' = "error"
  /\ UNCHANGED <<connVars, step, prod, offer, made, doneChan, taken, pending>>

WriteRecordFails ==
  /\ hpc = "run" /\ step = "write"
  /\ WriteFails
  /\ \E r \in {"error", "timeout"} : Return(r)
  /\ UNCHANGED <<request, api, reader, canceled, peer, closed, text, closeCode,
                 unread, prod, offer, made, doneChan, taken, pending>>

-----------------------------------------------------------------------------
Body ==
  \/ Subscribe
  \/ CallHealthInfo
  \/ SelectDone
  \/ SelectClosed
  \/ SelectItem
  \/ WriteRecord
  \/ WriteRecordFails

Handler == Body \/ (SessionStep /\ UNCHANGED streamVars)

Next ==
  \/ ServeWS /\ UNCHANGED streamVars
  \/ Handler
  \/ ReadFails /\ UNCHANGED streamVars
  \/ PeerStep /\ UNCHANGED streamVars
  \/ ProducerOffers
  \/ ProducerEnds
  \/ ProducerReleased

Spec == Init /\ [][Next]_vars

\* The goroutines run when they can; a browser reads what it is sent, and the
\* producer notices its context. Nothing obliges a browser to leave or a
\* server to report.
Fairness ==
  /\ WF_vars(Handler)
  /\ WF_vars(ReadFails /\ UNCHANGED streamVars)
  /\ WF_vars(PeerRead /\ UNCHANGED streamVars)
  /\ WF_vars(ProducerReleased)

FairSpec == Spec /\ Fairness
-----------------------------------------------------------------------------
(* Properties. *)

\* What was received is what was written followed by what is still to be
\* written: a batch is not cut short, repeated or overtaken by the next one
\* (startWatch's loop over the events of a notification).
ForwardedInOrder == taken = text \o pending

\* The close frame says what the session's body met: a fault is never reported
\* as a normal end, nor a normal end as a fault, whatever the reader and the
\* peer do meanwhile (sendWsCloseMessage).
ClosesTruthfully ==
  /\ closeCode = "normal" => met = "nil"
  /\ closeCode = "policy" => met = "timeout"
  /\ closeCode = "internal" => met = "error"

\* The session keeps the promise made to the browser.
Contract == INSTANCE StreamContract
ContractSpec == Contract!Spec

\* A session that has something to say ends up saying it: the browser is sent
\* a close frame unless it left first.
CloseFrameSent == hpc = "closing" ~> (closeCode # "none" \/ peer = "gone")

\* Nobody is left behind: once the browser left, the goroutine of the session
\* ends, stuck neither in select nor in a write; once the session ended for a
\* reason of its own, closing the connection ends the reader, which cancels the
\* context; and with the context the producers of trace and console log end.
\* (The producer of watch may hang in a send that nobody receives: see
\* startWatch, which returns on an error without closing DoneChan.)
NobodyLeftBehind ==
  /\ canceled ~> hpc = "done"
  /\ (hpc = "done" /\ reader = "reading") ~> canceled
  /\ (hpc = "done" /\ api \in {"trace", "console"} /\ prod # "none") ~> prod = "done"
=============================================================================
