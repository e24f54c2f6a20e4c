---------------------------- MODULE ZmodemEngine ----------------------------
(***************************************************************************)
(* The two roles of the ZMODEM engine, Send and Receive                    *)
(* (src/internal/adapter/out/zmodem), joined by a line as the loopback     *)
(* tests join them.  The line keeps the order of what it carries; what     *)
(* else it may do is chosen once, as the variable `line`.                  *)
(*                                                                         *)
(* A frame is a header or a data subpacket.  A file is the sequence of its *)
(* blocks (subpacketMaxLen bytes each), a position counts blocks.  What    *)
(* nobody reads (the position in ZDATA, ZEOF and ZACK) is left out.        *)
(***************************************************************************)
EXTENDS Integers, Sequences

CONSTANTS Sizes,        \* the files to send, by their number of blocks
          MaxRetries,   \* maxIORetries
          EndRetries,   \* endgameMaxRetries
          EndPokes,     \* endgameMaxPokes
          MaxWrong,     \* maxWrongTypeFrames
          MaxErrors,    \* maxConsecutiveSubpacketErrors
          MaxFaults,    \* how often the line or the user interferes
          Lines         \* the lines to look at, each a set of troubles

\* What can happen to an exchange: an acknowledged block arrives damaged, the
\* last one does, or the information about a file, or a header; a frame is lost;
\* answers come later than a read waits; the shell of an end that is over echoes;
\* a user cancels or a file cannot be opened; a remote rz quits after the file it
\* just stored.
Troubles == {"block", "last", "info", "header", "loss", "slow", "echo", "cancel", "quits"}

ASSUME EngineConstants ==
  /\ Sizes \in Seq(Nat)
  /\ {MaxRetries, EndRetries, EndPokes, MaxWrong, MaxErrors, MaxFaults} \subseteq Nat
  /\ Lines \subseteq SUBSET Troubles

VARIABLES line, faults, \* the line's troubles, and how many have happened
          toR, toS,     \* frames on their way to the receiver and to the sender
          spc, file, sent, sbud, finished,     \* Send
          rpc, name, disk, saved, rbud, errs, garbled  \* Receive
senderVars == <<spc, file, sent, sbud, finished>>
receiverVars == <<rpc, name, disk, saved, rbud, errs, garbled>>
exchangeVars == <<line, faults, toR, toS, spc, file, sent, sbud, finished,
                  rpc, name, disk, saved, rbud, errs, garbled>>
-----------------------------------------------------------------------------
Files == DOMAIN Sizes
Block(f, i) == <<f, i>>
Blocks(f) == [i \in 1..Sizes[f] |-> Block(f, i)]

Header(t) == [t |-> t, at |-> 0]
Rpos(at) == [t |-> "zrpos", at |-> at]
\* A subpacket with the terminator `term`.  Block 0 of a file has no bytes; the
\* information that follows ZFILE is block f of file 0.
Data(b, term) == [t |-> "data", at |-> 0, block |-> b, term |-> term]
Info(f) == Data(<<0, f>>, "zcrcw")
ZfileFrames(f) == <<Header("zfile"), Info(f)>>

IsData(frame) == frame.t = "data"

\* A wait for a header has a budget of retries, pokes and unwanted headers.
Fresh == [retries |-> 0, pokes |-> 0, wrong |-> 0]

SenderEnded == spc \in {"ok", "failed"}
ReceiverEnded == rpc \in {"ok", "failed", "quit"}
Trouble(kind) == kind \in line /\ faults < MaxFaults
-----------------------------------------------------------------------------
ExchangeInit ==
  /\ line \in Lines /\ faults = 0
  /\ toR = <<>> /\ toS = <<Header("zrinit")>>
  /\ spc = "negotiate" /\ file = 1 /\ sent = 0 /\ sbud = Fresh
  /\ finished = FALSE
  /\ rpc = "filewait" /\ name = 0 /\ saved = <<>>
  /\ disk = [f \in Files |-> <<>>]
  /\ rbud = Fresh /\ errs = 0 /\ garbled = FALSE

(* ------------------------------- the sender ---------------------------- *)

\* What each wait of the sender accepts (an rz may also refuse a file by ZSKIP,
\* which this receiver never does), and what it repeats when nothing comes.
SenderWants ==
  [prompted |-> {"zrinit"}, filewait |-> {"zrpos"}, ackwait |-> {"zack", "zrpos"},
   eofwait |-> {"zrinit", "zfin"}, finwait |-> {"zfin"}]
SenderPoke ==
  [prompted |-> <<Header("zrqinit")>>,
   filewait |-> IF file \in Files THEN ZfileFrames(file) ELSE <<>>,
   ackwait  |-> <<Header("zdata"), Data(Block(file, sent), "zcrcw")>>,
   eofwait  |-> <<Header("zeof")>>,
   finwait  |-> <<Header("zfin")>>]
Endgame == {"eofwait", "finwait"}

SenderWaits == spc \in DOMAIN SenderWants

SenderGoes(pc) == spc' = pc /\ sbud' = Fresh
SenderFails == SenderGoes("failed")

\* negotiateSend listens once, to whatever comes, before it asks.
Negotiate ==
  /\ spc = "negotiate" /\ toS # <<>>
  /\ toS' = Tail(toS)
  /\ IF Head(toS).t = "zrinit"
     THEN SenderGoes("next") /\ UNCHANGED toR
     ELSE SenderGoes("prompted") /\ toR' = Append(toR, Header("zrqinit"))
  /\ UNCHANGED <<line, faults, file, sent, finished, receiverVars>>

\* The next file is opened and announced; one that cannot be opened ends it all.
StartFile ==
  /\ spc = "next" /\ file \in Files
  /\ toR' = toR \o ZfileFrames(file)
  /\ SenderGoes("filewait") /\ sent' = 0
  /\ UNCHANGED <<line, faults, toS, file, finished, receiverVars>>

OpenFails ==
  /\ spc = "next" /\ file \in Files /\ Trouble("cancel")
  /\ SenderFails /\ faults' = faults + 1
  /\ UNCHANGED <<line, toR, toS, file, sent, finished, receiverVars>>

FinishFiles ==
  /\ spc = "next" /\ file \notin Files
  /\ toR' = Append(toR, Header("zfin"))
  /\ SenderGoes(IF finished THEN "ok" ELSE "finwait")
  /\ UNCHANGED <<line, faults, toS, file, sent, finished, receiverVars>>

\* A block in the middle of the file wants an acknowledgement, the last one
\* is followed by ZEOF at once.  The sender looks one read ahead to know.
SendBlock ==
  /\ spc = "send" /\ sent + 1 < Sizes[file]
  /\ toR' = toR \o <<Header("zdata"), Data(Block(file, sent + 1), "zcrcw")>>
  /\ sent' = sent + 1
  /\ SenderGoes("ackwait")
  /\ UNCHANGED <<line, faults, toS, file, finished, receiverVars>>

SendLast ==
  /\ spc = "send" /\ sent + 1 >= Sizes[file]
  /\ LET more == sent < Sizes[file]
         b == IF more THEN Block(file, sent + 1) ELSE Block(file, 0)
     IN /\ toR' = toR \o <<Header("zdata"), Data(b, "zcrce"), Header("zeof")>>
        /\ sent' = IF more THEN sent + 1 ELSE sent
  /\ SenderGoes("eofwait")
  /\ UNCHANGED <<line, faults, toS, file, finished, receiverVars>>

\* waitForHeader takes the first header it wants; a position rewinds the file.
\* Mutant: a retransmission that starts over instead of where it is asked to.
RewindToStart(h) == sent' = 0 /\ SenderGoes("send")
Rewind(h) == sent' = h.at /\ SenderGoes("send")

\* Mutant: the endgame takes any answer for the one to ZEOF.
PassesOnAny(h) == h.t \in {"zrinit", "zfin", "zrpos", "zack"}
PassesFile(h) == h.t \in {"zrinit", "zfin"}

SenderTakes ==
  /\ SenderWaits /\ toS # <<>>
  /\ LET h == Head(toS) IN
     /\ toS' = Tail(toS)
     /\ \/ /\ spc = "prompted" /\ h.t = "zrinit"
           /\ SenderGoes("next") /\ UNCHANGED <<file, sent, finished>>
        \/ /\ spc \in {"filewait", "ackwait"} /\ h.t = "zrpos"
           /\ Rewind(h) /\ UNCHANGED <<file, finished>>
        \/ /\ spc = "ackwait" /\ h.t = "zack"
           /\ SenderGoes("send") /\ UNCHANGED <<file, sent, finished>>
        \/ /\ spc = "eofwait" /\ PassesFile(h)
           /\ SenderGoes("next") /\ file' = file + 1 /\ finished' = (h.t = "zfin")
           /\ UNCHANGED sent
        \/ /\ spc = "finwait" /\ h.t = "zfin"
           /\ SenderGoes("ok") /\ UNCHANGED <<file, sent, finished>>
  /\ UNCHANGED <<line, faults, toR, receiverVars>>

\* Any other header counts against the wait, or ends it.
SenderDiscards ==
  /\ SenderWaits /\ toS # <<>>
  /\ Head(toS).t \notin SenderWants[spc] \cup {"can"}
  /\ toS' = Tail(toS)
  /\ IF sbud.wrong < MaxWrong
     THEN sbud' = [sbud EXCEPT !.wrong = @ + 1] /\ UNCHANGED spc
     ELSE SenderFails
  /\ UNCHANGED <<line, faults, toR, file, sent, finished, receiverVars>>

\* A damaged header or a cancel sequence is no timeout: the call ends.
SenderAborts ==
  /\ spc \in DOMAIN SenderWants \cup {"negotiate"} /\ toS # <<>>
  /\ \/ Head(toS).t = "can" /\ UNCHANGED faults
     \/ Trouble("header") /\ faults' = faults + 1
  /\ toS' = Tail(toS)
  /\ SenderFails
  /\ UNCHANGED <<line, toR, file, sent, finished, receiverVars>>

\* A read times out when nothing is under way, or on a slow line at any time.
Silence == \/ /\ toS = <<>> /\ toR = <<>> /\ spc \notin {"next", "send"}
              /\ UNCHANGED faults
           \/ Trouble("slow") /\ faults' = faults + 1

\* Mutant: a retry that is not counted.
AgainUncounted(budget) == budget
Again(budget) == [budget EXCEPT !.retries = @ + 1]

SenderTimesOut ==
  /\ spc \in DOMAIN SenderWants \cup {"negotiate"}
  /\ Silence
  /\ LET last == IF spc \in Endgame THEN EndRetries ELSE MaxRetries
         pokes == IF spc \in Endgame THEN EndPokes ELSE MaxRetries
     IN \/ /\ spc = "negotiate"
           /\ SenderGoes("prompted") /\ toR' = Append(toR, Header("zrqinit"))
        \/ /\ spc # "negotiate" /\ sbud.retries < last
           /\ UNCHANGED spc
           /\ IF sbud.pokes < pokes
              THEN /\ toR' = toR \o SenderPoke[spc]
                   /\ sbud' = [Again(sbud) EXCEPT !.pokes = @ + 1]
              ELSE sbud' = Again(sbud) /\ UNCHANGED toR
        \/ /\ spc # "negotiate" /\ sbud.retries >= last
           /\ SenderFails /\ UNCHANGED toR
  /\ UNCHANGED <<line, toS, file, sent, finished, receiverVars>>

(* ------------------------------ the receiver --------------------------- *)

ReceiverWants ==
  [filewait |-> {"zfile", "zfin", "zrqinit"}, datawait |-> {"zdata"},
   nextwait |-> {"zdata", "zeof"}, eofwait |-> {"zeof"}]
Received == IF name = 0 THEN <<>> ELSE disk[name]
ReceiverPoke ==
  [filewait |-> <<Header("zrinit")>>, datawait |-> <<Rpos(Len(Received))>>,
   nextwait |-> <<Rpos(Len(Received))>>, eofwait |-> <<>>]

ReceiverWaits == rpc \in DOMAIN ReceiverWants
Reads == rpc \in {"info", "sub"}   \* inside readSubpacket

ReceiverGoes(pc) == rpc' = pc /\ rbud' = Fresh
ReceiverFails == ReceiverGoes("failed")

\* A file is complete: it joins the list, and the next one is invited.  A
\* remote rz may instead have decided that it is finished.
FileDone ==
  /\ saved' = Append(saved, name)
  /\ \/ /\ ReceiverGoes("filewait") /\ toS' = Append(toS, Header("zrinit"))
        /\ UNCHANGED faults
     \/ /\ Trouble("quits") /\ faults' = faults + 1
        /\ ReceiverGoes("quit") /\ toS' = Append(toS, Header("zfin"))

ReceiverTakes ==
  /\ ReceiverWaits /\ toR # <<>>
  /\ LET h == Head(toR) IN
     /\ toR' = Tail(toR)
     /\ \/ /\ rpc = "filewait" /\ h.t = "zfile"
           /\ ReceiverGoes("info") /\ UNCHANGED <<toS, saved, faults>>
        \/ /\ rpc = "filewait" /\ h.t = "zfin"
           /\ ReceiverGoes("ok") /\ toS' = Append(toS, Header("zfin"))
           /\ UNCHANGED <<saved, faults>>
        \/ /\ rpc = "filewait" /\ h.t = "zrqinit"
           /\ ReceiverGoes("filewait") /\ toS' = Append(toS, Header("zrinit"))
           /\ UNCHANGED <<saved, faults>>
        \/ /\ rpc \in {"datawait", "nextwait"} /\ h.t = "zdata"
           /\ ReceiverGoes("sub") /\ UNCHANGED <<toS, saved, faults>>
        \/ rpc \in {"nextwait", "eofwait"} /\ h.t = "zeof" /\ FileDone
  /\ UNCHANGED <<line, senderVars, name, disk, errs, garbled>>

\* readHeader skips what is no header; an unwanted header counts.
ReceiverDiscards ==
  /\ ReceiverWaits /\ toR # <<>>
  /\ Head(toR).t \notin ReceiverWants[rpc] \cup {"can"}
  /\ toR' = Tail(toR)
  /\ IF IsData(Head(toR)) THEN UNCHANGED <<rpc, rbud>>
     ELSE IF rbud.wrong < MaxWrong
     THEN rbud' = [rbud EXCEPT !.wrong = @ + 1] /\ UNCHANGED rpc
     ELSE ReceiverFails
  /\ UNCHANGED <<line, faults, toS, senderVars, name, disk, saved, errs, garbled>>

ReceiverAborts ==
  /\ ReceiverWaits /\ toR # <<>>
  /\ \/ Head(toR).t = "can" /\ UNCHANGED faults
     \/ /\ ~IsData(Head(toR)) /\ Trouble("header")
        /\ faults' = faults + 1
  /\ toR' = Tail(toR)
  /\ ReceiverFails
  /\ UNCHANGED <<line, toS, senderVars, name, disk, saved, errs, garbled>>

\* The information names the file, which is created or emptied.
ReadInfo ==
  /\ rpc = "info" /\ toR # <<>> /\ IsData(Head(toR)) /\ ~garbled
  /\ toR' = Tail(toR)
  /\ LET f == Head(toR).block[2] IN
     /\ Head(toR) = Info(f)
     /\ name' = f
     /\ disk' = [disk EXCEPT ![f] = <<>>]
  /\ toS' = Append(toS, Rpos(0))
  /\ ReceiverGoes("datawait") /\ errs' = 0
  /\ UNCHANGED <<line, faults, senderVars, saved, garbled>>

\* A valid block is appended where the file ends, wherever ZDATA said it begins.
Store(b) == disk' = [disk EXCEPT ![name] = IF b[2] = 0 THEN @ ELSE Append(@, b)]

ReadBlock ==
  /\ rpc = "sub" /\ toR # <<>> /\ IsData(Head(toR)) /\ ~garbled
  /\ toR' = Tail(toR)
  /\ Store(Head(toR).block) /\ errs' = 0
  /\ IF Head(toR).term = "zcrcw"
     THEN ReceiverGoes("nextwait") /\ toS' = Append(toS, Header("zack"))
     ELSE ReceiverGoes("eofwait") /\ UNCHANGED toS
  /\ UNCHANGED <<line, faults, senderVars, name, saved, garbled>>

\* A block that cannot be used: ask again from what is there, up to a limit.
Resync ==
  IF rpc = "info" \/ errs >= MaxErrors
  THEN ReceiverFails /\ UNCHANGED <<toS, errs>>
  ELSE /\ errs' = errs + 1
       /\ toS' = Append(toS, Rpos(Len(Received)))
       /\ ReceiverGoes("datawait")

\* Inside a subpacket a header is read as payload, up to the next terminator,
\* where the checksum fails.
SwallowHeader ==
  /\ Reads /\ toR # <<>> /\ ~IsData(Head(toR)) /\ Head(toR).t # "can"
  /\ toR' = Tail(toR) /\ garbled' = TRUE
  /\ UNCHANGED <<line, faults, toS, senderVars, rpc, name, disk, saved, rbud, errs>>

Damaged(frame) == \/ Trouble("block") /\ rpc = "sub" /\ frame.term = "zcrcw"
                  \/ Trouble("last") /\ rpc = "sub" /\ frame.term = "zcrce"
                  \/ Trouble("info") /\ rpc = "info"

BadBlock ==
  /\ Reads /\ toR # <<>> /\ IsData(Head(toR))
  /\ garbled \/ Damaged(Head(toR))
  /\ faults' = IF garbled THEN faults ELSE faults + 1
  /\ toR' = Tail(toR) /\ garbled' = FALSE
  /\ Resync
  /\ UNCHANGED <<line, senderVars, name, disk, saved>>

\* The first two bytes of a cancel sequence end the subpacket, the rest is
\* still there for the wait that follows.
CancelInBlock ==
  /\ Reads /\ toR # <<>> /\ Head(toR).t = "can"
  /\ garbled' = FALSE
  /\ Resync
  /\ UNCHANGED <<line, faults, toR, senderVars, name, disk, saved>>

ReceiverTimesOut ==
  /\ Silence
  /\ \/ /\ Reads
        /\ garbled' = FALSE
        /\ Resync
     \/ /\ ReceiverWaits /\ rbud.retries < MaxRetries
        /\ toS' = toS \o ReceiverPoke[rpc]
        /\ rbud' = Again(rbud)
        /\ UNCHANGED <<rpc, errs, garbled>>
     \/ /\ ReceiverWaits /\ rbud.retries >= MaxRetries
        /\ ReceiverFails /\ UNCHANGED <<toS, errs, garbled>>
  /\ UNCHANGED <<line, toR, senderVars, name, disk, saved>>

(* ------------------------- the line and the users ---------------------- *)

Lose ==
  /\ Trouble("loss") /\ faults' = faults + 1
  /\ \/ toR # <<>> /\ toR' = Tail(toR) /\ UNCHANGED toS
     \/ toS # <<>> /\ toS' = Tail(toS) /\ UNCHANGED toR
  /\ UNCHANGED <<line, senderVars, receiverVars>>

\* Behind an end that is over is a shell, which echoes headers or runs them.
ShellTakes ==
  /\ \/ /\ ReceiverEnded /\ ~SenderEnded /\ toR # <<>>
        /\ toR' = Tail(toR)
        /\ toS' = IF "echo" \in line /\ ~IsData(Head(toR)) THEN Append(toS, Head(toR)) ELSE toS
     \/ /\ SenderEnded /\ ~ReceiverEnded /\ toS # <<>>
        /\ toS' = Tail(toS)
        /\ toR' = IF "echo" \in line THEN Append(toR, Head(toS)) ELSE toR
  /\ UNCHANGED <<line, faults, senderVars, receiverVars>>

\* A cancelled call ends, and its service writes a cancel sequence.
UserCancels ==
  /\ Trouble("cancel") /\ faults' = faults + 1
  /\ \/ /\ ~SenderEnded /\ SenderFails
        /\ toR' = Append(toR, Header("can"))
        /\ UNCHANGED <<toS, rpc, rbud>>
     \/ /\ ~ReceiverEnded /\ ReceiverFails
        /\ toS' = Append(toS, Header("can"))
        /\ UNCHANGED <<toR, spc, sbud>>
  /\ UNCHANGED <<line, file, sent, finished, name, disk, saved, errs, garbled>>
-----------------------------------------------------------------------------
SenderStep == \/ Negotiate \/ StartFile \/ FinishFiles \/ SendBlock \/ SendLast
              \/ SenderTakes \/ SenderDiscards \/ SenderAborts \/ SenderTimesOut
ReceiverStep == \/ ReceiverTakes \/ ReceiverDiscards \/ ReceiverAborts
                \/ ReadInfo \/ ReadBlock \/ SwallowHeader \/ BadBlock
                \/ CancelInBlock \/ ReceiverTimesOut

ExchangeNext == SenderStep \/ ReceiverStep \/ OpenFails \/ Lose \/ ShellTakes \/ UserCancels

ExchangeSpec == ExchangeInit /\ [][ExchangeNext]_exchangeVars

\* Both calls run in goroutines of their own; a read ends by ioReadTimeout.
ExchangeFairSpec ==
  /\ ExchangeSpec
  /\ WF_exchangeVars(SenderStep) /\ WF_exchangeVars(ReceiverStep) /\ WF_exchangeVars(ShellTakes)
-----------------------------------------------------------------------------
\* Each role is where its waits and its file leave it: the receiver waits for data
\* of a file it has created, a position never leaves the file, nobody sends data to
\* the sender.
ExchangeTypeOK ==
  /\ line \in Lines /\ faults \in 0..MaxFaults
  /\ \A i \in DOMAIN toS : ~IsData(toS[i])
  /\ spc \in DOMAIN SenderWants \cup {"negotiate", "next", "send", "ok", "failed"}
  /\ file \in 1..Len(Sizes) + 1 /\ sent \in Nat
  /\ rpc \in DOMAIN ReceiverWants \cup {"info", "sub", "ok", "failed", "quit"}
  /\ name \in Files \cup {0}
  /\ (rpc \in {"datawait", "sub", "nextwait", "eofwait"}) => name # 0
  /\ \A i \in DOMAIN saved : saved[i] \in Files
  /\ errs \in 0..MaxErrors /\ garbled \in BOOLEAN

\* A file the receiver lists as saved is the file the sender has, whatever is
\* damaged and whoever gives up, as long as no frame is lost and no answer is
\* late (receive.go's "safe resume point").
WholeFile == (line \cap {"loss", "slow"} = {}) =>
  \A i \in DOMAIN saved : disk[saved[i]] = Blocks(saved[i])

\* The sender believes no more than the receiver did, on any line.
Delivery == INSTANCE FileDelivery WITH
  N <- Len(Sizes), kept <- Len(saved), passed <- file - 1,
  sender <- IF SenderEnded THEN spc ELSE "running",
  receiver <- IF rpc \in {"ok", "failed"} THEN rpc ELSE "running"
DeliverySpec == Delivery!Spec

\* Whatever the line does, both calls return.
BothReturn == <>(SenderEnded /\ ReceiverEnded)

\* Damaged blocks are asked for again until they arrive: a line that does no
\* worse, and no more often than the limit, does not end the exchange.
Recovers == (line \subseteq {"block"} /\ MaxFaults <= MaxErrors) => <>(spc = "ok" /\ rpc = "ok")

\* An exchange comes to its end, and to a good one when blocks are only damaged.
ExchangeEnds == BothReturn /\ Recovers
-----------------------------------------------------------------------------
(* What comments of the code say and the code does not do. *)

\* send.go:208: resilience against a lost acknowledgement comes from the
\* timeout and the retry.  The retried block is appended a second time.
LossIsHarmless == \A i \in DOMAIN saved : disk[saved[i]] = Blocks(saved[i])

\* receive.go:18: a stalled subpacket is resynchronised past.  The last one is
\* not: the sender no longer listens for a position.
LastBlockRecovers == (line \subseteq {"last"} /\ MaxFaults <= MaxErrors) => <>(spc = "ok" /\ rpc = "ok")
=============================================================================
