---------------------------- MODULE FileDelivery ----------------------------
(***************************************************************************)
(* What a ZMODEM exchange promises, whatever the line does to it: the      *)
(* sender never believes more than the receiver has done.  A file is       *)
(* passed only after the receiver stored it, the receiver ends well only   *)
(* after the sender passed the last file, and the sender ends well only    *)
(* after every file was passed.  Either end may give up at any time.       *)
(***************************************************************************)
EXTENDS Naturals

CONSTANT N          \* the number of files to send

VARIABLES kept,     \* how many files the receiver has stored
          passed,   \* how many files the sender has seen acknowledged
          sender,   \* how the sender's call stands
          receiver  \* how the receiver's call stands
vars == <<kept, passed, sender, receiver>>

Standing == {"running", "ok", "failed"}

TypeOK == /\ kept \in 0..N
          /\ passed \in 0..N
          /\ sender \in Standing
          /\ receiver \in Standing

Init == kept = 0 /\ passed = 0 /\ sender = "running" /\ receiver = "running"

Keep == /\ receiver = "running" /\ kept < N
        /\ kept' = kept + 1
        /\ UNCHANGED <<passed, sender, receiver>>

Pass == /\ sender = "running" /\ passed < kept
        /\ passed' = passed + 1
        /\ UNCHANGED <<kept, sender, receiver>>

ReceiverDone == /\ receiver = "running" /\ passed = N
                /\ receiver' = "ok"
                /\ UNCHANGED <<kept, passed, sender>>

SenderDone == /\ sender = "running" /\ passed = N
              /\ sender' = "ok"
              /\ UNCHANGED <<kept, passed, receiver>>

GiveUp == /\ \/ sender = "running" /\ sender' = "failed" /\ UNCHANGED receiver
             \/ receiver = "running" /\ receiver' = "failed" /\ UNCHANGED sender
          /\ UNCHANGED <<kept, passed>>

Next == Keep \/ Pass \/ ReceiverDone \/ SenderDone \/ GiveUp

Spec == Init /\ [][Next]_vars
=============================================================================
