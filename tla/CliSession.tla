------------------------------- MODULE CliSession -------------------------------
(***************************************************************************)
(* A shell on a device (Session, internal/collect/ssh.go): Run writes a    *)
(* command and drains what the device prints until nothing came for a      *)
(* while.  Each round of drain starts a goroutine that reads from the ssh  *)
(* channel.  The round that times out leaves its goroutine behind, still   *)
(* in Read: it goes on to compete with the goroutines of later rounds for  *)
(* what the device prints next.  Dial's own dialogue (banner, enable,      *)
(* terminal length) is a sequence of such writes and drains too.           *)
(***************************************************************************)
EXTENDS Naturals, Sequences, FiniteSets

CONSTANTS
  NCmds,    \* commands sent on the session, 0 being the banner
  OutLen,   \* OutLen[c]: the pieces the device prints for command c
  MaxRead   \* pieces that fit in the 8192 bytes of one Read

(* What the constants have to be. *)
SessionAssumption ==
  /\ NCmds \in Nat
  /\ OutLen \in [0..NCmds -> Nat]
  /\ MaxRead \in Nat \ {0}

Cmd == 0..NCmds

VARIABLES
  pc,        \* Run: about to "write", to "start" a round, to "wait", or "closed"
  cmd,       \* the command being run
  inbox,     \* commands the device has not answered completely
  printed,   \* printed[e]: the command that the e-th piece of output answers
  pipe,      \* pieces in the ssh channel that nobody has read
  ended,     \* the channel is closed
  readers,   \* goroutines in Read or back from it, with what they took
  round,     \* rounds of drain so far
  got,       \* what the drains returned: <<command, piece>> in order
  prompt     \* TRUE: the device never lets a drain wait long enough to time out
             \* while it still has something to print; it stays so

vars == <<pc, cmd, inbox, printed, pipe, ended, readers, round, got, prompt>>

Init ==
  /\ pc = "start" /\ cmd = 0
  /\ inbox = <<0>> /\ printed = <<>> /\ pipe = <<>>
  /\ ended = FALSE
  /\ readers = {} /\ round = 0
  /\ got = <<>>
  /\ prompt \in BOOLEAN

-----------------------------------------------------------------------------
(* The device answers the commands in the order they were written. *)
Answered(c) == Cardinality({e \in DOMAIN printed : printed[e] = c})

Answer ==
  /\ ~ended /\ inbox # <<>>
  /\ \/ /\ Answered(Head(inbox)) < OutLen[Head(inbox)]
        /\ printed' = Append(printed, Head(inbox))
        /\ pipe' = Append(pipe, Len(printed'))
        /\ UNCHANGED inbox
     \/ /\ Answered(Head(inbox)) = OutLen[Head(inbox)]
        /\ inbox' = Tail(inbox)
        /\ UNCHANGED <<printed, pipe>>
  /\ UNCHANGED <<pc, cmd, ended, readers, round, got>>

(* The device ends the connection. *)
HangUp ==
  /\ ~ended
  /\ ended' = TRUE
  /\ UNCHANGED <<pc, cmd, inbox, printed, pipe, readers, round, got>>

-----------------------------------------------------------------------------
(* Run: the command goes out, the drain begins. *)
WriteLine ==
  /\ pc = "write" /\ cmd < NCmds
  /\ cmd' = cmd + 1
  /\ inbox' = Append(inbox, cmd')
  /\ pc' = "start"
  /\ UNCHANGED <<printed, pipe, ended, readers, round, got>>

(* A round of drain: a goroutine that reads, and a wait for it or the timer. *)
StartRead ==
  /\ pc = "start"
  /\ round' = round + 1
  /\ readers' = readers \cup {[round |-> round', back |-> FALSE, took |-> <<>>]}
  /\ pc' = "wait"
  /\ UNCHANGED <<cmd, inbox, printed, pipe, ended, got>>

Taken == IF Len(pipe) < MaxRead THEN Len(pipe) ELSE MaxRead

(***************************************************************************)
(* stdout.Read returns to one of the goroutines that wait in it, whichever *)
(* round it belongs to; at the end of the channel, to each with an error.  *)
(***************************************************************************)
Read(r) ==
  /\ ~r.back
  /\ pipe # <<>> \/ ended
  /\ readers' = (readers \ {r}) \cup
                  {[r EXCEPT !.back = TRUE, !.took = SubSeq(pipe, 1, Taken)]}
  /\ pipe' = SubSeq(pipe, Taken + 1, Len(pipe))
  /\ UNCHANGED <<pc, cmd, inbox, printed, ended, round, got>>

Current == {r \in readers : r.round = round}

(***************************************************************************)
(* The goroutine of this round is back: its data counts, and the next      *)
(* round begins, unless Read failed.                                       *)
(***************************************************************************)
ReadDone ==
  /\ pc = "wait"
  /\ \E r \in Current :
       /\ r.back
       /\ got' = got \o [i \in 1..Len(r.took) |-> <<cmd, r.took[i]>>]
       /\ readers' = readers \ {r}
       /\ pc' = IF r.took = <<>> THEN "write" ELSE "start"
  /\ UNCHANGED <<cmd, inbox, printed, pipe, ended, round>>

(* A goroutine of an earlier round is back: its data goes nowhere. *)
Drop(r) ==
  /\ r.back
  /\ r.round = round => pc # "wait"
  /\ readers' = readers \ {r}
  /\ UNCHANGED <<pc, cmd, inbox, printed, pipe, ended, round, got>>

(* Nothing more of what was asked is to come. *)
Quiet == inbox = <<>> /\ pipe = <<>> /\ \A r \in Current : ~r.back

(* Nothing came for as long as idle: drain returns, its goroutine stays. *)
Idle ==
  /\ pc = "wait"
  /\ prompt => Quiet
  /\ pc' = "write"
  /\ UNCHANGED <<cmd, inbox, printed, pipe, ended, readers, round, got>>

Close ==
  /\ pc = "write" /\ cmd = NCmds
  /\ pc' = "closed" /\ ended' = TRUE
  /\ UNCHANGED <<cmd, inbox, printed, pipe, readers, round, got>>

Next ==
  /\ UNCHANGED prompt
  /\ \/ Answer \/ HangUp
     \/ WriteLine \/ StartRead \/ ReadDone \/ Idle \/ Close
     \/ \E r \in readers : Read(r) \/ Drop(r)

Spec == Init /\ [][Next]_vars

(* Goroutines and timers go on; the device need not hang up. *)
FairSpec ==
  /\ Spec
  /\ WF_vars(Answer) /\ WF_vars(WriteLine) /\ WF_vars(StartRead) /\ WF_vars(ReadDone)
  /\ WF_vars(Idle) /\ WF_vars(Close)
  /\ WF_vars(\E r \in readers : Read(r)) /\ WF_vars(\E r \in readers : Drop(r))

-----------------------------------------------------------------------------
TypeOK ==
  /\ pc \in {"write", "start", "wait", "closed"}
  /\ cmd \in Cmd /\ inbox \in Seq(Cmd) /\ printed \in Seq(Cmd)
  /\ \A i \in DOMAIN pipe : pipe[i] \in DOMAIN printed
  /\ ended \in BOOLEAN
  /\ \A r \in readers : r.round \in 1..round /\ \A i \in DOMAIN r.took : r.took[i] \in DOMAIN printed
  /\ \A i \in DOMAIN got : got[i][1] \in Cmd /\ got[i][2] \in DOMAIN printed
  /\ prompt \in BOOLEAN

(***************************************************************************)
(* What the commands of a session return, put together, is in the order    *)
(* the device printed it, with nothing twice, and no command returns the   *)
(* output of a later one, however the goroutines left behind interleave.   *)
(***************************************************************************)
OutputInOrder ==
  /\ \A i, k \in DOMAIN got : i < k => got[i][2] < got[k][2]
  /\ \A i \in DOMAIN got : printed[got[i][2]] <= got[i][1]

(***************************************************************************)
(* On a device that never pauses while it prints, a command returns output *)
(* of its own only: nothing is left for the next one.                      *)
(***************************************************************************)
OwnOutputOnly == prompt => \A i \in DOMAIN got : printed[got[i][2]] = got[i][1]

(* Drain has returned and the next command may be written. *)
Returned == pc = "write" /\ ~ended

(***************************************************************************)
(* Every goroutine that was left behind ends once the session is closed.   *)
(***************************************************************************)
ReadersEnd == pc = "closed" ~> readers = {}
=============================================================================
