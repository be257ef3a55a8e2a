----------------------------- MODULE HalfDuplex -----------------------------
(***************************************************************************)
(* What the transmit side promises the receive side: rtnc_runtime_state_t  *)
(* as other threads read it, with the PTT line.  docs/kiss-runtime.md:     *)
(*                                                                         *)
(*   RX_IDLE -> TX_WAIT_BUSY -> TX_KEYING -> TX_ACTIVE -> TX_TAIL          *)
(*           -> RX_GUARD -> RX_IDLE                                        *)
(*                                                                         *)
(* A free channel skips TX_WAIT_BUSY, a timeout and a line that cannot be  *)
(* keyed lead back to RX_IDLE.  TxRuntime implements this specification;   *)
(* FrontEnd is written against it.                                         *)
(***************************************************************************)
VARIABLES
  state,  \* rtnc_runtime_state_t
  ptt     \* the level of the PTT line

radioVars == <<state, ptt>>

States == {"RX_IDLE", "TX_WAIT_BUSY", "TX_KEYING", "TX_ACTIVE", "TX_TAIL",
           "RX_GUARD"}

Init == state = "RX_IDLE" /\ ptt = FALSE

Move(from, to) == state \in from /\ state' = to /\ UNCHANGED ptt

Wait == Move({"RX_IDLE"}, "TX_WAIT_BUSY")
GiveUp == Move({"TX_WAIT_BUSY"}, "RX_IDLE")
Start == Move({"RX_IDLE", "TX_WAIT_BUSY"}, "TX_KEYING")
Key == state = "TX_KEYING" /\ ptt' = TRUE /\ UNCHANGED state
KeyFails == Move({"TX_KEYING"}, "RX_IDLE")
Send == ptt /\ Move({"TX_KEYING"}, "TX_ACTIVE")
EndSending == Move({"TX_ACTIVE"}, "TX_TAIL")

\* The line may refuse the release; the runtime goes on all the same.
Release == state = "TX_TAIL" /\ ptt' \in {FALSE, ptt} /\ UNCHANGED state
Guard == Move({"TX_TAIL"}, "RX_GUARD")
Resume == Move({"RX_GUARD"}, "RX_IDLE")

\* rtnc_runtime_deinit and rtnc_ptt_deinit.
Teardown == state = "RX_IDLE" /\ ptt' \in {FALSE, ptt} /\ UNCHANGED state

Next ==
  \/ Wait \/ GiveUp \/ Start \/ Key \/ KeyFails \/ Send \/ EndSending
  \/ Release \/ Guard \/ Resume \/ Teardown

Spec == Init /\ [][Next]_radioVars
=============================================================================
