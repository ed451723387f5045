----------------------------- MODULE HostTunnel -----------------------------
(***************************************************************************)
(* The tunnel of the host's agent: the ngrok actions of hostctl/agent.py,  *)
(* behind a server with a thread per request.                              *)
(*                                                                         *)
(* Start and stop run under one lock, but the file with the number of the  *)
(* process and the process itself are two things: processes end on their   *)
(* own, their numbers are given to others, and the agent may die between   *)
(* any two steps and start again.                                          *)
(***************************************************************************)
EXTENDS Naturals

CONSTANTS
  Richiesta, \* threads that serve requests
  Pid,       \* process numbers, which the system reuses
  MaxCadute  \* bound: times the agent dies in the middle of a request

VARIABLES
  stato,    \* the number in the state file, or 0
  processo, \* [number -> who has it]
  filo,     \* [thread -> what it is asked]
  mano,     \* who has _ngrok_lock: [chi |-> thread, passo |-> step, p |-> process started]
  cadute    \* times the agent has died

vars == <<stato, processo, filo, mano, cadute>>

HostTunnelAssumption == 0 \notin Pid /\ "niente" \notin Richiesta /\ MaxCadute \in Nat

Chi == {"libero", "ngrok", "chiude", "altro"}
Libera == [chi |-> "niente", passo |-> "niente", p |-> 0]

Init ==
  /\ stato = 0 /\ processo = [p \in Pid |-> "libero"]
  /\ filo = [r \in Richiesta |-> "niente"] /\ mano = Libera /\ cadute = 0

\* _pid_alive_and_named: a process that is still closing has the name too.
Nostro(p) == p # 0 /\ processo[p] \in {"ngrok", "chiude"}
Tiene(r, passo) == mano.chi = r /\ mano.passo = passo

Chiede(r, azione) ==
  /\ filo[r] = "niente" /\ filo' = [filo EXCEPT ![r] = azione]
  /\ UNCHANGED <<stato, processo, mano, cadute>>

Prende(r) ==
  /\ filo[r] # "niente" /\ mano = Libera
  /\ mano' = [chi |-> r, passo |-> filo[r], p |-> 0]
  /\ UNCHANGED <<stato, processo, filo, cadute>>

Risponde(r) == mano' = Libera /\ filo' = [filo EXCEPT ![r] = "niente"] /\ cadute' = cadute

\* _action_ngrok_start: refused while the noted process lives; else the process
\* starts before its number is written.
Lancia(r) ==
  \E p \in Pid :
    /\ processo[p] = "libero"
    /\ processo' = [processo EXCEPT ![p] = "ngrok"]
    /\ mano' = [mano EXCEPT !.passo = "write", !.p = p]
    /\ UNCHANGED <<stato, filo, cadute>>

\* Mutant of Avvia: the process in the file is not looked at.
AvviaSenzaGuardare(r) == Tiene(r, "start") /\ Lancia(r)

Avvia(r) ==
  /\ Tiene(r, "start")
  /\ IF Nostro(stato) THEN Risponde(r) /\ UNCHANGED <<stato, processo>> ELSE Lancia(r)

Annota(r) ==
  /\ Tiene(r, "write") /\ stato' = mano.p
  /\ Risponde(r) /\ UNCHANGED processo

\* _action_ngrok_stop: the number is checked, then signalled and forgotten; a stale
\* one is only forgotten.
Ferma(r) ==
  /\ Tiene(r, "stop")
  /\ IF Nostro(stato)
     THEN mano' = [mano EXCEPT !.passo = "kill"] /\ UNCHANGED <<stato, filo, cadute>>
     ELSE stato' = 0 /\ Risponde(r)
  /\ UNCHANGED processo

\* os.kill raises if the process has just gone, and the number stays in the file; it
\* cannot tell another program that has the number by now.
Uccide(r) ==
  /\ Tiene(r, "kill")
  /\ IF processo[stato] = "libero"
     THEN UNCHANGED <<stato, processo>>
     ELSE processo' = [processo EXCEPT ![stato] = "chiude"] /\ stato' = 0
  /\ Risponde(r)

\* Processes end, and their numbers are given to others.
Muore(p) ==
  /\ processo[p] # "libero" /\ processo' = [processo EXCEPT ![p] = "libero"]
  /\ UNCHANGED <<stato, filo, mano, cadute>>
Nasce(p) ==
  /\ processo[p] = "libero" /\ processo' = [processo EXCEPT ![p] = "altro"]
  /\ UNCHANGED <<stato, filo, mano, cadute>>

\* The agent dies and is started again: the file and the tunnel outlive it.
Cade ==
  /\ mano = Libera \/ cadute < MaxCadute
  /\ cadute' = IF mano = Libera THEN cadute ELSE cadute + 1
  /\ mano' = Libera /\ filo' = [r \in Richiesta |-> "niente"]
  /\ UNCHANGED <<stato, processo>>

Passo(r) == Prende(r) \/ Avvia(r) \/ Annota(r) \/ Ferma(r) \/ Uccide(r)

Next ==
  \/ \E r \in Richiesta : Passo(r) \/ \E azione \in {"start", "stop"} : Chiede(r, azione)
  \/ \E p \in Pid : Muore(p) \/ Nasce(p)
  \/ Cade

Spec == Init /\ [][Next]_vars

-----------------------------------------------------------------------------
(* TYPE INVARIANT. *)
TypeOK ==
  /\ stato \in Pid \union {0} /\ processo \in [Pid -> Chi]
  /\ filo \in [Richiesta -> {"niente", "start", "stop"}] /\ cadute \in 0..MaxCadute
  /\ mano \in [chi : Richiesta \union {"niente"}, passo : {"niente", "start", "write", "stop", "kill"},
               p : Pid \union {0}]

(* SAFETY.  One tunnel at a time: over starts, stops, deaths, reused       *)
(* numbers and restarts of the agent between two requests, there are never *)
(* two tunnels of the agent running.                                       *)
AvvioUnico == \A p, q \in Pid : processo[p] = "ngrok" /\ processo[q] = "ngrok" => p = q

(* SAFETY.  The file never holds on to a tunnel that runs without it: a    *)
(* running tunnel that nobody is starting is the one a stop would find.    *)
TunnelFermabile ==
  \A p \in Pid : processo[p] = "ngrok" => (stato = p \/ mano.p = p)
=============================================================================
