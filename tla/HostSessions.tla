--------------------------- MODULE HostSessions ---------------------------
(***************************************************************************)
(* The shell sessions of the host's agent: the store of                    *)
(* shared/shell_sessions.py and action_shell_session of hostctl/agent.py,  *)
(* behind a server with a thread per request.                              *)
(*                                                                         *)
(* The store has no lock, so each look at it and each change of it is a    *)
(* step.  The commands and the passing of time are external.               *)
(***************************************************************************)
EXTENDS Naturals, FiniteSets, FiniteSetsExt

CONSTANTS
  Richiesta,   \* threads that serve requests
  MaxSessioni, \* SHELL_MAX_SESSIONS
  MaxAperture, \* bound: sessions ever opened
  MaxUscita,   \* SHELL_MAX_OUTPUT_BYTES, in outputs of one command
  MaxComandi   \* bound: commands ever run

VARIABLES
  aperte,   \* _sessions
  nate,     \* sessions ever opened
  inattive, \* sessions idle for idle_s
  oggetto,  \* [session -> [coda |-> output kept, persi |-> dropped, storia |-> commands recorded]]
  conto,    \* history: [session -> [scritti |-> outputs written, resi |-> told to a reader]]
  filo      \* [thread -> [passo, op, s |-> session, visti |-> sessions it found expired, preso |-> read]]

sessioni == <<aperte, nate, inattive, oggetto, conto>>
vars == <<aperte, nate, inattive, oggetto, conto, filo>>

Sessione == 1..MaxAperture
Op == {"open", "run", "read", "close"}
Riposo == [passo |-> "fermo", op |-> "open", s |-> 1, visti |-> {}, preso |-> 0]

Init ==
  /\ aperte = {} /\ nate = 0 /\ inattive = {}
  /\ oggetto = [s \in Sessione |-> [coda |-> 0, persi |-> 0, storia |-> 0]]
  /\ conto = [s \in Sessione |-> [scritti |-> 0, resi |-> 0]]
  /\ filo = [r \in Richiesta |-> Riposo]

A(r, passo) == filo[r].passo = passo
Va(r, passo) == filo' = [filo EXCEPT ![r].passo = passo]
Risponde(r) == filo' = [filo EXCEPT ![r] = Riposo]

-----------------------------------------------------------------------------
(* SessionStore. *)

\* Requests that are opening a session.
InCorso == Cardinality({r \in Richiesta : filo[r].op = "open" /\ filo[r].passo # "fermo"})

\* A request for a session that has already gone only fails.
Chiede(r, op, s) ==
  /\ A(r, "fermo") /\ IF op = "open" THEN s = 1 /\ InCorso + nate < MaxAperture ELSE s \in aperte
  /\ filo' = [filo EXCEPT ![r] = [Riposo EXCEPT !.passo = "guarda", !.op = op, !.s = s]]
  /\ UNCHANGED sessioni

\* _reap: the expired ones are listed, then taken out one by one; if another
\* request took one of them meanwhile, the request fails on it.
Guarda(r) ==
  /\ A(r, "guarda")
  /\ filo' = [filo EXCEPT ![r].visti = aperte \intersect inattive, ![r].passo = "toglie"]
  /\ UNCHANGED sessioni

Toglie(r) ==
  /\ A(r, "toglie")
  /\ IF filo[r].visti \subseteq aperte
     THEN /\ aperte' = aperte \ filo[r].visti
          /\ filo' = [filo EXCEPT ![r].visti = {},
                                  ![r].passo = IF filo[r].op = "open" THEN "conta" ELSE "trova"]
     ELSE /\ \E tolte \in SUBSET (filo[r].visti \intersect aperte) : aperte' = aperte \ tolte
          /\ Risponde(r)
  /\ UNCHANGED <<nate, inattive, oggetto, conto>>

\* Mutant of Conta: a full store takes one more session.
ContaTroppo(r) ==
  /\ A(r, "conta")
  /\ IF Cardinality(aperte) > MaxSessioni + 1 THEN Risponde(r) ELSE Va(r, "inserisce")
  /\ UNCHANGED sessioni

\* open: the ceiling is checked ...
Conta(r) ==
  /\ A(r, "conta")
  /\ IF Cardinality(aperte) >= MaxSessioni THEN Risponde(r) ELSE Va(r, "inserisce")
  /\ UNCHANGED sessioni

\* ... and then the session is stored.
Inserisce(r) ==
  /\ A(r, "inserisce")
  /\ nate' = nate + 1 /\ aperte' = aperte \union {nate + 1}
  /\ Risponde(r)
  /\ UNCHANGED <<inattive, oggetto, conto>>

\* get: an access is activity.
Trova(r) ==
  /\ A(r, "trova")
  /\ IF filo[r].s \in aperte
     THEN inattive' = inattive \ {filo[r].s} /\ Va(r, filo[r].op)
     ELSE inattive' = inattive /\ Risponde(r)
  /\ UNCHANGED <<aperte, nate, oggetto, conto>>

-----------------------------------------------------------------------------
(* The operations of action_shell_session, on the session they hold: it may *)
(* have left the store meanwhile.                                           *)

\* The walls of _shell_prepare refuse the command, or it runs and its output is kept.
Esegue(r) ==
  LET s == filo[r].s
      pieno == oggetto[s].coda = MaxUscita
  IN /\ A(r, "run")
     /\ \/ Risponde(r) /\ UNCHANGED <<oggetto, conto>>
        \/ /\ MapThenSumSet(LAMBDA t : conto[t].scritti, Sessione) < MaxComandi
           /\ oggetto' = [oggetto EXCEPT ![s].coda = IF pieno THEN @ ELSE @ + 1,
                                         ![s].persi = IF pieno THEN @ + 1 ELSE @]
           /\ conto' = [conto EXCEPT ![s].scritti = @ + 1]
           /\ Va(r, "registra")
     /\ UNCHANGED <<aperte, nate, inattive>>

Registra(r) ==
  /\ A(r, "registra")
  /\ oggetto' = [oggetto EXCEPT ![filo[r].s].storia = @ + 1]
  /\ inattive' = inattive \ {filo[r].s}
  /\ Risponde(r)
  /\ UNCHANGED <<aperte, nate, conto>>

\* read: the text and what was dropped, then, with clear, both start again.
Legge(r) ==
  LET o == oggetto[filo[r].s]
  IN /\ A(r, "read")
     /\ \/ Risponde(r)
        \/ filo' = [filo EXCEPT ![r].passo = "svuota", ![r].preso = o.coda + o.persi]
     /\ UNCHANGED sessioni

Svuota(r) ==
  LET s == filo[r].s
  IN /\ A(r, "svuota")
     /\ oggetto' = [oggetto EXCEPT ![s].coda = 0, ![s].persi = 0]
     /\ conto' = [conto EXCEPT ![s].resi = @ + filo[r].preso]
     /\ Risponde(r)
     /\ UNCHANGED <<aperte, nate, inattive>>

Chiude(r) ==
  /\ A(r, "close")
  /\ aperte' = aperte \ {filo[r].s} /\ Risponde(r)
  /\ UNCHANGED <<nate, inattive, oggetto, conto>>

Invecchia(s) ==
  /\ s \in aperte \ inattive
  /\ inattive' = inattive \union {s}
  /\ UNCHANGED <<aperte, nate, oggetto, conto, filo>>

\* The agent is restarted between two requests: its sessions are lost.
Riparte ==
  /\ aperte # {} /\ \A r \in Richiesta : A(r, "fermo")
  /\ aperte' = {}
  /\ UNCHANGED <<nate, inattive, oggetto, conto, filo>>

-----------------------------------------------------------------------------
Passo(r) ==
  \/ Guarda(r) \/ Toglie(r) \/ Conta(r) \/ Inserisce(r) \/ Trova(r) \/ Esegue(r) \/ Registra(r)
  \/ Legge(r) \/ Svuota(r) \/ Chiude(r)

Next ==
  \/ \E r \in Richiesta :
       \/ Passo(r)
       \/ \E op \in Op, s \in Sessione : Chiede(r, op, s)
  \/ \E s \in Sessione : Invecchia(s)
  \/ Riparte

Spec == Init /\ [][Next]_vars

-----------------------------------------------------------------------------
(* TYPE INVARIANT. *)
TypeOK ==
  /\ aperte \subseteq 1..nate /\ nate \in 0..MaxAperture /\ inattive \subseteq Sessione
  /\ \A s \in Sessione :
       /\ oggetto[s] \in [coda : 0..MaxUscita, persi : 0..MaxComandi, storia : 0..MaxComandi]
       /\ conto[s] \in [scritti : 0..MaxComandi, resi : 0..(2 * MaxComandi)]

(* SAFETY.  The ceiling on the sessions is exceeded at most by the requests *)
(* that checked it at the same moment.                                      *)
TettoConGara == Cardinality(aperte) <= MaxSessioni + Cardinality(Richiesta) - 1

(* SAFETY.  The ceiling on the sessions is a number, not a hope.            *)
SessioniEntroTetto == Cardinality(aperte) <= MaxSessioni

(* SAFETY.  What is thrown away shows: every output is kept, counted as     *)
(* dropped, or has been given to a reader.                                  *)
NienteInSilenzio ==
  \A s \in Sessione :
    (\A r \in Richiesta : ~(A(r, "svuota") /\ filo[r].s = s)) =>
      conto[s].scritti <= oggetto[s].coda + oggetto[s].persi + conto[s].resi
=============================================================================
