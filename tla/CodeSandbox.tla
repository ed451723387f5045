---------------------------- MODULE CodeSandbox ----------------------------
(***************************************************************************)
(* The code sandbox: the tool of cp/tool.py, its two clients               *)
(* (shared/code_sandbox.py), the offline runner (sandbox/runner.py) and    *)
(* the broker of Docker Sandboxes in hostctl/agent.py.                     *)
(*                                                                         *)
(* Client and runner share a volume: a job is a file in jobs/, its answer  *)
(* a file in results/, both put in place by a rename, so a step is one     *)
(* file operation.  The runner is one loop; it may crash between any two   *)
(* steps and is started again.  Each request makes one call.               *)
(***************************************************************************)
EXTENDS Naturals, FiniteSets

CONSTANTS
  Richiesta,   \* the calls
  Azioni,      \* what they ask for: "create", "replace", "discard"
  MaxSpazi,    \* MAX_WORKSPACES
  MaxCadute    \* bound: crashes of the runner

VARIABLES
  chiamata,    \* [Richiesta -> [azione, passo, esito]]
  lavori,      \* jobs/
  risultati,   \* [Richiesta -> answer in results/, or ""]
  fresco,      \* is the heartbeat younger than 5 s?
  elenco,      \* the files of this round of the runner, still to process
  corrente,    \* [job, passo]: what the runner is processing
  spazi,       \* workspaces of the runner: [di |-> call, intero |-> has its metadata?]
  vm,          \* calls for which a sandbox of Docker Sandboxes exists
  cambiato,    \* [Richiesta -> times its change was made]
  letti,       \* history: calls whose job the runner has read
  cadute

vars == <<chiamata, lavori, risultati, fresco, elenco, corrente, spazi, vm, cambiato, letti, cadute>>

Nulla == [job |-> "", passo |-> "no"]

Init ==
  /\ chiamata \in [Richiesta -> {[azione |-> a, passo |-> "ferma", esito |-> ""] : a \in Azioni}]
  /\ lavori = {} /\ risultati = [r \in Richiesta |-> ""] /\ fresco = FALSE
  /\ elenco = {} /\ corrente = Nulla /\ spazi = {} /\ vm = {}
  /\ cambiato = [r \in Richiesta |-> 0] /\ letti = {} /\ cadute = 0

Passo(r, p, e) == chiamata' = [chiamata EXCEPT ![r].passo = p, ![r].esito = e]
Di(r) == {s \in spazi : s.di = r}

-----------------------------------------------------------------------------
(* The clients: HybridCodeSandboxClient over SbxSandboxClient and            *)
(* CodeSandboxClient.                                                        *)

\* a workspace is asked of Docker Sandboxes first, if it says it is there; what exists
\* stays with its own backend
Sceglie(r) ==
  /\ chiamata[r].passo = "ferma"
  /\ \/ chiamata[r].azione = "create" /\ Passo(r, "sbx", "")
     \/ Passo(r, "docker", "")
  /\ UNCHANGED <<lavori, risultati, fresco, elenco, corrente, spazi, vm, cambiato, letti, cadute>>

\* the host agent creates a microVM; its answer may be lost or be late, and then the
\* call falls back on the runner
Sbx(r) ==
  /\ chiamata[r].passo = "sbx"
  /\ \/ vm' = vm \union {r} /\ \E p \in {"fine", "docker"} : Passo(r, p, IF p = "fine" THEN "ok" ELSE "")
     \/ Passo(r, "docker", "") /\ UNCHANGED vm
  /\ UNCHANGED <<lavori, risultati, fresco, elenco, corrente, spazi, cambiato, letti, cadute>>

\* CodeSandboxClient.call: the heartbeat, then the job
Chiama(r) ==
  /\ chiamata[r].passo = "docker"
  /\ IF ~fresco THEN Passo(r, "fine", "assente") /\ UNCHANGED lavori
     ELSE Passo(r, "attende", "") /\ lavori' = lavori \union {r}
  /\ UNCHANGED <<risultati, fresco, elenco, corrente, spazi, vm, cambiato, letti, cadute>>

Legge(r) ==
  /\ chiamata[r].passo = "attende" /\ risultati[r] # ""
  /\ Passo(r, "fine", risultati[r]) /\ risultati' = [risultati EXCEPT ![r] = ""]
  /\ UNCHANGED <<lavori, fresco, elenco, corrente, spazi, vm, cambiato, letti, cadute>>

\* Mutant of Rinuncia: the job stays where it is.
RinunciaELascia(r) ==
  /\ chiamata[r].passo = "attende" /\ Passo(r, "fine", "scaduto")
  /\ UNCHANGED <<lavori, risultati, fresco, elenco, corrente, spazi, vm, cambiato, letti, cadute>>

\* the deadline: the job is withdrawn, whatever the runner is doing with it
Rinuncia(r) ==
  /\ chiamata[r].passo = "attende" /\ Passo(r, "fine", "scaduto")
  /\ lavori' = lavori \ {r}
  /\ UNCHANGED <<risultati, fresco, elenco, corrente, spazi, vm, cambiato, letti, cadute>>

-----------------------------------------------------------------------------
(* The runner. *)

\* main: heartbeat and the files there are
Giro ==
  /\ corrente = Nulla /\ elenco = {} /\ (lavori # {} \/ ~fresco)
  /\ fresco' = TRUE /\ elenco' = lavori
  /\ UNCHANGED <<chiamata, lavori, risultati, corrente, spazi, vm, cambiato, letti, cadute>>

\* no heartbeat is written while a job runs
Invecchia ==
  /\ fresco /\ corrente # Nulla /\ fresco' = FALSE
  /\ UNCHANGED <<chiamata, lavori, risultati, elenco, corrente, spazi, vm, cambiato, letti, cadute>>

\* _process: a file that is gone is a job that failed
Prende(r) ==
  /\ corrente = Nulla /\ r \in elenco /\ elenco' = elenco \ {r}
  /\ IF r \in lavori
     THEN corrente' = [job |-> r, passo |-> "esegue"] /\ letti' = letti \union {r} /\ UNCHANGED risultati
     ELSE risultati' = [risultati EXCEPT ![r] = "errore"] /\ UNCHANGED <<corrente, letti>>
  /\ UNCHANGED <<chiamata, lavori, fresco, spazi, vm, cambiato, cadute>>

In(r, p, a) == corrente = [job |-> r, passo |-> p] /\ chiamata[r].azione = a
Esito(r, e) == corrente' = [job |-> r, passo |-> e]

\* Mutant of Crea: the limit is looked at when the copy is there.
CreaSenzaLimite(r) ==
  /\ In(r, "esegue", "create")
  /\ spazi' = spazi \union {[di |-> r, intero |-> FALSE, n |-> cambiato[r]]} /\ Esito(r, "copia")
  /\ UNCHANGED <<chiamata, lavori, risultati, fresco, elenco, vm, cambiato, letti, cadute>>

\* _create: the limit counts the directories; the metadata come last
Crea(r) ==
  /\ In(r, "esegue", "create")
  /\ IF Cardinality(spazi) >= MaxSpazi THEN Esito(r, "errore") /\ UNCHANGED spazi
     ELSE spazi' = spazi \union {[di |-> r, intero |-> FALSE, n |-> cambiato[r]]} /\ Esito(r, "copia")
  /\ UNCHANGED <<chiamata, lavori, risultati, fresco, elenco, vm, cambiato, letti, cadute>>

Completa(r) ==
  /\ In(r, "copia", "create") /\ Esito(r, "ok")
  /\ LET mio == CHOOSE s \in Di(r) : \A t \in Di(r) : t.n <= s.n
     IN spazi' = (spazi \ {mio}) \union {[mio EXCEPT !.intero = TRUE]}
  /\ cambiato' = [cambiato EXCEPT ![r] = @ + 1]
  /\ UNCHANGED <<chiamata, lavori, risultati, fresco, elenco, vm, letti, cadute>>

\* _replace: the number of occurrences must be the expected one, and after the change it
\* no longer is
Sostituisce(r) ==
  /\ In(r, "esegue", "replace")
  /\ IF cambiato[r] = 0
     THEN cambiato' = [cambiato EXCEPT ![r] = 1] /\ Esito(r, "ok")
     ELSE Esito(r, "errore") /\ UNCHANGED cambiato
  /\ UNCHANGED <<chiamata, lavori, risultati, fresco, elenco, spazi, vm, letti, cadute>>

\* _discard, of a workspace status names
Butta(r) ==
  /\ In(r, "esegue", "discard")
  /\ \/ \E s \in spazi : s.intero /\ spazi' = spazi \ {s} /\ Esito(r, "ok")
     \/ {s \in spazi : s.intero} = {} /\ Esito(r, "errore") /\ UNCHANGED spazi
  /\ UNCHANGED <<chiamata, lavori, risultati, fresco, elenco, vm, cambiato, letti, cadute>>

Risponde(r) ==
  /\ corrente.job = r /\ corrente.passo \in {"ok", "errore"}
  /\ risultati' = [risultati EXCEPT ![r] = corrente.passo]
  /\ corrente' = [job |-> r, passo |-> "risposto"]
  /\ UNCHANGED <<chiamata, lavori, fresco, elenco, spazi, vm, cambiato, letti, cadute>>

\* Mutant of Toglie: an answered job is left for the next round.
ToglieMai(r) ==
  /\ corrente = [job |-> r, passo |-> "risposto"] /\ corrente' = Nulla
  /\ UNCHANGED <<chiamata, lavori, risultati, fresco, elenco, spazi, vm, cambiato, letti, cadute>>

Toglie(r) ==
  /\ corrente = [job |-> r, passo |-> "risposto"] /\ corrente' = Nulla
  /\ lavori' = lavori \ {r}
  /\ UNCHANGED <<chiamata, risultati, fresco, elenco, spazi, vm, cambiato, letti, cadute>>

\* a crash: what the volume holds stays, the job with it
Cade ==
  /\ cadute < MaxCadute /\ cadute' = cadute + 1
  /\ corrente' = Nulla /\ elenco' = {} /\ fresco' = FALSE
  /\ UNCHANGED <<chiamata, lavori, risultati, spazi, vm, cambiato, letti>>

Lavora(r) ==
  Prende(r) \/ Crea(r) \/ Completa(r) \/ Sostituisce(r) \/ Butta(r) \/ Risponde(r) \/ Toglie(r)
Runner == Giro \/ \E r \in Richiesta : Lavora(r)
Cliente(r) == Sceglie(r) \/ Sbx(r) \/ Chiama(r) \/ Legge(r) \/ Rinuncia(r)
Next == Runner \/ Invecchia \/ Cade \/ \E r \in Richiesta : Cliente(r)

Spec == Init /\ [][Next]_vars
FairSpec == Spec /\ WF_vars(Runner) /\ \A r \in Richiesta : WF_vars(Cliente(r))

-----------------------------------------------------------------------------
(* Properties. *)

TypeOK ==
  /\ lavori \subseteq Richiesta /\ elenco \subseteq Richiesta /\ letti \subseteq Richiesta
  /\ \A r \in Richiesta : /\ risultati[r] \in {"", "ok", "errore"}
                          /\ chiamata[r].passo \in {"ferma", "sbx", "docker", "attende", "fine"}
                          /\ (r \in lavori => chiamata[r].passo # "ferma")
  /\ (corrente = Nulla \/ corrente.job \in letti)

\* Each job is done at most once more than the runner has crashed, however the client
\* waits, gives up or finds an old answer.
FattoUnaVolta == \A r \in Richiesta : cambiato[r] <= 1 + cadute

\* A call that gave up before the runner had read its job has no effect afterwards: the
\* model was told of a timeout and the workspace is as it was.
PassoSenzaEffetto ==
  \A r \in Richiesta : chiamata[r].esito = "scaduto" /\ r \notin letti => r \notin letti'
RinunciaSenzaEffetto == [][PassoSenzaEffetto]_vars

\* A call answered "ok" by the runner has made its change, and a change refused was not
\* made by a runner that never crashed.
RispostaVera ==
  \A r \in Richiesta : chiamata[r].esito = "ok" /\ chiamata[r].azione = "replace" => cambiato[r] >= 1

\* The limit holds for the runner's workspaces, those left half made by a crash included.
SpaziEntroLimite == Cardinality(spazi) <= MaxSpazi

\* "workspace limit reached; discard an old workspace" (sandbox/runner.py): every
\* workspace the limit counts is one that status names, so that it can be discarded,
\* unless it is being made.
LimiteScartabile == \A s \in spazi : s.intero \/ corrente = [job |-> s.di, passo |-> "copia"]

\* A replacement reported as failed was not made ("replace richiede un numero esatto di
\* occorrenze per evitare modifiche ambigue", docs/code-sandbox.md).
FallitaNonFatta ==
  \A r \in Richiesta : chiamata[r].esito = "errore" /\ chiamata[r].azione = "replace" => cambiato[r] = 0

\* Every call ends.
ChiamataFinisce == \A r \in Richiesta : <>(chiamata[r].passo = "fine")
=============================================================================
