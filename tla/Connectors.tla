----------------------------- MODULE Connectors ------------------------------
(***************************************************************************)
(* The connectors to outside services (control-plane/connectors): the      *)
(* manager that finds them, offers their tools to the model and calls      *)
(* them, the policy that says which of them may write                      *)
(* (shared/connector_policy.py), the breaker that leaves a failing one     *)
(* alone for a while.                                                      *)
(*                                                                         *)
(* A save in Setup rebuilds policy and connectors, one after the other,    *)
(* while threads are half way through a call; "github" takes its account   *)
(* when it is built, "office365" at every call, "google" at every call,    *)
(* through a cache of services.                                            *)
(***************************************************************************)
EXTENDS Naturals, FiniteSets

CONSTANTS
  Chiamata,    \* threads that call a tool
  Connettore,  \* "github", "google", "office365"
  Conto,       \* accounts of the services
  Nessuno,     \* no credentials
  Conf,        \* configurations the operator may save
  ContoDi,     \* [Conf -> [Connettore -> Conto or Nessuno]]
  Scrive,      \* [Conf -> connectors whose write tools are allowed]
  Soglia,      \* CONNECTOR_FAILURE_THRESHOLD
  Pausa,       \* CONNECTOR_COOLDOWN_S
  MaxSalvataggi, MaxChiamate

VARIABLES
  ambiente,   \* the configuration in os.environ
  ricarica,   \* where reload is
  politica,   \* ConnectorManager.policy, by the configuration it was made from
  attivi,     \* [Connettore -> the account it was built with]
  catalogo,   \* the tools of the connectors in BUILTIN_TOOLS
  colpi,      \* _failures
  pausa,      \* what is left of _cooldown_until
  fila,       \* failures in a row since the last reload, for whoever counts them
  servizi,    \* _SERVICE_CACHE of google: [Conto -> the account its service acts for]
  chiamate,   \* [Chiamata -> record]
  gara,       \* a failure was being counted while reload cleared the counters
  salvataggi, fatte

vars == <<ambiente, ricarica, politica, attivi, catalogo, colpi, pausa, fila, servizi, chiamate,
          gara, salvataggi, fatte>>

\* tools: one that reads and one that writes for each connector
Strumento == [c : Connettore, scrive : BOOLEAN]
Ferma == [fase |-> "ferma", t |-> CHOOSE t \in Strumento : ~t.scrive, conto |-> Nessuno,
          chiave |-> Nessuno, tentativi |-> 0, effetti |-> {}, volte |-> 0, turbata |-> FALSE,
          estranea |-> FALSE]
Accesi(conf) == {c \in Connettore : ContoDi[conf][c] # Nessuno}
\* ConnectorPolicy.write_allowed
Ammesso(conf, t) == t.scrive => t.c \in Scrive[conf]
\* get_all_tools
Esposti(conf, con) == {t \in Strumento : con[t.c] # Nessuno /\ Ammesso(conf, t)}

Init ==
  /\ ambiente \in Conf /\ politica = ambiente /\ attivi = ContoDi[ambiente]
  /\ ricarica = "ferma" /\ catalogo = Esposti(politica, attivi)
  /\ colpi = [c \in Connettore |-> 0] /\ pausa = colpi /\ fila = colpi
  /\ servizi = [a \in Conto |-> Nessuno]
  /\ chiamate = [x \in Chiamata |-> Ferma]
  /\ gara = FALSE /\ salvataggi = 0 /\ fatte = 0

-----------------------------------------------------------------------------
(* reload, after a save of the section "Connettori". *)

\* who is calling meanwhile
Turbate == [x \in Chiamata |-> [chiamate[x] EXCEPT !.turbata = chiamate[x].fase # "ferma"]]

Salva(conf) ==
  /\ ricarica = "ferma" /\ salvataggi < MaxSalvataggi /\ salvataggi' = salvataggi + 1
  /\ ambiente' = conf /\ ricarica' = "politica" /\ chiamate' = Turbate
  /\ UNCHANGED <<politica, attivi, catalogo, colpi, pausa, fila, servizi, gara, fatte>>

NuovaPolitica ==
  /\ ricarica = "politica" /\ ricarica' = "azzera"
  /\ politica' = ambiente
  /\ UNCHANGED <<ambiente, attivi, catalogo, colpi, pausa, fila, servizi, chiamate, gara,
                 salvataggi, fatte>>

\* the breaker starts again, without the lock
Azzera ==
  /\ ricarica = "azzera" /\ ricarica' = "posa"
  /\ colpi' = [c \in Connettore |-> 0] /\ pausa' = colpi' /\ fila' = colpi'
  /\ gara' = (gara \/ \E x \in Chiamata : chiamate[x].fase = "conta")
  /\ UNCHANGED <<ambiente, politica, attivi, catalogo, servizi, chiamate, salvataggi, fatte>>

Posa ==
  /\ ricarica = "posa" /\ ricarica' = "catalogo"
  /\ attivi' = ContoDi[ambiente]
  /\ UNCHANGED <<ambiente, politica, catalogo, colpi, pausa, fila, servizi, chiamate, gara,
                 salvataggi, fatte>>

\* Mutant of Sincronizza: the policy is left to execute.
SincronizzaTutti ==
  /\ ricarica = "catalogo" /\ ricarica' = "ferma"
  /\ catalogo' = {t \in Strumento : attivi[t.c] # Nessuno}
  /\ chiamate' = Turbate
  /\ UNCHANGED <<ambiente, politica, attivi, colpi, pausa, fila, servizi, gara, salvataggi, fatte>>

\* _sync_connector_tools
Sincronizza ==
  /\ ricarica = "catalogo" /\ ricarica' = "ferma"
  /\ catalogo' = Esposti(politica, attivi)
  /\ chiamate' = Turbate
  /\ UNCHANGED <<ambiente, politica, attivi, colpi, pausa, fila, servizi, gara, salvataggi, fatte>>

-----------------------------------------------------------------------------
(* ConnectorManager.execute. *)

Resta(x, r) == chiamate' = [chiamate EXCEPT ![x] = r]
Finisce(x) == Resta(x, Ferma)
AltroFermo == UNCHANGED <<ambiente, ricarica, politica, attivi, catalogo, salvataggi>>

\* a tool of the catalogue, or one the caller remembers; the connector is the one of the list
\* as it is now
Chiama(x, t) ==
  /\ chiamate[x].fase = "ferma" /\ fatte < MaxChiamate /\ fatte' = fatte + 1
  /\ attivi[t.c] # Nessuno
  /\ Resta(x, [Ferma EXCEPT !.fase = "trovato", !.t = t, !.conto = attivi[t.c],
                            !.turbata = ricarica # "ferma"])
  /\ AltroFermo /\ UNCHANGED <<colpi, pausa, fila, servizi, gara>>

\* Mutant of Bloccata: what is not in the catalogue is not asked for.
BloccataMai(t) == FALSE

Bloccata(t) == ~Ammesso(politica, t)

Controlla(x) ==
  LET t == chiamate[x].t IN
  /\ chiamate[x].fase = "trovato"
  /\ IF Bloccata(t) \/ pausa[t.c] > 0 THEN Finisce(x)
     ELSE Resta(x, [chiamate[x] EXCEPT !.fase = CASE t.c = "google" -> "chiave"
                                               [] t.c = "office365" -> "accede"
                                               [] OTHER -> "chiede"])
  /\ AltroFermo /\ UNCHANGED <<colpi, pausa, fila, servizi, gara, fatte>>

\* _build_service: the key by the account that is set now, and the cached service
Chiave(x) ==
  LET a == ContoDi[ambiente]["google"] IN
  /\ chiamate[x].fase = "chiave"
  /\ Resta(x, IF a \in Conto /\ servizi[a] # Nessuno
              THEN [chiamate[x] EXCEPT !.fase = "chiede", !.conto = servizi[a],
                                       !.estranea = servizi[a] # a]
              ELSE [chiamate[x] EXCEPT !.fase = "costruisce", !.chiave = a])
  /\ AltroFermo /\ UNCHANGED <<colpi, pausa, fila, servizi, gara, fatte>>

\* the service, by the credentials that are set now; without them the tool says so
Costruisce(x) ==
  LET a == ContoDi[ambiente]["google"]  k == chiamate[x].chiave IN
  /\ chiamate[x].fase = "costruisce"
  /\ IF a = Nessuno
     THEN /\ Resta(x, [chiamate[x] EXCEPT !.fase = "riuscita"]) /\ UNCHANGED servizi
     ELSE /\ Resta(x, [chiamate[x] EXCEPT !.fase = "chiede", !.conto = a])
          /\ servizi' = IF k = Nessuno THEN servizi ELSE [servizi EXCEPT ![k] = a]
  /\ AltroFermo /\ UNCHANGED <<colpi, pausa, fila, gara, fatte>>

\* Office365Connector: every tool signs in with the credentials that are set now; without
\* them the error is its answer
Accede(x) ==
  LET a == ContoDi[ambiente]["office365"] IN
  /\ chiamate[x].fase = "accede"
  /\ Resta(x, IF a = Nessuno THEN [chiamate[x] EXCEPT !.fase = "riuscita"]
              ELSE [chiamate[x] EXCEPT !.fase = "chiede", !.conto = a])
  /\ AltroFermo /\ UNCHANGED <<colpi, pausa, fila, servizi, gara, fatte>>

\* Mutant of Tentativi: every request is made twice.
TentativiDue(t) == 2

\* GitHubConnector._request: a GET again after an error of the network or of the server
Tentativi(t) == IF t.scrive \/ t.c # "github" THEN 1 ELSE 2

\* the service answers, or it does not and may have done its part; an error of the service
\* is told as a result, while one of the connector itself is an exception
Chiede(x) ==
  LET q == chiamate[x]
      Fatta(fase, presa) ==
        Resta(x, [q EXCEPT !.fase = fase, !.tentativi = @ + 1,
                           !.effetti = IF presa THEN @ \cup {q.conto} ELSE @,
                           !.volte = IF presa THEN @ + 1 ELSE @])
  IN
  /\ q.fase = "chiede"
  /\ \E presa \in IF q.t.scrive THEN BOOLEAN ELSE {FALSE} :
       \/ presa = q.t.scrive /\ Fatta("riuscita", presa)
       \/ Fatta(IF q.tentativi + 1 < Tentativi(q.t) THEN "chiede" ELSE "riuscita", presa)
       \/ Fatta("esplosa", presa)
  /\ AltroFermo /\ UNCHANGED <<colpi, pausa, fila, servizi, gara, fatte>>

\* the lock of the counters
Libero == \A y \in Chiamata : chiamate[y].fase # "conta"

\* Mutant of Riuscita: only the pause is taken away.
RiuscitaNonAzzera(x) ==
  LET c == chiamate[x].t.c IN
  /\ chiamate[x].fase = "riuscita" /\ Finisce(x) /\ Libero
  /\ pausa' = [pausa EXCEPT ![c] = 0] /\ fila' = [fila EXCEPT ![c] = 0]
  /\ AltroFermo /\ UNCHANGED <<colpi, servizi, gara, fatte>>

\* _note_success, for whatever is not an exception
Riuscita(x) ==
  LET c == chiamate[x].t.c IN
  /\ chiamate[x].fase = "riuscita" /\ Finisce(x) /\ Libero
  /\ colpi' = [colpi EXCEPT ![c] = 0] /\ pausa' = [pausa EXCEPT ![c] = 0]
  /\ fila' = [fila EXCEPT ![c] = 0]
  /\ AltroFermo /\ UNCHANGED <<servizi, gara, fatte>>

\* _note_failure: the count is read and then written, under a lock that reload does not take
Esplosa(x) ==
  LET c == chiamate[x].t.c IN
  /\ chiamate[x].fase = "esplosa" /\ Libero
  /\ Resta(x, [chiamate[x] EXCEPT !.fase = "conta", !.tentativi = colpi[c] + 1])
  /\ fila' = [fila EXCEPT ![c] = IF @ < Soglia THEN @ + 1 ELSE @]
  /\ AltroFermo /\ UNCHANGED <<colpi, pausa, servizi, gara, fatte>>

Conta(x) ==
  LET c == chiamate[x].t.c  n == chiamate[x].tentativi IN
  /\ chiamate[x].fase = "conta" /\ Finisce(x)
  /\ colpi' = [colpi EXCEPT ![c] = IF n < Soglia THEN n ELSE Soglia]
  /\ pausa' = IF n >= Soglia THEN [pausa EXCEPT ![c] = Pausa] ELSE pausa
  /\ AltroFermo /\ UNCHANGED <<fila, servizi, gara, fatte>>

Passa ==
  /\ pausa' = [c \in Connettore |-> IF pausa[c] > 0 THEN pausa[c] - 1 ELSE 0]
  /\ AltroFermo /\ UNCHANGED <<colpi, fila, servizi, chiamate, gara, fatte>>

Next ==
  \/ \E conf \in Conf : Salva(conf)
  \/ NuovaPolitica \/ Azzera \/ Posa \/ Sincronizza \/ Passa
  \/ \E x \in Chiamata :
       \/ \E t \in Strumento : Chiama(x, t)
       \/ Controlla(x) \/ Chiave(x) \/ Costruisce(x) \/ Accede(x) \/ Chiede(x)
       \/ Riuscita(x) \/ Esplosa(x) \/ Conta(x)

Spec == Init /\ [][Next]_vars

-----------------------------------------------------------------------------
TypeOK ==
  /\ ambiente \in Conf /\ politica \in Conf /\ catalogo \subseteq Strumento
  /\ ricarica \in {"ferma", "politica", "azzera", "posa", "catalogo"}
  /\ attivi \in [Connettore -> Conto \cup {Nessuno}]
  /\ colpi \in [Connettore -> 0..Soglia] /\ pausa \in [Connettore -> 0..Pausa]
  /\ fila \in [Connettore -> 0..Soglia] /\ servizi \in [Conto -> Conto \cup {Nessuno}]
  /\ \A x \in Chiamata : chiamate[x].fase \in {"ferma", "trovato", "chiave", "costruisce", "accede",
                                              "chiede", "riuscita", "esplosa", "conta"}

\* A call writes at most once, whatever answer is lost: only a GET is made again
\* (GitHubConnector._request).
EffettoUnico == \A x \in Chiamata : chiamate[x].volte <= 1

\* A call that no reload has met writes only if the configuration in force allows it and
\* for the account of that configuration, even when the caller remembers a tool that has
\* left the catalogue (execute asks the policy again); a service cached under the key of
\* another account is the exception.
ScritturaAmmessa ==
  \A x \in Chiamata : LET q == chiamate[x] IN
    ~q.turbata /\ q.volte > 0 =>
      Ammesso(ambiente, q.t) /\ (~q.estranea => q.effetti = {ContoDi[ambiente][q.t.c]})

\* When no reload is under way the catalogue offers the tools of the connectors that are
\* configured, and of those that write only the allowed ones (get_all_tools).
CatalogoVero ==
  ricarica = "ferma" => catalogo = Esposti(ambiente, ContoDi[ambiente])

\* A connector is left alone only after so many exceptions in a row, none of its calls having
\* come back in between, unless a failure was being counted while the counters were cleared.
PausaMeritata == \A c \in Connettore : pausa[c] > 0 /\ ~gara => fila[c] >= Soglia

\* the same without these conditions: a cached service acts for the account it is stored
\* under, a call that a reload meets writes for an account one configuration allows
CacheFedele == \A a \in Conto : servizi[a] \in {a, Nessuno}
UnaConfigurazione ==
  \A x \in Chiamata : LET q == chiamate[x] IN
    q.volte > 0 => \E conf \in Conf : Ammesso(conf, q.t) /\ q.effetti = {ContoDi[conf][q.t.c]}
=============================================================================
