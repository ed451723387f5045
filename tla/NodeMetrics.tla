----------------------------- MODULE NodeMetrics -----------------------------
(***************************************************************************)
(* The telemetry of a node (src/node/backend_metrics.py): a collector asks *)
(* the engine, reads the log of interactions that the proxy appends to     *)
(* (node/ollama_proxy.py) and puts the result in a cache.  Two requests    *)
(* that miss the cache collect together: each waits for its answers while  *)
(* the other goes on, and answers may be overtaken.                        *)
(*                                                                         *)
(* Engines: Ollama and ds4 tell what is loaded, vLLM also a counter of     *)
(* tokens for every model, which restarts from zero with the server, and a *)
(* histogram of latencies.                                                 *)
(***************************************************************************)
EXTENDS Naturals, Sequences

CONSTANTS
  Modello, Motore,
  Lettore,       \* requests of /metrics under way together
  ModelliNoti,   \* is VLLM_MODELS set?
  Finestra,      \* METRICS_EWMA_READ_MAX
  Ttl,           \* METRICS_CACHE_TTL_S
  MaxRighe,      \* bound: rows of the log
  MaxGettoni,    \* bound: tokens produced for a model
  MaxOra, MaxRiavvii

NodeMetricsAssumption ==
  Finestra \in Nat /\ MaxGettoni \in Nat /\ MaxOra \in Nat \ {0} /\ ModelliNoti \in BOOLEAN

VARIABLES
  motore,    \* INFERENCE_BACKEND
  su,        \* does the engine answer?
  conta,     \* [Modello -> the engine's counter of tokens]
  prodotti,  \* [Modello -> the tokens it has produced]
  righe,     \* interactions.jsonl: whether a row is JSON and ends
  raccolta,  \* [Lettore -> what a collector waits for and what it was answered]
  tassi,     \* _token_rate_state: [Modello -> last sample]
  cache,     \* _cache, of the engine
  ora, riavvii

vars == <<motore, su, conta, prodotti, righe, raccolta, tassi, cache, ora, riavvii>>

Campione == [v : 0..MaxGettoni, at : 0..MaxOra, veri : 0..MaxGettoni]
Mai == [v |-> 0, at |-> 0, veri |-> 0]
Ignoto == [dv |-> 0, dt |-> 0, veri |-> 0]   \* the -1 of _counter_rate
Fermo == [fase |-> "ferma", su |-> FALSE, v |-> [m \in Modello |-> 0],
          veri |-> [m \in Modello |-> 0], insieme |-> FALSE]
Vuota == [at |-> 0, vuota |-> TRUE, su |-> FALSE, monca |-> FALSE, insieme |-> FALSE,
          tasso |-> [m \in Modello |-> Ignoto]]

Init ==
  /\ motore \in Motore /\ su = TRUE
  /\ conta = [m \in Modello |-> 0] /\ prodotti = [m \in Modello |-> 0]
  /\ righe = <<>> /\ raccolta = [l \in Lettore |-> Fermo]
  /\ tassi = [m \in Modello |-> Mai] /\ cache = Vuota
  /\ ora = 1 /\ riavvii = 0

-----------------------------------------------------------------------------
(* The log *)

Monca == righe # <<>> /\ ~righe[Len(righe)].chiusa

\* vLLM is not asked about the log
Spazio == motore # "vllm" /\ Len(righe) < MaxRighe

\* save_interaction; after half a row it is the rest of that row
Registra ==
  /\ Spazio
  /\ righe' = IF Monca THEN [righe EXCEPT ![Len(righe)].chiusa = TRUE]
              ELSE Append(righe, [intera |-> TRUE, chiusa |-> TRUE])
  /\ UNCHANGED <<motore, su, conta, prodotti, raccolta, tassi, cache, ora, riavvii>>

\* the disk takes half of it
RegistraMetaRiga ==
  /\ Spazio /\ ~Monca
  /\ righe' = Append(righe, [intera |-> FALSE, chiusa |-> FALSE])
  /\ UNCHANGED <<motore, su, conta, prodotti, raccolta, tassi, cache, ora, riavvii>>

\* _read_memory: a row that is not JSON raises
Letta == SubSeq(righe, IF Len(righe) > Finestra THEN Len(righe) - Finestra + 1 ELSE 1, Len(righe))
Illeggibile == \E i \in DOMAIN Letta : ~Letta[i].intera

-----------------------------------------------------------------------------
(* The engine *)

Produce(m) ==
  /\ su /\ motore = "vllm" /\ prodotti[m] < MaxGettoni
  /\ conta' = [conta EXCEPT ![m] = @ + 1] /\ prodotti' = [prodotti EXCEPT ![m] = @ + 1]
  /\ UNCHANGED <<motore, su, righe, raccolta, tassi, cache, ora, riavvii>>

Cade ==
  /\ su /\ riavvii < MaxRiavvii /\ riavvii' = riavvii + 1
  /\ su' = FALSE /\ conta' = [m \in Modello |-> 0]
  /\ UNCHANGED <<motore, prodotti, righe, raccolta, tassi, cache, ora>>

Torna ==
  /\ ~su /\ su' = TRUE
  /\ UNCHANGED <<motore, conta, prodotti, righe, raccolta, tassi, cache, ora, riavvii>>

Passa ==
  /\ ora < MaxOra /\ ora' = ora + 1
  /\ UNCHANGED <<motore, su, conta, prodotti, righe, raccolta, tassi, cache, riavvii>>

-----------------------------------------------------------------------------
(* collect_metrics *)

Fresca == cache # Vuota /\ ora - cache.at < Ttl

Inizia(l) ==
  /\ raccolta[l].fase = "ferma" /\ ~Fresca
  /\ LET altri == {k \in Lettore : raccolta[k].fase # "ferma"} IN
     raccolta' = [k \in Lettore |->
       IF k = l THEN [Fermo EXCEPT !.fase = "chiede", !.insieme = altri # {}]
       ELSE IF k \in altri THEN [raccolta[k] EXCEPT !.insieme = TRUE] ELSE raccolta[k]]
  /\ UNCHANGED <<motore, su, conta, prodotti, righe, tassi, cache, ora, riavvii>>

\* the engine answers, or does not
Interroga(l) ==
  /\ raccolta[l].fase = "chiede"
  /\ raccolta' = [raccolta EXCEPT ![l] =
       [@ EXCEPT !.fase = "pubblica", !.su = su, !.v = conta, !.veri = prodotti]]
  /\ UNCHANGED <<motore, su, conta, prodotti, righe, tassi, cache, ora, riavvii>>

\* Mutant of Prima: the samples of all models under one key.
PrimaDiTutti(s, m) == LET n == CHOOSE x \in Modello : \A y \in Modello : s[x].v >= s[y].v IN s[n]

Prima(s, m) == s[m]

\* _counter_rate
Tasso(s, m, v, veri) ==
  LET p == Prima(s, m) IN
  IF p = Mai \/ ora <= p.at \/ v < p.v THEN Ignoto
  ELSE [dv |-> v - p.v, dt |-> ora - p.at, veri |-> veri - p.veri]

\* ds4 that does not answer has nothing loaded, so nothing to read
SenzaRighe(r) == motore = "ds4" /\ ~r.su

\* Mutant of Raccoglie: an engine that is down raises.
RaccoglieSoloSu(r) == IF r.su /\ ~Illeggibile THEN "dati" ELSE "eccezione"

\* collect of the provider; _fetch_models, a static method, cannot be called with "self" alone
Raccoglie(r) ==
  IF motore = "vllm" THEN IF ModelliNoti THEN "dati" ELSE "eccezione"
  ELSE IF Illeggibile /\ ~SenzaRighe(r) THEN "eccezione"
  ELSE "dati"

\* the payload, empty when collect raised, and the cache
Pubblica(l) ==
  LET r == raccolta[l]
      esito == Raccoglie(r)
      conVllm == motore = "vllm" /\ esito = "dati" /\ r.su
  IN
  /\ r.fase = "pubblica"
  /\ cache' = IF esito = "eccezione"
              THEN [Vuota EXCEPT !.at = ora, !.monca = Illeggibile, !.insieme = r.insieme]
              ELSE [at |-> ora, vuota |-> FALSE, su |-> r.su, monca |-> FALSE, insieme |-> r.insieme,
                    tasso |-> [m \in Modello |-> IF conVllm THEN Tasso(tassi, m, r.v[m], r.veri[m])
                                                 ELSE Ignoto]]
  /\ tassi' = IF conVllm
              THEN [m \in Modello |-> [v |-> r.v[m], at |-> ora, veri |-> r.veri[m]]] ELSE tassi
  /\ raccolta' = [raccolta EXCEPT ![l] = Fermo]
  /\ UNCHANGED <<motore, su, conta, prodotti, righe, ora, riavvii>>

Next ==
  \/ Registra \/ RegistraMetaRiga \/ Cade \/ Torna \/ Passa \/ \E m \in Modello : Produce(m)
  \/ \E l \in Lettore : Inizia(l) \/ Interroga(l) \/ Pubblica(l)

Spec == Init /\ [][Next]_vars

-----------------------------------------------------------------------------
(* _hist_quantile: b[i] counts the latencies up to i, n counts them all, and the quantile  *)
(* q (in hundredths) is told in hundredths of a bucket                                      *)

Somma(b, i) ==
  LET somma[j \in 0..i] == IF j = 0 THEN 0 ELSE somma[j - 1] + b[j] IN somma[i]

\* Mutant of Sopra: the last bucket that is under the target.
SopraTroppo(b, n, q, i) == 100 * Somma(b, i) < q * n

Sopra(b, n, q, i) == 100 * Somma(b, i) >= q * n

Primo(s) == CHOOSE i \in s : \A j \in s : i <= j

Quantile(b, n, q) ==
  LET trovati == {i \in DOMAIN b : Sopra(b, n, q, i)}
      i == Primo(trovati)
  IN IF trovati = {} THEN 100 * Len(b)
     ELSE IF i = 1 THEN 100
     ELSE 100 * (i - 1) + (q * n - 100 * Somma(b, i - 1)) \div b[i]

\* what Prometheus estimates: its buckets are cumulative already
QuantileVero(b, n, q) ==
  LET trovati == {i \in DOMAIN b : 100 * b[i] >= q * n}
      i == Primo(trovati)
  IN IF trovati = {} THEN 100 * Len(b)
     ELSE IF i = 1 THEN 100
     ELSE 100 * (i - 1) + (q * n - 100 * b[i - 1]) \div (b[i] - b[i - 1])

-----------------------------------------------------------------------------
TypeOK ==
  /\ motore \in Motore /\ su \in BOOLEAN
  /\ conta \in [Modello -> 0..MaxGettoni] /\ prodotti \in [Modello -> 0..MaxGettoni]
  /\ tassi \in [Modello -> Campione]
  /\ \A i \in DOMAIN righe : righe[i].intera => righe[i].chiusa
  /\ cache.at <= ora

\* An empty payload, which tells nothing of the engine, is served only after a row that the
\* proxy wrote by halves, or by a vLLM whose models are not listed (collect_metrics).
VuotaSpiegata ==
  cache # Vuota /\ cache.vuota =>
    \/ cache.monca /\ motore # "vllm"
    \/ motore = "vllm" /\ ~ModelliNoti

\* The tokens per second of a model are never more than what it produced between the two
\* samples, whatever restarts in between, unless two collections overlapped
\* (_counter_rate).
TassoNonGonfiato ==
  ~cache.insieme => \A m \in Modello : cache.tasso[m].dv <= cache.tasso[m].veri

\* node/backend_metrics.py:237 "se il counter è stato resettato (impossibile derivare un
\* rate affidabile)": with two collections the state goes back and the rate is inflated.
TassoMaiGonfiato == \A m \in Modello : cache.tasso[m].dv <= cache.tasso[m].veri

Istogramma == {h \in [1..3 -> 0..3] \X (1..4) :
                 h[1][1] <= h[1][2] /\ h[1][2] <= h[1][3] /\ h[1][3] <= h[2]}

\* The quantiles told are in order, inside the buckets, and never above the true ones
\* (_hist_quantile).
QuantiliOrdinati ==
  \A h \in Istogramma :
    LET Q(q) == Quantile(h[1], h[2], q) IN
    /\ 0 <= Q(50) /\ Q(50) <= Q(95) /\ Q(95) <= 300
    /\ \A q \in {50, 95} : Q(q) <= QuantileVero(h[1], h[2], q)

\* node/backend_metrics.py:641 "stima stile Prometheus": the code adds up buckets that are
\* cumulative already, so its quantiles are too low.
QuantiliReali ==
  \A h \in Istogramma, q \in {50, 95} : Quantile(h[1], h[2], q) = QuantileVero(h[1], h[2], q)
=============================================================================
