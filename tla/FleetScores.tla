---------------------------- MODULE FleetScores ----------------------------
(***************************************************************************)
(* How a node is chosen: the thread that collects metrics (cp/metriche.py),*)
(* the cache of the scores (cp/mesh.py), the formula (routing.py) and the  *)
(* selection with its memory of the last choices (main.py, cp/mesh.py).    *)
(*                                                                         *)
(* Scores are integers: percentages times tenths.  Tier, uptime, backend   *)
(* and the throughput signals are taken to be equal among the candidates.  *)
(***************************************************************************)
EXTENDS Integers, FiniteSets, FiniteSetsExt

CONSTANTS
  Nodo,           \* active executable nodes: a set of numbers, in the registry's order
  Vram,           \* [Nodo -> Nat]
  Campione,       \* samples: [lat, carico : 0..10, degradato, su : BOOLEAN]
  MaxAttesa,      \* METRICS_MAX_BACKOFF_S in cycles of the collector
  MaxEsponente,   \* failures in a row after which 2^n no longer fits a float
  Memoria         \* ROUTING_RECENT_WINDOW_S: choices after which one is forgotten

VARIABLES
  campioni,    \* _node_metrics_cache: the last sample, and whether it is fresh
  guasti,      \* fail_streak
  attesa,      \* next_try_at, in cycles from now
  raccolta,    \* [fase, esiti, nuovi]: the collector thread, whether it has new samples
  cache,       \* [valida, visti]: _SCORE_CACHE, by the samples it was computed from
  lettore,     \* [resto, visti]: the holder of _score_cache_lock, if resto is not Nessuno
  scelti,      \* _recent_routing_picks of cp/mesh.py: how many choices ago
  letti,       \* _recent_routing_picks of main.py
  rete         \* what GET /metrics would find: a sample or Guasto

vars == <<campioni, guasti, attesa, raccolta, cache, lettore, scelti, letti, rete>>

Guasto == [nessuno |-> "guasto"]
Mai == [nessuno |-> "mai"]
Scordato == Memoria + 1
Nessuno == {0}  \* 0 is no node
Ignoto == [dato |-> Mai, fresco |-> FALSE]
Noto(c, f) == [dato |-> c, fresco |-> f]
Visti == {Ignoto} \union {Noto(c, f) : c \in Campione, f \in BOOLEAN}

-----------------------------------------------------------------------------
(* routing.py: extract_signal, rank_signals, compute_score. *)

Misure(visti, campo(_)) == {campo(visti[n].dato) : n \in {m \in Nodo : visti[m].dato # Mai}}

\* _norm_high, in tenths: half where there is nothing to compare with
Norma(x, valori) ==
  LET lo == Min(valori)  hi == Max(valori) IN
  IF valori = {} \/ Cardinality(valori) = 1 THEN 5 ELSE (10 * (x - lo)) \div (hi - lo)

Latenza(c) == c.lat

\* _quality_score and _structural_score of a node among the candidates
Qualita(visti, n) == 10 - Norma(visti[n].dato.lat, Misure(visti, Latenza))
Struttura(visti, n) ==
  LET d == visti[n].dato
      carico == IF d = Mai THEN 5 ELSE IF d.degradato THEN 0 ELSE 10 - d.carico
  IN 7 * Norma(Vram[n], {Vram[m] : m \in Nodo}) + 3 * carico

\* health_s in tenths
Salute(v) ==
  IF v.dato = Mai THEN 6
  ELSE IF ~v.dato.su THEN 0
  ELSE IF ~v.fresco \/ v.dato.degradato THEN 4 ELSE 10

\* how many points a choice made k choices ago takes away
Penalita(k) == IF k = Scordato THEN 0 ELSE 100 \div (k + 1)

Punti(visti, recenti, n) ==
  Salute(visti[n]) * (IF visti[n].dato # Mai /\ visti[n].fresco
                      THEN 10 * Qualita(visti, n) ELSE Struttura(visti, n))
  - Penalita(recenti[n])

\* Mutant of RecentTs: the choices the mesh has written.
RecentTsDelMesh(n) == scelti[n]

\* _recent_ts of main.py, which reads the dictionary of its own module
RecentTs(n) == letti[n]

\* the first of the stable sort by score
Migliore(visti) ==
  LET p == [n \in Nodo |-> Punti(visti, [m \in Nodo |-> RecentTs(m)], n)]
  IN Min({n \in Nodo : \A m \in Nodo : p[n] >= p[m]})

-----------------------------------------------------------------------------

Init ==
  /\ campioni = [n \in Nodo |-> Ignoto]
  /\ guasti = [n \in Nodo |-> 0] /\ attesa = [n \in Nodo |-> 0]
  /\ raccolta = [fase |-> "dorme", esiti |-> [n \in Nodo |-> Mai], nuovi |-> FALSE]
  /\ cache = [valida |-> FALSE, visti |-> campioni]
  /\ lettore = [resto |-> Nessuno, visti |-> campioni]
  /\ scelti = [n \in Nodo |-> Scordato] /\ letti = scelti
  /\ rete \in [Nodo -> Campione \union {Guasto}]

(* _collect_node_metrics and metrics_loop. *)

\* Mutant of Interroga: a wait never ends.
InterrogaSenzaScadenza ==
  /\ raccolta.fase = "dorme"
  /\ raccolta' = [fase |-> "scrive", nuovi |-> FALSE,
                  esiti |-> [n \in Nodo |-> IF attesa[n] = 0 THEN rete[n] ELSE Mai]]
  /\ UNCHANGED <<campioni, guasti, attesa, cache, lettore, scelti, letti, rete>>

\* the nodes out of their backoff are asked in parallel
Interroga ==
  /\ raccolta.fase = "dorme"
  /\ raccolta' = [fase |-> "scrive", nuovi |-> FALSE,
                  esiti |-> [n \in Nodo |-> IF attesa[n] = 0 THEN rete[n] ELSE Mai]]
  /\ attesa' = [n \in Nodo |-> IF attesa[n] = 0 THEN 0 ELSE attesa[n] - 1]
  /\ UNCHANGED <<campioni, guasti, cache, lettore, scelti, letti, rete>>

Backoff(k) == Min({2 ^ (k - 1), MaxAttesa})

\* Mutant of Fallito: the wait has no upper bound.
FallitoSenzaTetto(n) ==
  /\ guasti' = [guasti EXCEPT ![n] = @ + 1]
  /\ attesa' = [attesa EXCEPT ![n] = 2 ^ guasti[n]]

\* METRICS_BACKOFF_BASE_S * 2 ** (fail_streak - 1) is a float
Fallito(n) ==
  /\ guasti' = [guasti EXCEPT ![n] = @ + 1]
  /\ attesa' = (IF guasti[n] = MaxEsponente THEN attesa
                ELSE [attesa EXCEPT ![n] = Backoff(guasti[n] + 1)])

\* the first failure that overflows ends the thread
Scrive(n) ==
  LET e == raccolta.esiti[n] IN
  /\ raccolta.fase = "scrive" /\ e # Mai
  /\ \/ /\ e = Guasto /\ Fallito(n)
        /\ raccolta' = (IF guasti[n] = MaxEsponente THEN [raccolta EXCEPT !.fase = "morto"]
                        ELSE [raccolta EXCEPT !.esiti[n] = Mai])
        /\ UNCHANGED campioni
     \/ /\ e # Guasto
        /\ campioni' = [campioni EXCEPT ![n] = Noto(e, TRUE)]
        /\ guasti' = [guasti EXCEPT ![n] = 0] /\ attesa' = [attesa EXCEPT ![n] = 0]
        /\ raccolta' = [raccolta EXCEPT !.esiti[n] = Mai, !.nuovi = TRUE]
  /\ UNCHANGED <<cache, lettore, scelti, letti, rete>>

\* Mutant of Invalida: without _score_cache_lock.
InvalidaSenzaLucchetto == cache' = [cache EXCEPT !.valida = FALSE]

\* _invalidate_fleet_scores
Invalida ==
  /\ lettore.resto = Nessuno
  /\ cache' = [cache EXCEPT !.valida = FALSE]

FineRaccolta ==
  /\ raccolta.fase = "scrive" /\ \A n \in Nodo : raccolta.esiti[n] = Mai
  /\ IF raccolta.nuovi THEN Invalida ELSE UNCHANGED cache
  /\ raccolta' = [raccolta EXCEPT !.fase = "dorme", !.nuovi = FALSE]
  /\ UNCHANGED <<campioni, guasti, attesa, lettore, scelti, letti, rete>>

Raccolta == Interroga \/ FineRaccolta \/ \E n \in Nodo : Scrive(n)

(* _fleet_scores: one request computes, the others wait for the lock. *)

Calcola ==
  /\ lettore.resto = Nessuno /\ ~cache.valida
  /\ lettore' = [lettore EXCEPT !.resto = Nodo]
  /\ UNCHANGED <<campioni, guasti, attesa, raccolta, cache, scelti, letti, rete>>

\* the samples are read one by one
LeggeCampione(n) ==
  /\ lettore.resto # Nessuno /\ n \in lettore.resto
  /\ lettore' = [resto |-> lettore.resto \ {n},
                 visti |-> [lettore.visti EXCEPT ![n] = campioni[n]]]
  /\ UNCHANGED <<campioni, guasti, attesa, raccolta, cache, scelti, letti, rete>>

Calcolato ==
  /\ lettore.resto = {}
  /\ cache' = [valida |-> TRUE, visti |-> lettore.visti]
  /\ lettore' = [lettore EXCEPT !.resto = Nessuno]
  /\ UNCHANGED <<campioni, guasti, attesa, raccolta, scelti, letti, rete>>

(* _select_best_node with _record_routing_pick; no local node.  The choice has *)
(* scores of its own: it does not read the cache.                              *)

Scegli ==
  LET b == Migliore(campioni) IN
  /\ Invalida
  /\ scelti' = [n \in Nodo |->
       IF n = b THEN 0 ELSE Min({scelti[n] + 1, Scordato})]
  /\ UNCHANGED <<campioni, guasti, attesa, raccolta, lettore, letti, rete>>

(* Time: a sample that is not renewed grows old, the cache expires; nodes fail. *)

Invecchia(n) ==
  /\ campioni[n].fresco /\ guasti[n] > 0
  /\ campioni' = [campioni EXCEPT ![n].fresco = FALSE]
  /\ UNCHANGED <<guasti, attesa, raccolta, cache, lettore, scelti, letti, rete>>

Scade ==
  /\ cache.valida /\ lettore.resto = Nessuno
  /\ cache' = [cache EXCEPT !.valida = FALSE]
  /\ UNCHANGED <<campioni, guasti, attesa, raccolta, lettore, scelti, letti, rete>>

Cambia(n, c) ==
  /\ rete[n] # c
  /\ rete' = [rete EXCEPT ![n] = c]
  /\ UNCHANGED <<campioni, guasti, attesa, raccolta, cache, lettore, scelti, letti>>

Next ==
  \/ Raccolta \/ Calcola \/ Calcolato \/ Scegli \/ Scade
  \/ \E n \in Nodo : LeggeCampione(n) \/ Invecchia(n)
  \/ \E n \in Nodo, c \in Campione \union {Guasto} : Cambia(n, c)

Spec == Init /\ [][Next]_vars

\* The loop of the collector goes on; a request that holds the lock lets it go,
\* and the collector that waits for it again and again gets it.
FairSpec ==
  /\ Spec
  /\ WF_vars(Raccolta) /\ SF_vars(FineRaccolta) /\ WF_vars(Calcolato)
  /\ \A n \in Nodo : WF_vars(LeggeCampione(n))

-----------------------------------------------------------------------------
(* Properties. *)

TypeOK ==
  /\ campioni \in [Nodo -> Visti] /\ cache \in [valida : BOOLEAN, visti : [Nodo -> Visti]]
  /\ guasti \in [Nodo -> 0 .. MaxEsponente + 1] /\ attesa \in [Nodo -> 0 .. MaxAttesa]
  /\ raccolta.fase \in {"dorme", "scrive", "morto"} /\ raccolta.nuovi \in BOOLEAN
  /\ raccolta.esiti \in [Nodo -> Campione \union {Guasto, Mai}]
  /\ (lettore.resto \subseteq Nodo \/ lettore.resto = Nessuno) /\ lettore.visti \in [Nodo -> Visti]
  /\ scelti \in [Nodo -> 0 .. Scordato] /\ letti \in [Nodo -> 0 .. Scordato]
  /\ rete \in [Nodo -> Campione \union {Guasto}]

\* "Campioni freschi -> lo score riflette subito carico, saturazione, degradazione"
\* (cp/metriche.py): while the collector sleeps, scores in the cache come from the
\* last sample of every node, also when a request was computing them meanwhile.
CacheRiflette ==
  raccolta.fase = "dorme" /\ cache.valida =>
    \A n \in Nodo : cache.visti[n].dato = campioni[n].dato

\* "un termine recent_s negativo scoraggia di ripickare lo stesso nodo appena
\* scelto, per bilanciare il carico tra nodi di pari valore" (routing.py): of two
\* nodes worth the same, the one just chosen is not chosen again.
NonRipete ==
  [][Scegli => \A n, m \in Nodo :
       scelti'[n] = 0 /\ scelti[n] = 0 /\ scelti[m] = Scordato =>
         LET nulla == [k \in Nodo |-> Scordato]
         IN Punti(campioni, nulla, m) # Punti(campioni, nulla, n)]_vars

\* The thread that collects metrics never ends.
RaccoglitoreVivo == raccolta.fase # "morto"

\* A node that answers from some time on has its sample renewed for good, however
\* long it failed before: its backoff always ends.
NodoRiprovato ==
  []RaccoglitoreVivo =>
    \A n \in Nodo, c \in Campione :
      <>[](rete[n] = c) => <>[](campioni[n] = Noto(c, TRUE) /\ guasti[n] = 0)
=============================================================================
