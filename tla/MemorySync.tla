----------------------------- MODULE MemorySync -----------------------------
(***************************************************************************)
(* Memory, local first: MemorySync and its outbox (src/shared/             *)
(* memory_sync.py), called by the threads of the control plane.  A write   *)
(* that Hermes does not answer is queued in a file, one line per entry; a  *)
(* flush sends the whole queue and then empties it.                        *)
(*                                                                         *)
(* No lock is taken anywhere, so a method is cut at every access to the    *)
(* file, to the cache of the ids and to the network.  Hermes is another    *)
(* process (scripts/hermes_memory_bridge.py): it keeps what it is sent     *)
(* once, refuses an entry without searchable content, and its answer may   *)
(* get lost.  The local mirror is the subject of MemoryMirror.             *)
(***************************************************************************)
EXTENDS Integers, Sequences, SequencesExt, TLAPS

CONSTANTS
  Voce,            \* memory entries; an entry is written once
  Thread,          \* request threads of the control plane
  Rifiutate,       \* the entries Hermes refuses
  DiscoFallibile   \* whether writing the file may raise OSError

Nessuna == "nessuna"

MemorySyncAssumption ==
  Rifiutate \subseteq Voce /\ DiscoFallibile \in BOOLEAN /\ Nessuna \notin Voce

VARIABLES
  hermes,   \* the entries Hermes holds
  su,       \* whether Hermes can be reached
  coda,     \* the readable lines of the outbox file
  monca,    \* whether the file ends in half a line, without its newline
  rotte,    \* the entries whose line was glued to half a line, and is unreadable
  staccati, \* the threads whose open file another thread has replaced meanwhile
  travolte, \* history: the entries whose line a rewrite dropped unread
  ids,      \* _ids: {} for None, {S} when the cached set of ids is S
  filo,     \* [Thread -> [pc, voce, vista]]: where a thread is and what it read
  esito     \* [Voce -> how its write ended]

codavars == <<coda, monca, rotte, staccati, travolte>>
vars == <<hermes, su, codavars, ids, filo, esito>>

Fermo == [pc |-> "libero", voce |-> Nessuna, vista |-> <<>>]

Esiti == {"mai", "in corso", "ok", "perso", "eccezione", "caduto"}

In(t, pc) == filo[t].pc = pc

Va(t, pc) == filo' = [filo EXCEPT ![t] = [filo[t] EXCEPT !.pc = pc]]

Vede(t, pc, s) == filo' = [filo EXCEPT ![t] = [filo[t] EXCEPT !.pc = pc, !.vista = s]]

\* The method returns, or raises: the write of an entry has its outcome.
Finisce(t, e) ==
  /\ filo' = [filo EXCEPT ![t] = Fermo]
  /\ esito' = IF filo[t].voce = Nessuna THEN esito ELSE [esito EXCEPT ![filo[t].voce] = e]

Init ==
  /\ hermes = {} /\ su = TRUE
  /\ coda = <<>> /\ monca = FALSE /\ rotte = {} /\ staccati = {} /\ travolte = {}
  /\ ids = {}
  /\ filo = [t \in Thread |-> Fermo]
  /\ esito = [v \in Voce |-> "mai"]

-----------------------------------------------------------------------------
(* write *)

Scrive(t, v) ==
  /\ In(t, "libero") /\ esito[v] = "mai"
  /\ filo' = [filo EXCEPT ![t] = [Fermo EXCEPT !.pc = "store", !.voce = v]]
  /\ esito' = [esito EXCEPT ![v] = "in corso"]
  /\ UNCHANGED <<hermes, su, codavars, ids>>

\* client.store answers
StoreRiesce(t) ==
  /\ In(t, "store") /\ su /\ filo[t].voce \notin Rifiutate
  /\ hermes' = hermes \union {filo[t].voce}
  /\ Va(t, "flush")
  /\ UNCHANGED <<su, codavars, ids, esito>>

\* HermesMemoryError: no answer, a refusal, or an answer that got lost
StoreFallisce(t) ==
  /\ In(t, "store")
  /\ \/ UNCHANGED hermes
     \/ su /\ filo[t].voce \notin Rifiutate /\ hermes' = hermes \union {filo[t].voce}
  /\ Va(t, "accoda")
  /\ UNCHANGED <<su, codavars, ids, esito>>

\* MemoryOutbox.append calls ids(): the cache if there is one, else the file
LeggeIds(t) ==
  /\ In(t, "accoda")
  /\ IF ids = {} THEN Vede(t, "fissa", coda) ELSE Va(t, "confronta")
  /\ UNCHANGED <<hermes, su, codavars, ids, esito>>

FissaIds(t) ==
  /\ In(t, "fissa")
  /\ ids' = {ToSet(filo[t].vista)}
  /\ Va(t, "confronta")
  /\ UNCHANGED <<hermes, su, codavars, esito>>

\* the entry is looked up in what self._ids is by now; it may be queued already,
\* and "in None" raises TypeError
Confronta(t) ==
  /\ In(t, "confronta")
  /\ CASE ids = {} -> Finisce(t, "eccezione")
       [] filo[t].voce \in UNION ids -> Finisce(t, "ok")
       [] OTHER -> Va(t, "aggiungi") /\ UNCHANGED esito
  /\ UNCHANGED <<hermes, su, codavars, ids>>

\* open(path, "a")
Apre(t) ==
  /\ In(t, "aggiungi")
  /\ Va(t, "scrivi")
  /\ UNCHANGED <<hermes, su, codavars, ids, esito>>

\* the line is appended: after half a line it is the rest of that line, and
\* pending skips both; to a file replaced since it was opened it is lost
Aggiunge(t) ==
  /\ In(t, "scrivi")
  /\ \/ /\ t \notin staccati /\ ~monca
        /\ coda' = Append(coda, filo[t].voce) /\ UNCHANGED <<monca, rotte, travolte>>
     \/ /\ t \notin staccati /\ monca
        /\ rotte' = rotte \union {filo[t].voce} /\ monca' = FALSE /\ UNCHANGED <<coda, travolte>>
     \/ /\ t \in staccati
        /\ travolte' = travolte \union {filo[t].voce} /\ UNCHANGED <<coda, monca, rotte>>
  /\ staccati' = staccati \ {t}
  /\ Va(t, "annota")
  /\ UNCHANGED <<hermes, su, ids, esito>>

\* OSError: neither Hermes nor the queue, and the caller is told
CodaNonScrivibile(t) ==
  /\ DiscoFallibile /\ (In(t, "aggiungi") \/ In(t, "scrivi"))
  /\ Finisce(t, "perso")
  /\ staccati' = staccati \ {t}
  /\ UNCHANGED <<hermes, su, coda, monca, rotte, travolte, ids>>

\* Mutant of AnnotaId: a second cache instead of an entry in the first.
AnnotaIdAParte(t) ==
  /\ In(t, "annota")
  /\ IF ids = {}
     THEN Finisce(t, "eccezione") /\ UNCHANGED ids
     ELSE Finisce(t, "ok") /\ ids' = ids \union {(UNION ids) \union {filo[t].voce}}
  /\ UNCHANGED <<hermes, su, codavars>>

\* self._ids.add: AttributeError when the cache was dropped meanwhile
AnnotaId(t) ==
  /\ In(t, "annota")
  /\ IF ids = {}
     THEN Finisce(t, "eccezione") /\ UNCHANGED ids
     ELSE Finisce(t, "ok") /\ ids' = {(UNION ids) \union {filo[t].voce}}
  /\ UNCHANGED <<hermes, su, codavars>>

-----------------------------------------------------------------------------
(* flush, after a successful store or on POST /memory/sync (force) *)

Sincronizza(t) ==
  /\ In(t, "libero")
  /\ Va(t, "flush")
  /\ UNCHANGED <<hermes, su, codavars, ids, esito>>

FlushLegge(t) ==
  /\ In(t, "flush")
  /\ IF coda = <<>> THEN Finisce(t, "ok") ELSE Vede(t, "importa", coda) /\ UNCHANGED esito
  /\ UNCHANGED <<hermes, su, codavars, ids>>

\* Mutant of FlushTroppoPresto: a forced flush waits for its turn as well.
FlushTroppoPrestoSempre(t) ==
  /\ In(t, "flush") /\ coda # <<>>
  /\ Finisce(t, "ok")
  /\ UNCHANGED <<hermes, su, codavars, ids>>

\* less than flush_every_s after the previous attempt
FlushTroppoPresto(t) ==
  /\ In(t, "flush") /\ filo[t].voce # Nessuna
  /\ coda # <<>>
  /\ Finisce(t, "ok")
  /\ UNCHANGED <<hermes, su, codavars, ids>>

Accettabili(t) == ToSet(filo[t].vista) \ Rifiutate

\* import_entries answers: all of it was taken
ImportaRiesce(t) ==
  /\ In(t, "importa") /\ su /\ Accettabili(t) = ToSet(filo[t].vista)
  /\ hermes' = hermes \union Accettabili(t)
  /\ Va(t, "svuota")
  /\ UNCHANGED <<su, codavars, ids, esito>>

\* Mutant of ImportaFallisce: the queue is emptied after a partial import too.
ImportaFallisceSvuota(t) ==
  /\ In(t, "importa") /\ su
  /\ hermes' = hermes \union Accettabili(t)
  /\ Va(t, "svuota")
  /\ UNCHANGED <<su, codavars, ids, esito>>

\* no answer, or one entry refused (422): everything stays in the queue
ImportaFallisce(t) ==
  /\ In(t, "importa")
  /\ \/ UNCHANGED hermes
     \/ su /\ hermes' = hermes \union Accettabili(t)
  /\ Finisce(t, "ok")
  /\ UNCHANGED <<su, codavars, ids>>

\* The queue is rewritten with what was read, or less: what is in it and was not
\* read is dropped, and who has a file open there keeps the old one.
Riscritta(t) ==
  /\ travolte' = travolte \union (ToSet(coda) \ ToSet(filo[t].vista))
  /\ staccati' = (staccati \union {u \in Thread : In(u, "scrivi") \/ In(u, "svuota")}) \ {t}

\* clear -> replace([]): the file first, then the cache
Svuota(t) ==
  /\ In(t, "svuota")
  /\ coda' = <<>> /\ monca' = FALSE
  /\ Riscritta(t)
  /\ Va(t, "azzera")
  /\ UNCHANGED <<hermes, su, rotte, ids, esito>>

\* OSError while the queue is rewritten, also when another thread has just moved
\* the temporary file both write: the store was answered, the caller gets the
\* exception
SvuotaFallisce(t) ==
  /\ In(t, "svuota") /\ (DiscoFallibile \/ t \in staccati)
  /\ Finisce(t, "eccezione")
  /\ staccati' = staccati \ {t}
  /\ UNCHANGED <<hermes, su, coda, monca, rotte, travolte, ids>>

\* Mutant of AzzeraIds: the cache survives the file it describes.
AzzeraIdsMai(t) ==
  /\ In(t, "azzera")
  /\ Finisce(t, "ok")
  /\ UNCHANGED <<hermes, su, codavars, ids>>

AzzeraIds(t) ==
  /\ In(t, "azzera")
  /\ ids' = {}
  /\ Finisce(t, "ok")
  /\ UNCHANGED <<hermes, su, codavars>>

-----------------------------------------------------------------------------
\* The control plane dies; of a line being written the first half may stay.
Cade ==
  /\ filo' = [t \in Thread |-> Fermo]
  /\ ids' = {}
  /\ esito' = [v \in Voce |-> IF esito[v] = "in corso" THEN "caduto" ELSE esito[v]]
  /\ \/ UNCHANGED monca
     \/ (\E t \in Thread \ staccati : In(t, "scrivi")) /\ monca' = TRUE
  /\ staccati' = {}
  /\ UNCHANGED <<hermes, su, coda, rotte, travolte>>

Peer == su' = ~su /\ UNCHANGED <<hermes, codavars, ids, filo, esito>>

Passo(t) ==
  \/ StoreRiesce(t) \/ StoreFallisce(t)
  \/ LeggeIds(t) \/ FissaIds(t) \/ Confronta(t)
  \/ Apre(t) \/ Aggiunge(t) \/ CodaNonScrivibile(t) \/ AnnotaId(t)
  \/ FlushLegge(t) \/ FlushTroppoPresto(t)
  \/ ImportaRiesce(t) \/ ImportaFallisce(t)
  \/ Svuota(t) \/ SvuotaFallisce(t) \/ AzzeraIds(t)

Next ==
  \/ \E t \in Thread, v \in Voce : Scrive(t, v)
  \/ \E t \in Thread : Sincronizza(t) \/ Passo(t)
  \/ Cade
  \/ Peer

Spec == Init /\ [][Next]_vars

\* Threads run on, somebody keeps writing or asking for a flush, and a peer
\* that can be reached again and again answers an import in the end.
FairSpec ==
  /\ Spec
  /\ \A t \in Thread : WF_vars(Passo(t)) /\ WF_vars(Sincronizza(t)) /\ SF_vars(ImportaRiesce(t))

-----------------------------------------------------------------------------
(* Properties. *)

TypeOK ==
  /\ hermes \subseteq Voce /\ su \in BOOLEAN
  /\ coda \in Seq(Voce) /\ monca \in BOOLEAN /\ rotte \subseteq Voce
  /\ staccati \subseteq Thread /\ travolte \subseteq Voce
  /\ \A S \in ids : S \subseteq Voce /\ ids = {S}
  /\ esito \in [Voce -> Esiti]
  /\ \A t \in Thread : filo[t].vista \in Seq(Voce) /\ filo[t].voce \in Voce \union {Nessuna}

\* A write that was answered "ok" is not lost ("torna comunque ok, perche' non si
\* perde", docstring of the module): its entry is in Hermes or in the queue file,
\* whatever crashes, lost answers, refusals and flushes come between.  The one
\* exception is the entry appended after a line cut by a kill.  It holds where one
\* thread at a time is in the outbox.
NientePerso ==
  \A v \in Voce : esito[v] = "ok" => v \in hermes \union ToSet(coda) \union rotte

\* Whatever threads are in the outbox, an entry answered "ok" gets lost in one way
\* only: its line went with the file that a flush rewrote without having read it
\* (flush, memory_sync.py:373).  A stale cache that turns the entry away, a partial
\* import, a refusal, a failed rewrite or a kill lose none.
PersoSoloTravolto ==
  \A v \in Voce : esito[v] = "ok" => v \in hermes \union ToSet(coda) \union rotte \union travolte

\* Between two requests the cache of the ids says what the file holds: no entry
\* is turned away as queued already when the file does not hold it, and none of
\* the file's is queued twice.
CacheCoerente ==
  (\A t \in Thread : In(t, "libero")) =>
    \A S \in ids : ToSet(coda) \subseteq S /\ S \subseteq ToSet(coda) \union rotte

\* "nella coda, che verra' riconsegnata quando Hermes torna" (docstring of the
\* module): when Hermes stays reachable, the control plane stays up and can
\* write the file, and no entry is one Hermes refuses, the queue is empty again
\* and again, half lines left by earlier kills included.
CodaSiSvuota ==
  /\ <>[]su
  /\ <>[][~Cade /\ ~\E t \in Thread : SvuotaFallisce(t)]_vars
  /\ [](\A v \in Rifiutate : esito[v] = "mai")
  => []<>(coda = <<>>)

-----------------------------------------------------------------------------
(* Proofs: TypeOK and PersoSoloTravolto for any number of threads, whatever the *)
(* entries, the losses, the refusals, the failed writes and the kills.          *)

Fasi ==
  {"libero", "store", "accoda", "fissa", "confronta", "aggiungi", "scrivi", "annota",
   "flush", "importa", "svuota", "azzera"}
Fili == [pc : Fasi, voce : Voce \union {Nessuna}, vista : Seq(Voce)]
Tipi ==
  /\ hermes \subseteq Voce /\ su \in BOOLEAN
  /\ coda \in Seq(Voce) /\ monca \in BOOLEAN /\ rotte \subseteq Voce
  /\ staccati \subseteq Thread /\ travolte \subseteq Voce
  /\ ids = {} \/ \E S \in SUBSET Voce : ids = {S}
  /\ filo \in [Thread -> Fili] /\ esito \in [Voce -> Esiti]

\* What is in Hermes or was written to the file.  An entry never leaves it: the only
\* method that takes lines away rewrites the file, and what it has read is in Hermes.
Affidate == hermes \union ToSet(coda) \union rotte \union travolte
DopoStore == {"flush", "importa", "svuota", "azzera"}

\* The entry of a thread that has been stored is in Hermes, one that has been written
\* is somewhere; what a thread has read of the queue is, and what it is about to drop
\* is in Hermes.
InRegola(q) ==
  /\ q.pc = "libero" => q.voce = Nessuna
  /\ q.voce = Nessuna => q.pc \in {"libero"} \union DopoStore
  /\ q.voce # Nessuna /\ q.pc \in DopoStore => q.voce \in hermes
  /\ q.pc = "annota" => q.voce \in Affidate
  /\ ToSet(q.vista) \subseteq Affidate
  /\ q.pc = "svuota" => ToSet(q.vista) \subseteq hermes

\* The cache may be stale, but lists only what was written once: what it turns away
\* is not lost.
CacheDiAffidate == \A S \in ids : S \subseteq Affidate

Inv ==
  /\ PersoSoloTravolto /\ CacheDiAffidate
  /\ \A t \in Thread : InRegola(filo[t])
IInv == Tipi /\ Inv

LEMMA FermoTipato == Fermo \in Fili /\ <<>> \in Seq(Voce) /\ ToSet(<<>>) = {}
<1>1. <<>> \in Seq(Voce)
  OBVIOUS
<1>2. ToSet(<<>>) = {}
  BY DEF ToSet
<1> QED BY <1>1, <1>2 DEF Fermo, Fili, Fasi

LEMMA InvIniziale == MemorySyncAssumption /\ Init => IInv
<1> SUFFICES ASSUME MemorySyncAssumption, Init PROVE IInv
  OBVIOUS
<1>1. Fermo \in Fili /\ <<>> \in Seq(Voce) /\ ToSet(<<>>) = {}
  BY FermoTipato
<1>t. Tipi
  BY <1>1 DEF Init, Tipi, Esiti
<1>2. PersoSoloTravolto /\ CacheDiAffidate
  BY DEF Init, PersoSoloTravolto, CacheDiAffidate
<1>3. ASSUME NEW t \in Thread PROVE InRegola(filo[t])
  BY <1>1, <1>3 DEF Init, InRegola, Fermo
<1> QED BY <1>t, <1>2, <1>3 DEF IInv, Inv

LEMMA Aggiunta ==
  ASSUME NEW S, NEW s \in Seq(S), NEW v \in S
  PROVE  Append(s, v) \in Seq(S) /\ ToSet(Append(s, v)) = ToSet(s) \union {v}
<1>1. Append(s, v) \in Seq(S) /\ DOMAIN Append(s, v) = DOMAIN s \union {Len(s) + 1}
  OBVIOUS
<1>2. \A i \in DOMAIN s : Append(s, v)[i] = s[i]
  OBVIOUS
<1>3. Append(s, v)[Len(s) + 1] = v
  OBVIOUS
<1> QED BY <1>1, <1>2, <1>3 DEF ToSet

LEMMA Contenuto == ASSUME NEW S, NEW s \in Seq(S) PROVE ToSet(s) \subseteq S
BY DEF ToSet

\* A step that loses nothing and makes q of the record of t: the other threads keep theirs.
LEMMA PassoDi ==
  ASSUME IInv, NEW t \in Thread, NEW q \in Fili, filo' = [filo EXCEPT ![t] = q],
         hermes \subseteq hermes', Affidate \subseteq Affidate',
         hermes' \subseteq Voce, su' = su,
         coda' \in Seq(Voce), monca' \in BOOLEAN, rotte' \subseteq Voce,
         staccati' \subseteq Thread, travolte' \subseteq Voce,
         ids' = {} \/ \E S \in SUBSET Voce : ids' = {S},
         CacheDiAffidate', esito' \in [Voce -> Esiti],
         \A v \in Voce : esito'[v] = "ok" => esito[v] = "ok" \/ v \in Affidate',
         InRegola(q)'
  PROVE  IInv'
<1>1. Tipi'
  BY DEF IInv, Tipi
<1>2. PersoSoloTravolto'
  BY DEF IInv, Inv, PersoSoloTravolto, Affidate
<1>3. filo'[t] = q /\ \A u \in Thread \ {t} : filo'[u] = filo[u]
  BY DEF IInv, Tipi
<1>4. ASSUME NEW u \in Thread PROVE InRegola(filo[u])'
  <2>1. CASE u = t
    BY <1>3, <2>1 DEF InRegola
  <2>2. CASE u # t
    <3>1. filo'[u] = filo[u] /\ InRegola(filo[u])
      BY <1>3, <2>2 DEF IInv, Inv
    <3> QED BY <3>1 DEF InRegola
  <2> QED BY <2>1, <2>2
<1> QED BY <1>1, <1>2, <1>4 DEF IInv, Inv

LEMMA Avanza ==
  ASSUME Tipi, NEW t \in Thread, NEW p \in Fasi, Va(t, p)
  PROVE  \E q \in Fili : /\ filo' = [filo EXCEPT ![t] = q]
                        /\ q.pc = p /\ q.voce = filo[t].voce /\ q.vista = filo[t].vista
<1> DEFINE q == [filo[t] EXCEPT !.pc = p]
<1>1. q \in Fili /\ q.pc = p /\ q.voce = filo[t].voce /\ q.vista = filo[t].vista
  BY DEF Tipi, Fili
<1>2. filo' = [filo EXCEPT ![t] = q]
  BY DEF Va
<1> HIDE DEF q
<1> QED BY <1>1, <1>2

LEMMA Ricorda ==
  ASSUME Tipi, NEW t \in Thread, NEW p \in Fasi, Vede(t, p, coda)
  PROVE  \E q \in Fili : /\ filo' = [filo EXCEPT ![t] = q]
                        /\ q.pc = p /\ q.voce = filo[t].voce /\ q.vista = coda
<1> DEFINE q == [filo[t] EXCEPT !.pc = p, !.vista = coda]
<1>1. q \in Fili /\ q.pc = p /\ q.voce = filo[t].voce /\ q.vista = coda
  BY DEF Tipi, Fili
<1>2. filo' = [filo EXCEPT ![t] = q]
  BY DEF Vede
<1> HIDE DEF q
<1> QED BY <1>1, <1>2

\* A method ends with outcome e.
LEMMA PassoFine ==
  ASSUME MemorySyncAssumption, IInv, NEW t \in Thread, NEW e \in Esiti, Finisce(t, e),
         hermes \subseteq hermes', hermes' \subseteq Voce,
         UNCHANGED <<su, coda, monca, rotte, travolte>>, staccati' \in {staccati, staccati \ {t}},
         ids' = {} \/ \E S \in SUBSET Voce : ids' = {S}, CacheDiAffidate',
         e = "ok" => filo[t].voce = Nessuna \/ filo[t].voce \in hermes' \union Affidate
  PROVE  IInv'
<1>1. /\ filo' = [filo EXCEPT ![t] = Fermo]
      /\ esito' = IF filo[t].voce = Nessuna THEN esito ELSE [esito EXCEPT ![filo[t].voce] = e]
  BY DEF Finisce
<1>2. /\ esito' \in [Voce -> Esiti]
      /\ \A v \in Voce : esito'[v] = "ok" => esito[v] = "ok" \/ (v = filo[t].voce /\ e = "ok")
  BY <1>1 DEF IInv, Tipi
<1>3. Fermo \in Fili /\ InRegola(Fermo)'
  BY FermoTipato DEF Fermo, InRegola
<1>4. /\ Affidate \subseteq Affidate' /\ hermes' \subseteq Affidate'
      /\ coda' \in Seq(Voce) /\ monca' \in BOOLEAN /\ rotte' \subseteq Voce
      /\ staccati' \subseteq Thread /\ travolte' \subseteq Voce /\ su' = su
  BY DEF Affidate, IInv, Tipi
<1>5. \A v \in Voce : esito'[v] = "ok" => esito[v] = "ok" \/ v \in Affidate'
  BY <1>2, <1>4 DEF MemorySyncAssumption
<1> QED BY <1>1, <1>2, <1>3, <1>4, <1>5, PassoDi

\* A method goes on, and leaves the file alone.
LEMMA PassoAvanti ==
  ASSUME IInv, NEW t \in Thread, NEW q \in Fili, filo' = [filo EXCEPT ![t] = q],
         hermes \subseteq hermes', hermes' \subseteq Voce, UNCHANGED <<su, codavars, esito>>,
         ids' = {} \/ \E S \in SUBSET Voce : ids' = {S}, CacheDiAffidate', InRegola(q)'
  PROVE  IInv'
<1>1. /\ Affidate \subseteq Affidate' /\ esito' = esito /\ su' = su
      /\ coda' \in Seq(Voce) /\ monca' \in BOOLEAN /\ rotte' \subseteq Voce
      /\ staccati' \subseteq Thread /\ travolte' \subseteq Voce /\ esito' \in [Voce -> Esiti]
  BY DEF codavars, Affidate, IInv, Tipi
<1> QED BY <1>1, PassoDi

\* What a thread knows, and what a step of it may add to the cache.
LEMMA Noto ==
  ASSUME IInv, NEW t \in Thread
  PROVE  /\ filo[t] \in Fili /\ InRegola(filo[t]) /\ hermes \subseteq Voce /\ Affidate \subseteq Voce
         /\ ids = {} \/ \E S \in SUBSET Voce : ids = {S}
         /\ Affidate \subseteq Affidate' /\ ids' = ids => CacheDiAffidate'
         /\ coda \in Seq(Voce) /\ ToSet(coda) \subseteq Affidate /\ hermes \subseteq Affidate
<1>1. ToSet(coda) \subseteq Voce
  BY Contenuto DEF IInv, Tipi
<1>2. Affidate \subseteq Affidate' /\ ids' = ids => CacheDiAffidate'
  BY DEF IInv, Inv, CacheDiAffidate
<1> QED BY <1>1, <1>2 DEF IInv, Inv, Tipi, Affidate

LEMMA PassoScrittura ==
  ASSUME MemorySyncAssumption, IInv, NEW t \in Thread,
         \/ StoreRiesce(t) \/ StoreFallisce(t) \/ LeggeIds(t) \/ FissaIds(t) \/ Confronta(t)
         \/ Apre(t) \/ AnnotaId(t) \/ CodaNonScrivibile(t)
  PROVE  IInv'
<1>t. /\ filo[t] \in Fili /\ InRegola(filo[t]) /\ hermes \subseteq Voce /\ Affidate \subseteq Voce
      /\ ids = {} \/ \E S \in SUBSET Voce : ids = {S}
      /\ Affidate \subseteq Affidate' /\ ids' = ids => CacheDiAffidate'
      /\ coda \in Seq(Voce) /\ ToSet(coda) \subseteq Affidate /\ hermes \subseteq Affidate
  BY Noto
<1>v. /\ Nessuna \notin Voce
      /\ filo[t].pc \notin {"libero"} \union DopoStore => filo[t].voce \in Voce
  BY <1>t DEF Fili, MemorySyncAssumption, InRegola
<1>f. hermes \subseteq hermes' /\ UNCHANGED <<coda, rotte, travolte>> => Affidate \subseteq Affidate'
  BY DEF Affidate
<1>1. CASE StoreRiesce(t) \/ StoreFallisce(t)
  <2>1. PICK p \in {"flush", "accoda"} : Va(t, p) /\ (p = "flush" => filo[t].voce \in hermes') /\ In(t, "store")
    BY <1>1 DEF StoreRiesce, StoreFallisce
  <2>2. PICK q \in Fili : /\ filo' = [filo EXCEPT ![t] = q]
                          /\ q.pc = p /\ q.voce = filo[t].voce /\ q.vista = filo[t].vista
    BY <2>1, Avanza DEF IInv, Fasi
  <2>3. hermes \subseteq hermes' /\ hermes' \subseteq Voce /\ UNCHANGED <<su, codavars, ids, esito>>
    <3>1. filo[t].voce \in Voce
      BY <2>1, <1>v DEF In, DopoStore
    <3> QED BY <1>1, <1>t, <3>1 DEF StoreRiesce, StoreFallisce
  <2>4. Affidate \subseteq Affidate' /\ CacheDiAffidate'
    BY <2>3, <1>t, <1>f DEF codavars
  <2>5. InRegola(q)'
    BY <2>1, <2>2, <2>4, <1>t, <1>v DEF InRegola, DopoStore, In
  <2> QED BY <2>2, <2>3, <2>4, <2>5, <1>t, PassoAvanti
<1>2. CASE LeggeIds(t)
  <2>1. UNCHANGED <<hermes, su, codavars, ids, esito>> /\ In(t, "accoda")
    BY <1>2 DEF LeggeIds
  <2>2. PICK q \in Fili : /\ filo' = [filo EXCEPT ![t] = q] /\ q.voce = filo[t].voce
                          /\ q.pc \in {"confronta", "fissa"} /\ q.vista \in {coda, filo[t].vista}
    BY <1>2, Avanza, Ricorda DEF LeggeIds, IInv, Fasi
  <2>3. Affidate \subseteq Affidate' /\ CacheDiAffidate'
    BY <2>1, <1>t, <1>f DEF codavars
  <2>4. InRegola(q)'
    BY <2>1, <2>2, <2>3, <1>t, <1>v DEF InRegola, DopoStore, In
  <2> QED BY <2>1, <2>2, <2>3, <2>4, <1>t, PassoAvanti
<1>3. CASE FissaIds(t)
  <2>1. UNCHANGED <<hermes, su, codavars, esito>> /\ In(t, "fissa") /\ ids' = {ToSet(filo[t].vista)}
    BY <1>3 DEF FissaIds
  <2>2. PICK q \in Fili : /\ filo' = [filo EXCEPT ![t] = q] /\ q.voce = filo[t].voce
                          /\ q.pc = "confronta" /\ q.vista = filo[t].vista
    BY <1>3, Avanza DEF FissaIds, IInv, Fasi
  <2>3. Affidate \subseteq Affidate' /\ ToSet(filo[t].vista) \subseteq Affidate
    BY <2>1, <1>t, <1>f DEF codavars, InRegola
  <2>4. CacheDiAffidate' /\ \E S \in SUBSET Voce : ids' = {S}
    <3>1. ToSet(filo[t].vista) \in SUBSET Voce
      BY <2>3, <1>t
    <3> QED BY <2>1, <2>3, <3>1 DEF CacheDiAffidate
  <2>5. InRegola(q)'
    BY <2>1, <2>2, <2>3, <1>t, <1>v DEF InRegola, DopoStore, In
  <2> QED BY <2>1, <2>2, <2>4, <2>5, <1>t, PassoAvanti
<1>4. CASE Confronta(t)
  <2>1. UNCHANGED <<hermes, su, codavars, ids>> /\ In(t, "confronta")
    BY <1>4 DEF Confronta
  <2>2. Affidate \subseteq Affidate' /\ CacheDiAffidate'
    BY <2>1, <1>t, <1>f DEF codavars
  <2>3. CASE ids = {} /\ Finisce(t, "eccezione")
    BY <2>1, <2>2, <2>3, <1>t, PassoFine DEF Esiti, codavars
  <2>4. CASE filo[t].voce \in UNION ids /\ Finisce(t, "ok")
    <3>1. filo[t].voce \in Affidate
      BY <2>4 DEF IInv, Inv, CacheDiAffidate
    <3> QED BY <2>1, <2>2, <2>4, <3>1, <1>t, PassoFine DEF Esiti, codavars
  <2>5. CASE Va(t, "aggiungi") /\ UNCHANGED esito
    <3>1. PICK q \in Fili : /\ filo' = [filo EXCEPT ![t] = q] /\ q.voce = filo[t].voce
                            /\ q.pc = "aggiungi" /\ q.vista = filo[t].vista
      BY <2>5, Avanza DEF IInv, Fasi
    <3>2. InRegola(q)'
      BY <2>1, <2>2, <3>1, <1>t, <1>v DEF InRegola, DopoStore, In
    <3> QED BY <2>1, <2>2, <2>5, <3>1, <3>2, <1>t, PassoAvanti
  <2> QED BY <1>4, <2>3, <2>4, <2>5 DEF Confronta
<1>5. CASE Apre(t)
  <2>1. UNCHANGED <<hermes, su, codavars, ids, esito>> /\ In(t, "aggiungi")
    BY <1>5 DEF Apre
  <2>2. PICK q \in Fili : /\ filo' = [filo EXCEPT ![t] = q] /\ q.voce = filo[t].voce
                          /\ q.pc = "scrivi" /\ q.vista = filo[t].vista
    BY <1>5, Avanza DEF Apre, IInv, Fasi
  <2>3. Affidate \subseteq Affidate' /\ CacheDiAffidate'
    BY <2>1, <1>t, <1>f DEF codavars
  <2>4. InRegola(q)'
    BY <2>1, <2>2, <2>3, <1>t, <1>v DEF InRegola, DopoStore, In
  <2> QED BY <2>1, <2>2, <2>3, <2>4, <1>t, PassoAvanti
<1>6. CASE AnnotaId(t)
  <2>1. UNCHANGED <<hermes, su, codavars>> /\ In(t, "annota")
    BY <1>6 DEF AnnotaId
  <2>2. filo[t].voce \in Voce /\ filo[t].voce \in Affidate /\ Affidate \subseteq Affidate'
    BY <2>1, <1>t, <1>v, <1>f DEF InRegola, In, DopoStore, codavars
  <2>3. CASE ids = {} /\ Finisce(t, "eccezione") /\ ids' = ids
    BY <2>1, <2>2, <2>3, <1>t, PassoFine DEF Esiti, codavars
  <2>4. CASE Finisce(t, "ok") /\ ids # {} /\ ids' = {(UNION ids) \union {filo[t].voce}}
    <3>1. PICK S \in SUBSET Voce : ids = {S}
      BY <2>4, <1>t
    <3>2. UNION ids = S /\ S \subseteq Affidate
      BY <3>1 DEF IInv, Inv, CacheDiAffidate
    <3>3. ids' = {S \union {filo[t].voce}}
      BY <3>2, <2>4
    <3>4. S \union {filo[t].voce} \in SUBSET Voce
      BY <2>2
    <3>5. CacheDiAffidate' /\ \E X \in SUBSET Voce : ids' = {X}
      BY <2>2, <3>2, <3>3, <3>4 DEF CacheDiAffidate
    <3> QED BY <2>1, <2>2, <2>4, <3>5, <1>t, PassoFine DEF Esiti, codavars
  <2> QED BY <1>6, <2>3, <2>4 DEF AnnotaId
<1>7. CASE CodaNonScrivibile(t)
  <2>1. /\ UNCHANGED <<hermes, su, coda, monca, rotte, travolte, ids>> /\ Finisce(t, "perso")
        /\ staccati' = staccati \ {t}
    BY <1>7 DEF CodaNonScrivibile
  <2>2. CacheDiAffidate'
    BY <2>1, <1>t, <1>f
  <2> QED BY <2>1, <2>2, <1>t, PassoFine DEF Esiti
<1> QED BY <1>1, <1>2, <1>3, <1>4, <1>5, <1>6, <1>7

\* The line goes to the file, to the half line at its end, or to the file that was replaced.
LEMMA PassoAggiunge ==
  ASSUME MemorySyncAssumption, IInv, NEW t \in Thread, Aggiunge(t)
  PROVE  IInv'
<1>t. /\ filo[t] \in Fili /\ InRegola(filo[t]) /\ hermes \subseteq Voce
      /\ ids = {} \/ \E S \in SUBSET Voce : ids = {S}
      /\ Affidate \subseteq Affidate' /\ ids' = ids => CacheDiAffidate'
      /\ coda \in Seq(Voce)
  BY Noto
<1>1. PICK v \in Voce : v = filo[t].voce
  BY <1>t DEF Fili, MemorySyncAssumption, Aggiunge, InRegola, In, DopoStore
<1>2. PICK q \in Fili : /\ filo' = [filo EXCEPT ![t] = q]
                        /\ q.voce = v /\ q.pc = "annota" /\ q.vista = filo[t].vista
  BY <1>1, Avanza DEF Aggiunge, IInv, Fasi
<1>3. /\ hermes' = hermes /\ su' = su /\ ids' = ids /\ esito' = esito /\ staccati' = staccati \ {t}
      /\ \/ coda' = Append(coda, v) /\ monca' = monca /\ rotte' = rotte /\ travolte' = travolte
         \/ coda' = coda /\ monca' = FALSE /\ rotte' = rotte \union {v} /\ travolte' = travolte
         \/ coda' = coda /\ monca' = monca /\ rotte' = rotte /\ travolte' = travolte \union {v}
  BY <1>1 DEF Aggiunge
<1>4. coda' \in Seq(Voce) /\ Affidate' = Affidate \union {v}
  <2>1. CASE coda' = Append(coda, v) /\ rotte' = rotte /\ travolte' = travolte
    <3>1. coda' \in Seq(Voce) /\ ToSet(coda') = ToSet(coda) \union {v}
      BY <2>1, <1>t, Aggiunta
    <3> QED BY <1>3, <2>1, <3>1 DEF Affidate
  <2>2. CASE coda' = coda
    BY <1>3, <1>t, <2>2 DEF Affidate
  <2> QED BY <1>3, <2>1, <2>2
<1>5. InRegola(q)' /\ CacheDiAffidate'
  BY <1>1, <1>2, <1>3, <1>4, <1>t DEF InRegola, DopoStore, MemorySyncAssumption
<1>6. /\ monca' \in BOOLEAN /\ rotte' \subseteq Voce /\ staccati' \subseteq Thread
      /\ travolte' \subseteq Voce /\ esito' \in [Voce -> Esiti]
  BY <1>3 DEF IInv, Tipi
<1> QED BY <1>2, <1>3, <1>4, <1>5, <1>6, <1>t, PassoDi

LEMMA PassoFlush ==
  ASSUME MemorySyncAssumption, IInv, NEW t \in Thread,
         \/ Sincronizza(t) \/ FlushLegge(t) \/ FlushTroppoPresto(t) \/ ImportaRiesce(t)
         \/ ImportaFallisce(t) \/ SvuotaFallisce(t) \/ AzzeraIds(t)
  PROVE  IInv'
<1>t. /\ filo[t] \in Fili /\ InRegola(filo[t]) /\ hermes \subseteq Voce /\ Affidate \subseteq Voce
      /\ ids = {} \/ \E S \in SUBSET Voce : ids = {S}
      /\ Affidate \subseteq Affidate' /\ ids' = ids => CacheDiAffidate'
      /\ coda \in Seq(Voce) /\ ToSet(coda) \subseteq Affidate /\ hermes \subseteq Affidate
  BY Noto
<1>f. hermes \subseteq hermes' /\ UNCHANGED <<coda, rotte, travolte>> => Affidate \subseteq Affidate'
  BY DEF Affidate
<1>c. ToSet(filo[t].vista) \subseteq Voce
  BY <1>t DEF InRegola
<1>o. filo[t].pc \in DopoStore => filo[t].voce = Nessuna \/ filo[t].voce \in hermes
  BY <1>t DEF InRegola
<1>1. CASE Sincronizza(t)
  <2>1. PICK q \in Fili : /\ filo' = [filo EXCEPT ![t] = q] /\ q.voce = filo[t].voce
                          /\ q.pc = "flush" /\ q.vista = filo[t].vista
    BY <1>1, Avanza DEF Sincronizza, IInv, Fasi
  <2>2. UNCHANGED <<hermes, su, codavars, ids, esito>> /\ In(t, "libero")
    BY <1>1 DEF Sincronizza
  <2>3. Affidate \subseteq Affidate' /\ CacheDiAffidate'
    BY <2>2, <1>t, <1>f DEF codavars
  <2>4. InRegola(q)'
    BY <2>1, <2>2, <2>3, <1>t DEF InRegola, DopoStore, In
  <2> QED BY <2>1, <2>2, <2>3, <2>4, <1>t, PassoAvanti
<1>2. CASE FlushLegge(t) \/ FlushTroppoPresto(t)
  <2>1. UNCHANGED <<hermes, su, codavars, ids>> /\ In(t, "flush")
    BY <1>2 DEF FlushLegge, FlushTroppoPresto
  <2>2. Affidate \subseteq Affidate' /\ CacheDiAffidate'
    BY <2>1, <1>t, <1>f DEF codavars
  <2>3. CASE Finisce(t, "ok")
    BY <2>1, <2>2, <2>3, <1>t, <1>o, PassoFine DEF Esiti, codavars, In, DopoStore
  <2>4. CASE Vede(t, "importa", coda) /\ UNCHANGED esito
    <3>1. PICK q \in Fili : /\ filo' = [filo EXCEPT ![t] = q] /\ q.voce = filo[t].voce
                            /\ q.pc = "importa" /\ q.vista = coda
      BY <2>4, Ricorda DEF IInv, Fasi
    <3>2. InRegola(q)'
      BY <2>1, <2>2, <3>1, <1>t DEF InRegola, DopoStore, In
    <3> QED BY <2>1, <2>2, <2>4, <3>1, <3>2, <1>t, PassoAvanti
  <2> QED BY <1>2, <2>3, <2>4 DEF FlushLegge, FlushTroppoPresto
<1>3. CASE ImportaRiesce(t)
  <2>1. PICK q \in Fili : /\ filo' = [filo EXCEPT ![t] = q] /\ q.voce = filo[t].voce
                          /\ q.pc = "svuota" /\ q.vista = filo[t].vista
    BY <1>3, Avanza DEF ImportaRiesce, IInv, Fasi
  <2>2. /\ UNCHANGED <<su, codavars, ids, esito>> /\ In(t, "importa")
        /\ hermes' = hermes \union ToSet(filo[t].vista)
    BY <1>3 DEF ImportaRiesce
  <2>3. hermes \subseteq hermes' /\ hermes' \subseteq Voce /\ Affidate \subseteq Affidate' /\ CacheDiAffidate'
    BY <2>2, <1>t, <1>c, <1>f DEF codavars
  <2>4. InRegola(q)'
    BY <2>1, <2>2, <2>3, <1>t DEF InRegola, DopoStore, In
  <2> QED BY <2>1, <2>2, <2>3, <2>4, <1>t, PassoAvanti
<1>4. CASE ImportaFallisce(t)
  <2>1. Finisce(t, "ok") /\ UNCHANGED <<su, codavars, ids>> /\ In(t, "importa")
    BY <1>4 DEF ImportaFallisce
  <2>2. hermes \subseteq hermes' /\ hermes' \subseteq Voce
    BY <1>4, <1>t, <1>c DEF ImportaFallisce, Accettabili
  <2>3. Affidate \subseteq Affidate' /\ CacheDiAffidate'
    BY <2>1, <2>2, <1>t, <1>f DEF codavars
  <2> QED BY <2>1, <2>2, <2>3, <1>t, <1>o, PassoFine DEF Esiti, codavars, In, DopoStore
<1>5. CASE SvuotaFallisce(t)
  <2>1. /\ UNCHANGED <<hermes, su, coda, monca, rotte, travolte, ids>> /\ Finisce(t, "eccezione")
        /\ staccati' = staccati \ {t}
    BY <1>5 DEF SvuotaFallisce
  <2>2. CacheDiAffidate'
    BY <2>1, <1>t, <1>f
  <2> QED BY <2>1, <2>2, <1>t, PassoFine DEF Esiti
<1>6. CASE AzzeraIds(t)
  <2>1. UNCHANGED <<hermes, su, codavars>> /\ In(t, "azzera") /\ ids' = {} /\ Finisce(t, "ok")
    BY <1>6 DEF AzzeraIds
  <2>2. CacheDiAffidate'
    BY <2>1 DEF CacheDiAffidate
  <2> QED BY <2>1, <2>2, <1>t, <1>o, PassoFine DEF Esiti, codavars, In, DopoStore
<1> QED BY <1>1, <1>2, <1>3, <1>4, <1>5, <1>6

\* The lines a flush has read are in Hermes; the others are the ones it drops unread.
LEMMA PassoSvuota ==
  ASSUME MemorySyncAssumption, IInv, NEW t \in Thread, Svuota(t)
  PROVE  IInv'
<1>t. /\ filo[t] \in Fili /\ InRegola(filo[t]) /\ hermes \subseteq Voce
      /\ ids = {} \/ \E S \in SUBSET Voce : ids = {S}
      /\ Affidate \subseteq Affidate' /\ ids' = ids => CacheDiAffidate'
      /\ coda \in Seq(Voce)
  BY Noto
<1>1. PICK q \in Fili : /\ filo' = [filo EXCEPT ![t] = q] /\ q.voce = filo[t].voce
                        /\ q.pc = "azzera" /\ q.vista = filo[t].vista
  BY Avanza DEF Svuota, IInv, Fasi
<1>2. /\ coda' = <<>> /\ monca' = FALSE /\ rotte' = rotte /\ hermes' = hermes
      /\ su' = su /\ ids' = ids /\ esito' = esito /\ In(t, "svuota")
      /\ travolte' = travolte \union (ToSet(coda) \ ToSet(filo[t].vista))
      /\ staccati' = (staccati \union {u \in Thread : In(u, "scrivi") \/ In(u, "svuota")}) \ {t}
  BY DEF Svuota, Riscritta
<1>3. ToSet(filo[t].vista) \subseteq hermes
  BY <1>2, <1>t DEF InRegola, In
<1>4. Affidate \subseteq Affidate'
  BY <1>2, <1>3 DEF Affidate
<1>5. InRegola(q)' /\ CacheDiAffidate'
  BY <1>1, <1>2, <1>4, <1>t DEF InRegola, DopoStore, In
<1>6. /\ coda' \in Seq(Voce) /\ monca' \in BOOLEAN /\ rotte' \subseteq Voce
      /\ staccati' \subseteq Thread /\ travolte' \subseteq Voce /\ esito' \in [Voce -> Esiti]
  <2>1. ToSet(coda) \subseteq Voce
    BY <1>t, Contenuto
  <2> QED BY <2>1, <1>2, FermoTipato DEF IInv, Tipi
<1> QED BY <1>1, <1>2, <1>4, <1>5, <1>6, <1>t, PassoDi

LEMMA PassoScrive ==
  ASSUME MemorySyncAssumption, IInv, NEW t \in Thread, NEW v \in Voce, Scrive(t, v)
  PROVE  IInv'
<1>t. /\ hermes \subseteq Voce /\ (ids = {} \/ \E S \in SUBSET Voce : ids = {S})
      /\ Affidate \subseteq Affidate' /\ ids' = ids => CacheDiAffidate'
  BY Noto
<1>1. PICK q \in Fili : filo' = [filo EXCEPT ![t] = q] /\ q.voce = v /\ q.pc = "store" /\ q.vista = <<>>
  <2> DEFINE q == [Fermo EXCEPT !.pc = "store", !.voce = v]
  <2>1. q \in Fili /\ q.pc = "store" /\ q.voce = v /\ q.vista = <<>>
    BY FermoTipato DEF Fermo, Fili, Fasi
  <2>2. filo' = [filo EXCEPT ![t] = q]
    BY DEF Scrive
  <2> HIDE DEF q
  <2> QED BY <2>1, <2>2
<1>2. /\ hermes' = hermes /\ su' = su /\ UNCHANGED codavars /\ ids' = ids
      /\ esito' = [esito EXCEPT ![v] = "in corso"]
  BY DEF Scrive
<1>3. Affidate \subseteq Affidate' /\ CacheDiAffidate'
  BY <1>2, <1>t DEF Affidate, codavars
<1>4. InRegola(q)'
  BY <1>1, FermoTipato DEF InRegola, DopoStore, MemorySyncAssumption
<1>5. /\ coda' \in Seq(Voce) /\ monca' \in BOOLEAN /\ rotte' \subseteq Voce
      /\ staccati' \subseteq Thread /\ travolte' \subseteq Voce /\ esito' \in [Voce -> Esiti]
      /\ \A w \in Voce : esito'[w] = "ok" => esito[w] = "ok"
  BY <1>2 DEF codavars, IInv, Tipi, Esiti
<1> QED BY <1>1, <1>2, <1>3, <1>4, <1>5, <1>t, PassoDi

\* A kill forgets the threads and the cache; what the file and Hermes hold remains.
LEMMA PassoCade ==
  ASSUME MemorySyncAssumption, IInv, Cade
  PROVE  IInv'
<1>1. /\ filo' = [t \in Thread |-> Fermo] /\ ids' = {} /\ coda' = coda /\ rotte' = rotte
      /\ travolte' = travolte /\ staccati' = {}
      /\ hermes' = hermes /\ su' = su /\ (monca' = monca \/ monca' = TRUE)
      /\ esito' = [v \in Voce |-> IF esito[v] = "in corso" THEN "caduto" ELSE esito[v]]
  BY DEF Cade
<1>2. esito' \in [Voce -> Esiti] /\ \A v \in Voce : esito'[v] = "ok" => esito[v] = "ok"
  BY <1>1 DEF IInv, Tipi, Esiti
<1>3. Tipi'
  BY <1>1, <1>2, FermoTipato DEF IInv, Tipi
<1>4. PersoSoloTravolto' /\ CacheDiAffidate'
  BY <1>1, <1>2 DEF IInv, Inv, PersoSoloTravolto, CacheDiAffidate
<1>5. ASSUME NEW t \in Thread PROVE InRegola(filo[t])'
  BY <1>1, FermoTipato DEF InRegola, Fermo, DopoStore
<1> QED BY <1>3, <1>4, <1>5 DEF IInv, Inv

LEMMA PassoPeer == IInv /\ (Peer \/ UNCHANGED vars) => IInv'
<1> SUFFICES ASSUME IInv, Peer \/ UNCHANGED vars PROVE IInv'
  OBVIOUS
<1>1. /\ hermes' = hermes /\ coda' = coda /\ monca' = monca /\ rotte' = rotte /\ ids' = ids
      /\ staccati' = staccati /\ travolte' = travolte
      /\ filo' = filo /\ esito' = esito /\ su' \in BOOLEAN
  BY DEF Peer, vars, codavars, IInv, Tipi
<1>2. Tipi'
  BY <1>1 DEF IInv, Tipi
<1>3. Inv'
  BY <1>1 DEF IInv, Inv, PersoSoloTravolto, CacheDiAffidate, InRegola, Affidate
<1> QED BY <1>2, <1>3 DEF IInv

LEMMA InvPreservata == MemorySyncAssumption /\ IInv /\ [Next]_vars => IInv'
<1> SUFFICES ASSUME MemorySyncAssumption, IInv, [Next]_vars PROVE IInv'
  OBVIOUS
<1>1. ASSUME NEW t \in Thread, NEW v \in Voce, Scrive(t, v) PROVE IInv'
  BY <1>1, PassoScrive
<1>2. ASSUME NEW t \in Thread, Sincronizza(t) PROVE IInv'
  BY <1>2, PassoFlush
<1>3. ASSUME NEW t \in Thread, Passo(t) PROVE IInv'
  BY <1>3, PassoScrittura, PassoAggiunge, PassoFlush, PassoSvuota DEF Passo
<1>4. CASE Cade
  BY <1>4, PassoCade
<1>5. CASE Peer \/ UNCHANGED vars
  BY <1>5, PassoPeer
<1> QED BY <1>1, <1>2, <1>3, <1>4, <1>5 DEF Next

\* Outbox, cache of its ids and the threads in them keep their types, however many
\* threads there are.
THEOREM TipoCorretto == MemorySyncAssumption => (Spec => []TypeOK)
<1> SUFFICES ASSUME MemorySyncAssumption PROVE Spec => []TypeOK
  OBVIOUS
<1>1. IInv => TypeOK
  BY DEF IInv, Tipi, TypeOK, Fili
<1> QED BY <1>1, InvIniziale, InvPreservata, PTL DEF Spec

\* However many threads write and flush, an entry answered "ok" (write, append, flush of
\* shared/memory_sync.py) is lost only with a file that another thread rewrote without
\* having read it, whatever answers are lost, entries refused, files not written and
\* processes killed.
THEOREM SiPerdeSoloTravolto == MemorySyncAssumption => (Spec => []PersoSoloTravolto)
<1> SUFFICES ASSUME MemorySyncAssumption PROVE Spec => []PersoSoloTravolto
  OBVIOUS
<1>1. IInv => PersoSoloTravolto
  BY DEF IInv, Inv
<1> QED BY <1>1, InvIniziale, InvPreservata, PTL DEF Spec
=============================================================================
