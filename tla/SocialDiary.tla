----------------------------- MODULE SocialDiary -----------------------------
(***************************************************************************)
(* The showcase of the two sisters: three loops of the control plane that  *)
(* write posts, poems and dreams and ask for a sketch of each (main.py,    *)
(* shared/sketch.py), the diary that holds their pages (shared/diario.py), *)
(* the sketches that come back (image_result of cp/immagini.py), and the   *)
(* thread that would publish a page (cp/instagram.py), up to its lock.     *)
(*                                                                         *)
(* All of them are threads that share the diary and rewrite its file       *)
(* whole, in place and without a lock: open empties the file, close puts   *)
(* there what was serialised in between.                                   *)
(***************************************************************************)
EXTENDS Naturals, FiniteSets

CONSTANTS
  Voce,        \* pages that may be written, 1..n
  Loop,        \* the loops that are on, among "post", "poesia", "sogno"
  MaxSogni,    \* DREAM_PER_AUTHOR_PER_DAY, for the author at hand
  MaxSketch,   \* FEED_SKETCH_PER_DAY
  MaxCadute    \* bound: crashes

VARIABLES
  voci,        \* the diary in memory: [Voce -> page]
  disco,       \* its file: [buono, voci]
  salva,       \* [writer -> [aperta, foto]]: a save between open and close
  giro,        \* [Loop -> [fase, voce]]
  conteggi,    \* _sketch_generati: the sketches asked for today
  chiesti,     \* the same, for whoever counts them as they enter the queue
  job,         \* [Voce -> the sketch of the page]
  esito,       \* image_result: [fase, voce]
  attesa,      \* the pages whose publication has been started
  scritte,     \* [type -> pages saved today]
  accavallati, \* two saves have overlapped
  rotto,       \* a start has found the file broken
  cadute

vars == <<voci, disco, salva, giro, conteggi, chiesti, job, esito, attesa, scritte,
          accavallati, rotto, cadute>>

Tipo == {"post", "poesia", "sogno", "dialogo"}
Assente == [tipo |-> "assente", oggi |-> FALSE, file |-> FALSE, ig |-> ""]
Pagina(t) == [tipo |-> t, oggi |-> TRUE, file |-> FALSE, ig |-> ""]
Vuoto == [v \in Voce |-> Assente]
Scrittori == Loop \cup {"esito"}
Chiusa == [aperta |-> FALSE, foto |-> Vuoto]
Dorme == [fase |-> "dorme", voce |-> 0]
Oggi(t) == Cardinality({v \in Voce : voci[v].tipo = t /\ voci[v].oggi})
Illustrata(v) == voci[v].tipo \in {"poesia", "sogno"}

\* the identifiers nobody has used: uuid4
Nuove == {v \in Voce : /\ voci[v] = Assente /\ job[v] = "no"
                       /\ \A l \in Loop : giro[l].voce # v}
Nuova == CHOOSE v \in Nuove : \A w \in Nuove : v <= w

Init ==
  /\ voci = Vuoto /\ disco = [buono |-> TRUE, voci |-> Vuoto]
  /\ salva = [s \in Scrittori |-> Chiusa]
  /\ giro = [l \in Loop |-> Dorme]
  /\ conteggi = 0 /\ chiesti = 0
  /\ job = [v \in Voce |-> "no"]
  /\ esito = Dorme /\ attesa = {}
  /\ scritte = [t \in Tipo |-> 0]
  /\ accavallati = FALSE /\ rotto = FALSE /\ cadute = 0

-----------------------------------------------------------------------------
(* Diario.save. *)

\* a page is written or changed, and the file opened: it is empty from here on
Apre(s, nuove) ==
  /\ voci' = nuove
  /\ salva' = [salva EXCEPT ![s] = [aperta |-> TRUE, foto |-> nuove]]
  /\ disco' = [disco EXCEPT !.buono = FALSE]
  /\ accavallati' = (accavallati \/ \E o \in Scrittori \ {s} : salva[o].aperta)

\* the file closed; what another writer put there meanwhile may be left at its end
Chiude(s) ==
  /\ salva[s].aperta
  /\ \E b \in IF accavallati THEN BOOLEAN ELSE {TRUE} :
       disco' = [buono |-> b, voci |-> salva[s].foto]
  /\ salva' = [salva EXCEPT ![s] = Chiusa]
  /\ UNCHANGED <<voci, accavallati>>

-----------------------------------------------------------------------------
(* The loops: _run_post_once, _run_poem_once, _sogna_una_volta, _accoda_sketch. *)

\* Mutant of Tocca: a poem for each of the two sisters.
ToccaPerTurno(l) ==
  IF l = "poesia" THEN Oggi("poesia") <= 1 ELSE l = "sogno" => Oggi("sogno") < MaxSogni

\* is it time: a poem a day, so many dreams a day, a post at every interval
Tocca(l) ==
  CASE l = "post" -> TRUE
    [] l = "poesia" -> Oggi("poesia") = 0
    [] l = "sogno" -> Oggi("sogno") < MaxSogni

\* the model is asked; it takes minutes, and often there is nothing to write
Genera(l) ==
  /\ giro[l].fase = "dorme" /\ Tocca(l)
  /\ giro' = [giro EXCEPT ![l].fase = "genera"]
  /\ UNCHANGED <<voci, disco, salva, conteggi, chiesti, job, esito, attesa,
                 scritte, accavallati, rotto, cadute>>

Scarta(l) ==
  /\ giro[l].fase = "genera"
  /\ giro' = [giro EXCEPT ![l] = Dorme]
  /\ UNCHANGED <<voci, disco, salva, conteggi, chiesti, job, esito, attesa,
                 scritte, accavallati, rotto, cadute>>

\* Mutant of Scrive: the sketch is asked for first, as for the posts.
ScriveDopo(l) ==
  /\ giro[l].fase = "genera" /\ Nuove # {}
  /\ giro' = [giro EXCEPT ![l] = [fase |-> "sketch", voce |-> Nuova]]
  /\ UNCHANGED <<voci, disco, salva, conteggi, chiesti, job, esito, attesa,
                 scritte, accavallati, rotto, cadute>>

\* a poem and a dream go into the diary at once, a post only once its sketch is in the queue
Scrive(l) ==
  /\ giro[l].fase = "genera" /\ Nuove # {}
  /\ IF l = "post"
     THEN /\ giro' = [giro EXCEPT ![l] = [fase |-> "sketch", voce |-> Nuova]]
          /\ UNCHANGED <<voci, disco, salva, accavallati>>
     ELSE /\ giro' = [giro EXCEPT ![l] = [fase |-> "salva", voce |-> Nuova]]
          /\ Apre(l, [voci EXCEPT ![Nuova] = Pagina(l)])
  /\ UNCHANGED <<conteggi, chiesti, job, esito, attesa, scritte, rotto, cadute>>

\* _publish_dialogue: the card of a reaction is published first, its page written after
Dialogo ==
  /\ "post" \in Loop /\ giro["post"].fase = "genera" /\ Cardinality(Nuove) >= 2
  /\ giro' = [giro EXCEPT !["post"] = [fase |-> "dialogo", voce |-> Nuova]]
  /\ Apre("post", [voci EXCEPT ![Nuova] = [Pagina("dialogo") EXCEPT !.ig = "published"]])
  /\ UNCHANGED <<conteggi, chiesti, job, esito, attesa, scritte, rotto, cadute>>

Salvata(l) ==
  LET g == giro[l] IN
  /\ g.fase \in {"salva", "dialogo", "annota"} /\ Chiude(l)
  /\ scritte' = IF voci[g.voce].oggi THEN [scritte EXCEPT ![voci[g.voce].tipo] = @ + 1]
                ELSE scritte
  /\ giro' = [giro EXCEPT ![l] =
       CASE g.fase = "dialogo" -> [fase |-> "genera", voce |-> 0]
         [] g.fase = "salva" -> [fase |-> "sketch", voce |-> g.voce]
         [] g.fase = "annota" -> Dorme]
  /\ UNCHANGED <<conteggi, chiesti, job, esito, attesa, rotto, cadute>>

\* puo_generare: below the ceiling the sketch enters the queue, if the queue has room; the
\* counter moves only after that
Sketch(l) ==
  /\ giro[l].fase = "sketch"
  /\ \E posto \in BOOLEAN :
       IF posto /\ conteggi < MaxSketch
       THEN /\ job' = [job EXCEPT ![giro[l].voce] = "coda"] /\ chiesti' = chiesti + 1
            /\ giro' = [giro EXCEPT ![l].fase = "conta"]
       ELSE giro' = [giro EXCEPT ![l] = Dorme] /\ UNCHANGED <<job, chiesti>>
  /\ UNCHANGED <<voci, disco, salva, conteggi, esito, attesa, scritte,
                 accavallati, rotto, cadute>>

\* Mutant of Conta: the counter is left alone.
ContaNulla(l) ==
  /\ giro[l].fase = "conta" /\ voci[giro[l].voce] # Assente
  /\ giro' = [giro EXCEPT ![l] = Dorme]
  /\ UNCHANGED <<voci, disco, salva, conteggi, chiesti, job, esito, attesa,
                 scritte, accavallati, rotto, cadute>>

\* the counter, and the page if it is still to be written: that of a post
Conta(l) ==
  /\ giro[l].fase = "conta" /\ conteggi' = conteggi + 1
  /\ IF voci[giro[l].voce] = Assente
     THEN /\ giro' = [giro EXCEPT ![l].fase = "annota"]
          /\ Apre(l, [voci EXCEPT ![giro[l].voce] = Pagina(l)])
     ELSE /\ giro' = [giro EXCEPT ![l] = Dorme]
          /\ UNCHANGED <<voci, disco, salva, accavallati>>
  /\ UNCHANGED <<chiesti, job, esito, attesa, scritte, rotto, cadute>>

-----------------------------------------------------------------------------
(* image_result. *)

\* the bridge reports: the queue closes the job first
Concluso(v) ==
  /\ esito.fase = "dorme" /\ job[v] = "coda"
  /\ job' = [job EXCEPT ![v] = "finito"]
  /\ esito' = [fase |-> "concluso", voce |-> v]
  /\ UNCHANGED <<voci, disco, salva, giro, conteggi, chiesti, attesa,
                 scritte, accavallati, rotto, cadute>>

\* then the page gets its file and, if it is to be published, waits for that
Registra ==
  LET v == esito.voce IN
  /\ esito.fase = "concluso"
  /\ IF voci[v] = Assente
     THEN /\ esito' = Dorme /\ job' = [job EXCEPT ![v] = "registrato"]
          /\ UNCHANGED <<voci, disco, salva, accavallati>>
     ELSE /\ esito' = [esito EXCEPT !.fase = "salva"]
          /\ Apre("esito", [voci EXCEPT ![v].file = TRUE,
                                        ![v].ig = IF Illustrata(v) THEN "pending" ELSE @])
          /\ UNCHANGED job
  /\ UNCHANGED <<giro, conteggi, chiesti, attesa, scritte, rotto, cadute>>

Registrato ==
  LET v == esito.voce IN
  /\ esito.fase = "salva" /\ Chiude("esito")
  /\ job' = [job EXCEPT ![v] = "registrato"]
  /\ attesa' = IF Illustrata(v) THEN attesa \cup {v} ELSE attesa
  /\ esito' = Dorme
  /\ UNCHANGED <<giro, conteggi, chiesti, scritte, rotto, cadute>>

-----------------------------------------------------------------------------
(* _instagram_publish_voce. *)

\* the publication ends where it takes its lock, under a name the context does not have
\* (instagram_dream_publish_lock, kept there as dream_publish_lock): the page is left as it is
Prende(v) ==
  /\ v \in attesa /\ attesa' = attesa \ {v}
  /\ UNCHANGED <<voci, disco, salva, giro, conteggi, chiesti, job, esito, scritte, accavallati,
                 rotto, cadute>>

-----------------------------------------------------------------------------
\* the day changes: the pages of yesterday no longer count, nor do its sketches
Giorno ==
  /\ \E v \in Voce : voci[v].oggi
  /\ voci' = [v \in Voce |-> [voci[v] EXCEPT !.oggi = FALSE]]
  /\ disco' = [disco EXCEPT !.voci = [v \in Voce |-> [@[v] EXCEPT !.oggi = FALSE]]]
  /\ salva' = [s \in Scrittori |->
       [salva[s] EXCEPT !.foto = [v \in Voce |-> [@[v] EXCEPT !.oggi = FALSE]]]]
  /\ conteggi' = 0 /\ chiesti' = 0 /\ scritte' = [t \in Tipo |-> 0]
  /\ UNCHANGED <<giro, job, esito, attesa, accavallati, rotto, cadute>>

\* Diario.load: a file that does not parse is an empty diary
Letto == IF disco.buono THEN disco.voci ELSE Vuoto

\* instagram_backfill_candidate: the newest page that was waiting
Ripresa == LET c == {v \in Voce : /\ Letto[v].tipo \in {"poesia", "sogno"} /\ Letto[v].file
                                  /\ Letto[v].ig = "pending"}
           IN {v \in c : \A w \in c : w <= v}

\* the process dies and starts again; the queue of the images is on disk, the count of the
\* sketches is not
Cade ==
  /\ cadute < MaxCadute /\ cadute' = cadute + 1
  /\ voci' = Letto /\ rotto' = (rotto \/ ~disco.buono)
  /\ attesa' = Ripresa
  /\ salva' = [s \in Scrittori |-> Chiusa]
  /\ giro' = [l \in Loop |-> Dorme] /\ esito' = Dorme
  /\ conteggi' = 0 /\ chiesti' = 0
  /\ UNCHANGED <<disco, job, scritte, accavallati>>

Next ==
  \/ \E l \in Loop : Genera(l) \/ Scarta(l) \/ Scrive(l) \/ Salvata(l) \/ Sketch(l) \/ Conta(l)
  \/ \E v \in Voce : Concluso(v) \/ Prende(v)
  \/ Dialogo \/ Registra \/ Registrato \/ Giorno \/ Cade

Spec == Init /\ [][Next]_vars

-----------------------------------------------------------------------------
Pagine == [tipo : Tipo \cup {"assente"}, oggi : BOOLEAN, file : BOOLEAN,
           ig : {"", "pending", "published"}]
TypeOK ==
  /\ voci \in [Voce -> Pagine] /\ disco \in [buono : BOOLEAN, voci : [Voce -> Pagine]]
  /\ salva \in [Scrittori -> [aperta : BOOLEAN, foto : [Voce -> Pagine]]]
  /\ giro \in [Loop -> [fase : {"dorme", "genera", "dialogo", "sketch", "conta", "salva",
                                "annota"},
                        voce : Voce \cup {0}]]
  /\ conteggi \in Nat /\ chiesti \in Nat
  /\ job \in [Voce -> {"no", "coda", "finito", "registrato"}]
  /\ esito.fase \in {"dorme", "concluso", "salva"}
  /\ attesa \subseteq Voce /\ scritte \in [Tipo -> Nat]

\* A poem a day, and so many dreams, across restarts: the count is read from the diary
\* (_diario_counts_today), which a crash during a save empties and overlapping saves rewind.
NelGiorno ==
  ~rotto /\ ~accavallati => scritte["poesia"] <= 1 /\ scritte["sogno"] <= MaxSogni

\* Whoever passes the ceiling of the sketches does so together with others: the loops check
\* it and count after, each by one (_accoda_sketch, puo_generare).
SketchEntroTetto == chiesti < MaxSketch + Cardinality(Loop)

\* The sketch of a poem or of a dream finds its page, because the page is written before
\* the sketch is asked for; a crash can come between the queue and the diary.
PaginaConFile ==
  cadute = 0 => \A v \in Voce : Illustrata(v) /\ job[v] = "registrato" => voci[v].file

\* the same for every page: the posts are written after
OgniPaginaConFile ==
  cadute = 0 => \A v \in Voce : voci[v] # Assente /\ job[v] = "registrato" => voci[v].file
=============================================================================
