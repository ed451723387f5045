----------------------------- MODULE SetupConfig -----------------------------
(***************************************************************************)
(* The Setup page of the control plane (main.py, cp/env_meta.py): a save   *)
(* applies its keys one by one to the running process, rebuilds what       *)
(* depends on them and then rewrites the .env file, that the next          *)
(* container is made from.                                                 *)
(*                                                                         *)
(* The keys are applied under _env_lock, the rebuilding is done without    *)
(* it, the file is rewritten under it again: other saves, and the death of *)
(* the process, come in between.                                           *)
(***************************************************************************)
EXTENDS Naturals, FiniteSets, Functions

CONSTANTS
  Chiave,         \* keys of _ENV_META
  Inerti,         \* those whose reader has a copy of its own, taken at import
  Connettori,     \* those of the section "Connettori"
  Avanzate,       \* those /config/advanced sets too, in memory only
  Valore,         \* values that are valid for their type
  Richiesta,      \* threads of the server
  MaxSalvataggi,  \* bound: requests
  MaxCadute       \* bound: restarts

VARIABLES
  ambiente,    \* os.environ
  vivo,        \* the global that a save sets and GET /config/env shows
  letto,       \* what the code that uses the key reads
  catalogo,    \* [Connettori -> what the connectors were built from]
  file,        \* .env: [buono, v], v a function of the keys, 0 for one that is not there
  filo,        \* [Richiesta -> [fase, resto, fatte, errori, foto, contese]]
  lucchetto,   \* the thread that holds _env_lock
  salvato,     \* the values whose save was answered "persisted", 0 if disputed since
  insieme,     \* two saves of connector keys have met
  riavviato,   \* the process has started again in the container it had
  contenitore, \* the environment the container was made with
  salvataggi, cadute

vars == <<ambiente, vivo, letto, catalogo, file, filo, lucchetto, salvato, insieme, riavviato,
          contenitore, salvataggi, cadute>>

Nessuna == << >>
Ferma == [fase |-> "ferma", resto |-> Nessuna, fatte |-> Nessuna, errori |-> FALSE,
          foto |-> Nessuna, contese |-> {}]
Libero == "nessuno"
Errato == 0
Attiva(r) == filo[r].fase # "ferma"
\* the keys of a request, and those of the others that are under way
SueChiavi(r) == DOMAIN filo[r].resto \cup DOMAIN filo[r].fatte
Altrui(r) == UNION {SueChiavi(s) : s \in Richiesta \ {r}}
Con(f, k, v) == [x \in DOMAIN f \cup {k} |-> IF x = k THEN v ELSE f[x]]

\* cp/config.py reads the environment at every start
Init ==
  /\ ambiente \in [Chiave -> {CHOOSE v \in Valore : TRUE}]
  /\ vivo = ambiente /\ letto = ambiente
  /\ catalogo = Restrict(ambiente, Connettori)
  /\ file = [buono |-> TRUE, v |-> ambiente] /\ contenitore = ambiente
  /\ filo = [r \in Richiesta |-> Ferma] /\ lucchetto = Libero
  /\ salvato = [k \in Chiave |-> 0] /\ insieme = FALSE /\ riavviato = FALSE
  /\ salvataggi = 0 /\ cadute = 0

-----------------------------------------------------------------------------
(* set_config_env. *)

\* some keys, each with a value or with one that is not of its type
Chiede(r, aggiorna) ==
  /\ ~Attiva(r) /\ lucchetto = Libero
  /\ salvataggi < MaxSalvataggi /\ salvataggi' = salvataggi + 1
  /\ filo' = [s \in Richiesta |->
       IF s = r THEN [Ferma EXCEPT !.fase = "applica", !.resto = aggiorna, !.contese = Altrui(r)]
       ELSE IF Attiva(s) THEN [filo[s] EXCEPT !.contese = @ \cup DOMAIN aggiorna] ELSE Ferma]
  /\ lucchetto' = r
  /\ salvato' = [k \in Chiave |-> IF k \in DOMAIN aggiorna THEN 0 ELSE salvato[k]]
  /\ insieme' = (insieme \/ \E k \in Connettori : k \in DOMAIN aggiorna
                              /\ Altrui(r) \cap Connettori # {})
  /\ UNCHANGED <<ambiente, vivo, letto, catalogo, file, riavviato, contenitore, cadute>>

\* _coerce_env_val and _apply_env_runtime, one key; the keys come in the order of the body
Applica(r, k) ==
  LET v == filo[r].resto[k] IN
  /\ filo[r].fase = "applica" /\ k \in DOMAIN filo[r].resto
  /\ IF v \in Valore
     THEN /\ ambiente' = [ambiente EXCEPT ![k] = v] /\ vivo' = [vivo EXCEPT ![k] = v]
          /\ letto' = IF k \in Inerti THEN letto ELSE [letto EXCEPT ![k] = v]
          /\ filo' = [filo EXCEPT ![r].resto = Restrict(@, DOMAIN @ \ {k}),
                                  ![r].fatte = Con(@, k, v)]
     ELSE /\ filo' = [filo EXCEPT ![r].resto = Restrict(@, DOMAIN @ \ {k}), ![r].errori = TRUE]
          /\ UNCHANGED <<ambiente, vivo, letto>>
  /\ UNCHANGED <<catalogo, file, lucchetto, salvato, insieme, riavviato, contenitore,
                 salvataggi, cadute>>

\* the lock is given up; the connectors are rebuilt if one of their keys was applied
Prossimo(r) ==
  IF DOMAIN filo[r].fatte \cap Connettori # {} THEN "ricarica"
  ELSE IF filo[r].errori \/ filo[r].fatte = Nessuna THEN "ferma" ELSE "salva"

\* Mutant of Applicate: a save with an error is answered before anything is rebuilt.
ApplicateOErrore(r) ==
  /\ filo[r].fase = "applica" /\ filo[r].resto = Nessuna /\ lucchetto' = Libero
  /\ filo' = IF filo[r].errori \/ Prossimo(r) = "ferma" THEN [filo EXCEPT ![r] = Ferma]
             ELSE [filo EXCEPT ![r].fase = Prossimo(r)]
  /\ UNCHANGED <<ambiente, vivo, letto, catalogo, file, salvato, insieme, riavviato, contenitore,
                 salvataggi, cadute>>

Applicate(r) ==
  /\ filo[r].fase = "applica" /\ filo[r].resto = Nessuna /\ lucchetto' = Libero
  /\ filo' = IF Prossimo(r) = "ferma" THEN [filo EXCEPT ![r] = Ferma]
             ELSE [filo EXCEPT ![r].fase = Prossimo(r)]
  /\ UNCHANGED <<ambiente, vivo, letto, catalogo, file, salvato, insieme, riavviato, contenitore,
                 salvataggi, cadute>>

\* _reload_connectors: they read the environment, and then take the place of the old ones
Costruisce(r) ==
  /\ filo[r].fase = "ricarica"
  /\ filo' = [filo EXCEPT ![r].fase = "posa", ![r].foto = Restrict(ambiente, Connettori)]
  /\ UNCHANGED <<ambiente, vivo, letto, catalogo, file, lucchetto, salvato, insieme, riavviato,
                 contenitore, salvataggi, cadute>>

\* with an error among the keys the answer is 400, and nothing is written
Posa(r) ==
  /\ filo[r].fase = "posa"
  /\ catalogo' = filo[r].foto
  /\ filo' = IF filo[r].errori THEN [filo EXCEPT ![r] = Ferma]
             ELSE [filo EXCEPT ![r].fase = "salva", ![r].foto = Nessuna]
  /\ UNCHANGED <<ambiente, vivo, letto, file, lucchetto, salvato, insieme, riavviato, contenitore,
                 salvataggi, cadute>>

-----------------------------------------------------------------------------
(* _persist_env. *)

\* Mutant of Apre: the file is read and opened without the lock.
ApreSenzaLucchetto(r) ==
  /\ filo[r].fase = "salva" /\ lucchetto' = lucchetto
  /\ filo' = [filo EXCEPT ![r].fase = "scrive",
       ![r].foto = [k \in Chiave |-> IF k \in DOMAIN filo[r].fatte THEN filo[r].fatte[k]
                                     ELSE file.v[k]]]
  /\ file' = [file EXCEPT !.buono = FALSE]
  /\ UNCHANGED <<ambiente, vivo, letto, catalogo, salvato, insieme, riavviato, contenitore,
                 salvataggi, cadute>>

\* the lines of the file with those of the request in their place, and the file opened for
\* writing: empty from here on
Apre(r) ==
  /\ filo[r].fase = "salva" /\ lucchetto = Libero /\ lucchetto' = r
  /\ filo' = [filo EXCEPT ![r].fase = "scrive",
       ![r].foto = [k \in Chiave |-> IF k \in DOMAIN filo[r].fatte THEN filo[r].fatte[k]
                                     ELSE file.v[k]]]
  /\ file' = [file EXCEPT !.buono = FALSE]
  /\ UNCHANGED <<ambiente, vivo, letto, catalogo, salvato, insieme, riavviato, contenitore,
                 salvataggi, cadute>>

Scrive(r) ==
  /\ filo[r].fase = "scrive" /\ lucchetto' = Libero
  /\ file' = [buono |-> TRUE, v |-> filo[r].foto]
  /\ filo' = [filo EXCEPT ![r] = Ferma]
  /\ salvato' = [k \in Chiave |->
       IF k \in DOMAIN filo[r].fatte /\ k \notin filo[r].contese THEN filo[r].fatte[k] ELSE salvato[k]]
  /\ UNCHANGED <<ambiente, vivo, letto, catalogo, insieme, riavviato, contenitore, salvataggi,
                 cadute>>

\* a file that cannot be opened: the answer is ok all the same, with "persisted" false
NonScrive(r) ==
  /\ filo[r].fase = "salva" /\ lucchetto = Libero
  /\ filo' = [filo EXCEPT ![r] = Ferma]
  /\ UNCHANGED <<ambiente, vivo, letto, catalogo, file, lucchetto, salvato, insieme, riavviato,
                 contenitore, salvataggi, cadute>>

-----------------------------------------------------------------------------
\* set_advanced_config, rotate_secret: the running process only
Avanzata(k, v) ==
  /\ k \in Avanzate /\ salvataggi < MaxSalvataggi /\ salvataggi' = salvataggi + 1
  /\ vivo' = [vivo EXCEPT ![k] = v] /\ letto' = [letto EXCEPT ![k] = v]
  /\ UNCHANGED <<ambiente, catalogo, file, filo, lucchetto, salvato, insieme, riavviato,
                 contenitore, cadute>>

\* the process starts with the environment e; a file cut short is what is left of it
Nasce(e) ==
  /\ cadute < MaxCadute /\ cadute' = cadute + 1
  /\ ambiente' = e /\ vivo' = e /\ letto' = e /\ catalogo' = Restrict(e, Connettori)
  /\ filo' = [r \in Richiesta |-> Ferma] /\ lucchetto' = Libero
  /\ insieme' = FALSE
  /\ file' = IF file.buono THEN file ELSE [buono |-> TRUE, v |-> [k \in Chiave |-> 0]]
  /\ salvato' = IF file.buono THEN salvato ELSE [k \in Chiave |-> 0]
  /\ UNCHANGED salvataggi

\* the same container starts again, or a new one is made from the file; a key that is not
\* in the file has its default
Riavvia == Nasce(contenitore) /\ riavviato' = TRUE /\ UNCHANGED contenitore
DiFabbrica(v) == IF v = 0 THEN CHOOSE x \in Valore : TRUE ELSE v
Ricrea ==
  /\ file.buono
  /\ contenitore' = [k \in Chiave |-> DiFabbrica(file.v[k])]
  /\ Nasce(contenitore') /\ riavviato' = FALSE

Aggiornamenti ==
  UNION {[ks -> Valore \cup {Errato}] : ks \in SUBSET Chiave \ {{}}}

Next ==
  \/ \E r \in Richiesta :
       \/ \E u \in Aggiornamenti : Chiede(r, u)
       \/ \E k \in Chiave : Applica(r, k)
       \/ Applicate(r) \/ Costruisce(r) \/ Posa(r) \/ Apre(r) \/ Scrive(r) \/ NonScrive(r)
  \/ \E k \in Chiave : \E v \in Valore : Avanzata(k, v)
  \/ Riavvia \/ Ricrea

Spec == Init /\ [][Next]_vars

-----------------------------------------------------------------------------
\* what GET /config/env shows: the globals that a save sets
Mostrata(k) == vivo[k]

Quiete == \A r \in Richiesta : ~Attiva(r)
TypeOK ==
  /\ ambiente \in [Chiave -> Valore] /\ vivo \in [Chiave -> Valore]
  /\ letto \in [Chiave -> Valore] /\ catalogo \in [Connettori -> Valore]
  /\ file.buono \in BOOLEAN /\ file.v \in [Chiave -> Valore \cup {0}]
  /\ \A r \in Richiesta : SueChiavi(r) \subseteq Chiave
  /\ lucchetto \in Richiesta \cup {Libero} /\ salvato \in [Chiave -> Valore \cup {0}]

\* A save that was answered "persisted" is in the file, whatever saves of other keys came
\* after it or at the same time, and in force unless the old container was started again
\* (_persist_env reads, changes and writes under one hold of the lock).
SalvatoVale ==
  \A k \in Chiave : salvato[k] # 0 =>
    /\ \/ file.buono /\ file.v[k] = salvato[k]
       \/ \E r \in Richiesta : filo[r].fase = "scrive" /\ filo[r].foto[k] = salvato[k]
    /\ riavviato \/ ambiente[k] = salvato[k]

\* When no save is under way the catalogue of tools is the one the environment asks for,
\* even if the last save was refused for some other key of it, unless two saves of the
\* connectors met (set_config_env rebuilds before it looks at the errors).
CatalogoAggiornato ==
  Quiete /\ ~insieme => \A k \in Connettori : catalogo[k] = ambiente[k]

\* The comment of _apply_env_runtime on "salvato ma inerte": what Setup shows is what the
\* code uses.
InertiMai == Quiete => \A k \in Chiave : letto[k] = Mostrata(k)

\* what a save that is answered 400 would have to do
RifiutatoSenzaEffetto ==
  [][\A r \in Richiesta : filo[r].errori /\ filo'[r].fase = "ferma"
       => \A k \in DOMAIN filo[r].fatte : file.v[k] = ambiente[k]]_vars
=============================================================================
