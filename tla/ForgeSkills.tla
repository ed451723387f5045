----------------------------- MODULE ForgeSkills -----------------------------
(***************************************************************************)
(* The Forge (src/control-plane/cp/forge.py): artifacts that are drafted,  *)
(* reviewed and approved, each one a record and a copy of its source for   *)
(* the IDE, and the approved skills that a chat may ask for                *)
(* (src/shared/forge_skills.py).  Writers hold one lock; the two files of  *)
(* an artifact are replaced one after the other, the record last.          *)
(***************************************************************************)
EXTENDS Naturals, FiniteSets

CONSTANTS
  Propri,       \* artifacts that may be created
  Ecc,          \* those of the ECC bundle
  Sorgente,     \* sources
  Valide,       \* [{"tool", "skill", "patch"} -> the sources _forge_validate accepts]
  MaxVersioni,  \* bound: versions of an artifact
  MaxAMano,     \* bound: edits by hand
  MaxCadute     \* bound: restarts and disks that do not write

ForgeSkillsAssumption ==
  MaxVersioni \in Nat \ {0} /\ "vuoto" \notin Sorgente /\ Valide["skill"] \subseteq Sorgente

VARIABLES
  scheda,       \* [artifact -> its record on disk, or Nessuna]
  copia,        \* [artifact -> [extension -> the source beside it]]
  mano,         \* what the holder of the lock writes: [art, nuova, fase, approva]
  importa,      \* artifacts of the bundle still to import
  data,         \* history: [artifact -> the source approved last, while nothing undid it]
  visti,        \* history: [artifact, version, source] ever on disk
  allegata,     \* history: the last skill given to a chat: [art, dovuta]
  spaiate,      \* history: artifacts whose two files may differ
  aMano, cadute

vars == <<scheda, copia, mano, importa, data, visti, allegata, spaiate, aMano, cadute>>

Artefatto == Propri \union Ecc
Tipi == {"tool", "skill", "patch"}
Stati == {"draft", "review", "approved", "disabled"}
Estensione(tipo) == CASE tipo = "tool" -> "py" [] tipo = "patch" -> "diff" [] OTHER -> "md"

Vuoto == "vuoto"
Nessuna == [tipo |-> Vuoto, sorgente |-> Vuoto, stato |-> Vuoto, versione |-> 0, impronta |-> Vuoto]
Libera == [art |-> Vuoto, nuova |-> Nessuna, fase |-> "libera", approva |-> FALSE]

Init ==
  /\ scheda = [a \in Artefatto |-> Nessuna]
  /\ copia = [a \in Artefatto |-> [e \in {"py", "diff", "md"} |-> Vuoto]]
  /\ mano = Libera /\ importa = {}
  /\ data = [a \in Artefatto |-> Vuoto] /\ visti = {}
  /\ allegata = [art |-> Vuoto, dovuta |-> TRUE] /\ spaiate = {}
  /\ aMano = 0 /\ cadute = 0

Esiste(a) == scheda[a] # Nessuna
\* _forge_lock; the import holds it from the first artifact to the last
Aperto == mano = Libera /\ importa = {}

\* _forge_validate
Valida(tipo, sorgente) == sorgente \in Valide[tipo]

\* _forge_write begins
Scrive(a, nuova, approva) ==
  mano' = [art |-> a, nuova |-> nuova, fase |-> "pronta", approva |-> approva]

-----------------------------------------------------------------------------
Bozza(tipo, sorgente, versione) ==
  [tipo |-> tipo, sorgente |-> sorgente, stato |-> "draft", versione |-> versione, impronta |-> Vuoto]

\* the identifier is new
Nasce(tipi) ==
  \E a \in Propri, tipo \in tipi, sorgente \in Sorgente :
    /\ Aperto /\ ~Esiste(a) /\ Scrive(a, Bozza(tipo, sorgente, 1), FALSE)
    /\ UNCHANGED <<scheda, copia, importa, data, visti, allegata, spaiate, aMano, cadute>>

\* forge_create
Crea == Nasce(Tipi)

\* forge_generate: the model writes whatever it writes, and forge_create takes it
Genera == Nasce({"tool", "skill"})

\* Mutant of Riscritta: an approved artifact keeps its approval.
RiscrittaApprovata(a, tipo, sorgente) ==
  [scheda[a] EXCEPT !.tipo = tipo, !.sorgente = sorgente, !.versione = @ + 1,
                    !.impronta = IF @ = Vuoto THEN Vuoto ELSE sorgente]

\* forge_update: a draft again
Riscritta(a, tipo, sorgente) == Bozza(tipo, sorgente, scheda[a].versione + 1)

Aggiorna ==
  \E a \in Artefatto, tipo \in Tipi, sorgente \in Sorgente :
    /\ Aperto /\ Esiste(a) /\ scheda[a].versione < MaxVersioni
    /\ Scrive(a, Riscritta(a, tipo, sorgente), FALSE)
    /\ UNCHANGED <<scheda, copia, importa, data, visti, allegata, spaiate, aMano, cadute>>

\* forge_status: approved only when it is valid, by who holds the token
Stabilisce ==
  \E a \in Artefatto, stato \in Stati :
    /\ Aperto /\ Esiste(a)
    /\ stato = "approved" => Valida(scheda[a].tipo, scheda[a].sorgente)
    /\ Scrive(a, [scheda[a] EXCEPT !.stato = stato,
                                   !.impronta = IF stato = "approved" THEN scheda[a].sorgente ELSE Vuoto],
              stato = "approved")
    /\ UNCHANGED <<scheda, copia, importa, data, visti, allegata, spaiate, aMano, cadute>>

\* forge_import_ecc: the lock is taken for the whole bundle ...
Importa ==
  /\ Aperto /\ Ecc # {} /\ importa' = Ecc
  /\ UNCHANGED <<scheda, copia, mano, data, visti, allegata, spaiate, aMano, cadute>>

\* Mutant of ImportaUno: what is there is written again.
ImportaDiNuovo ==
  \E a \in importa, sorgente \in Valide["skill"] :
    /\ mano = Libera /\ importa' = importa \ {a}
    /\ Scrive(a, Bozza("skill", sorgente, 1), FALSE)
    /\ UNCHANGED <<scheda, copia, data, visti, allegata, spaiate, aMano, cadute>>

\* ... and what is there already is left as it is
ImportaUno ==
  \E a \in importa :
    /\ mano = Libera /\ importa' = importa \ {a}
    /\ IF Esiste(a) THEN UNCHANGED mano
       ELSE \E sorgente \in Valide["skill"] : Scrive(a, Bozza("skill", sorgente, 1), FALSE)
    /\ UNCHANGED <<scheda, copia, data, visti, allegata, spaiate, aMano, cadute>>

\* _forge_write: first the source ...
PosaCopia ==
  /\ mano.fase = "pronta" /\ mano' = [mano EXCEPT !.fase = "copiata"]
  /\ copia' = [copia EXCEPT ![mano.art][Estensione(mano.nuova.tipo)] = mano.nuova.sorgente]
  /\ spaiate' = spaiate \ {mano.art}
  /\ UNCHANGED <<scheda, importa, data, visti, allegata, aMano, cadute>>

\* ... then the record
PosaScheda ==
  /\ mano.fase = "copiata" /\ mano' = Libera
  /\ scheda' = [scheda EXCEPT ![mano.art] = mano.nuova]
  /\ data' = [data EXCEPT ![mano.art] =
       IF mano.approva THEN mano.nuova.sorgente ELSE Vuoto]
  /\ visti' = visti \union {<<mano.art, mano.nuova.versione, mano.nuova.sorgente>>}
  /\ UNCHANGED <<copia, importa, allegata, spaiate, aMano, cadute>>

\* a restart, or a disk that does not write: between the two the source is ahead
Interrompe ==
  /\ cadute < MaxCadute /\ cadute' = cadute + 1
  /\ mano.fase # "libera" /\ mano' = Libera /\ importa' = {}
  /\ spaiate' = IF mano.fase = "copiata" THEN spaiate \union {mano.art} ELSE spaiate
  /\ UNCHANGED <<scheda, copia, data, visti, allegata, aMano>>

\* the operator edits a source in the IDE, or the record with any editor
ModificaCopia ==
  \E a \in Artefatto, sorgente \in Sorgente :
    /\ Esiste(a) /\ aMano < MaxAMano /\ aMano' = aMano + 1
    /\ copia' = [copia EXCEPT ![a][Estensione(scheda[a].tipo)] = sorgente]
    /\ spaiate' = spaiate \union {a}
    /\ UNCHANGED <<scheda, mano, importa, data, visti, allegata, cadute>>

ModificaScheda ==
  \E a \in Artefatto, sorgente \in Sorgente :
    /\ Esiste(a) /\ aMano < MaxAMano /\ aMano' = aMano + 1
    /\ scheda' = [scheda EXCEPT ![a].sorgente = sorgente]
    /\ visti' = visti \ {v \in visti : v[1] = a} /\ spaiate' = spaiate \union {a}
    /\ UNCHANGED <<copia, mano, importa, data, allegata, cadute>>

-----------------------------------------------------------------------------
\* Mutant of Usabile: the hash of what was approved is not compared.
UsabileApprovata(s) == s.tipo = "skill" /\ s.stato = "approved" /\ s.sorgente # Vuoto

\* attach_skills
Usabile(s) ==
  s.tipo = "skill" /\ s.stato = "approved" /\ s.sorgente # Vuoto /\ s.impronta = s.sorgente

\* _forge_read_skill: a chat reads a skill when nobody writes
Allega ==
  \E a \in Artefatto :
    /\ Aperto /\ Usabile(scheda[a])
    /\ allegata' = [art |-> a, dovuta |-> data[a] = scheda[a].sorgente]
    /\ UNCHANGED <<scheda, copia, mano, importa, data, visti, spaiate, aMano, cadute>>

Next ==
  \/ Crea \/ Genera \/ Aggiorna \/ Stabilisce \/ Importa \/ ImportaUno \/ PosaCopia \/ PosaScheda
  \/ Interrompe \/ ModificaCopia \/ ModificaScheda \/ Allega

Spec == Init /\ [][Next]_vars

-----------------------------------------------------------------------------
TypeOK ==
  /\ \A a \in Artefatto :
       Esiste(a) => /\ scheda[a].tipo \in Tipi /\ scheda[a].sorgente \in Sorgente
                    /\ scheda[a].stato \in Stati /\ scheda[a].versione \in 1..MaxVersioni
  /\ mano.fase \in {"libera", "pronta", "copiata"} /\ importa \subseteq Ecc

\* A chat is given only the skills approved as they are: not one changed, disabled or edited by
\* hand since (attach_skills, forge_update, forge_status).
SoloApprovate == allegata.dovuta

\* What the IDE shows is the source of the record, unless a write was interrupted between the
\* two files or one of them was edited by hand (_forge_write).
CopiaFedele ==
  \A a \in Artefatto :
    Esiste(a) /\ a \notin spaiate /\ mano.art # a =>
      copia[a][Estensione(scheda[a].tipo)] = scheda[a].sorgente

\* A version has one source: no two updates of the same one are both kept (forge_update).
VersioneUnica == \A v, w \in visti : v[1] = w[1] /\ v[2] = w[2] => v[3] = w[3]

\* The import creates what is missing and touches nothing else (forge_import_ecc).
PassoImporta ==
  \A a \in Artefatto :
    Esiste(a) /\ scheda'[a] # scheda[a] /\ mano.fase = "copiata" =>
      scheda'[a].versione >= scheda[a].versione

\* docs/tool-skill-forge.md:18 "Inspect static validation warnings and open the source in the
\* browser IDE" before approving: the copy looked at may be of another version or of a type
\* that the artifact no longer has.
SoloLaSua ==
  \A a \in Artefatto, e \in {"py", "diff", "md"} :
    Esiste(a) /\ mano = Libera /\ copia[a][e] # Vuoto => e = Estensione(scheda[a].tipo)
=============================================================================
