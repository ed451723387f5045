----------------------------- MODULE SandboxRuns -----------------------------
(***************************************************************************)
(* What the runner of the code sandbox does inside one workspace           *)
(* (src/sandbox/runner.py): files written, commands run under a time and   *)
(* an output limit, checks and the plan of checks that "verify" runs, and  *)
(* the diff against the copy the workspace was made from.                  *)
(*                                                                         *)
(* A file is what the checks tell apart: "vuoto" has nothing to check,     *)
(* "rotto" cannot be read by the tools, "brutto" has something to find.    *)
(* A command may write files, print, and leave children, in its process    *)
(* group or in a session of their own.                                     *)
(***************************************************************************)
EXTENDS Naturals, FiniteSets, Sequences, FiniteSetsExt

CONSTANTS
  Strumento,   \* tools asked for, of TOOL_MODULES
  Peso,        \* bytes of the diff of each file, in order
  MaxDiff,     \* MAX_DIFF_BYTES
  MaxUscita,   \* MAX_OUTPUT_BYTES
  MaxLista,    \* limit of a listing
  MaxControlli,\* 6 in the code
  MaxScritture \* bound: files written by commands and their children

VARIABLES
  repo,        \* the files of the workspace, in order
  piano,       \* checks still to run, after the one under way
  corsa,       \* the command under way: [pc, strumento, uscita, codice, visto, figli, errore]
  esiti,       \* results of the plan
  verdetto,    \* the answer of verify: [complete, passed, visti]
  fuori,       \* a child in a session of its own is alive
  scritte

\* "profile" runs a file and judges nothing of it, so a plan is made of the others
SandboxRunsAssumption ==
  /\ Strumento \subseteq {"pytest", "unittest", "bandit", "ruff"}
  /\ Peso \in Seq(Nat) /\ Peso # <<>>
  /\ MaxDiff \in Nat /\ MaxUscita \in Nat /\ MaxLista \in Nat /\ MaxControlli \in Nat

vars == <<repo, piano, corsa, esiti, verdetto, fuori, scritte>>

Contenuto == {"buono", "brutto", "rotto", "vuoto"}
File == DOMAIN Peso
Base == [f \in File |-> "vuoto"]
Ferma == [pc |-> "ferma", strumento |-> "-", uscita |-> 0, codice |-> 9, visto |-> "-",
          figli |-> FALSE, errore |-> "no"]
Nessuno == [complete |-> FALSE, passed |-> FALSE, visti |-> {}]

Init ==
  /\ repo = Base /\ piano = <<>> /\ corsa = Ferma /\ esiti = <<>> /\ verdetto = Nessuno
  /\ fuori = FALSE /\ scritte = 0

\* _write, _replace: one job, put in place by a rename
Scrive ==
  /\ corsa.pc = "ferma" /\ piano = <<>> /\ scritte < MaxScritture /\ scritte' = scritte + 1
  /\ \E f \in File, c \in Contenuto : repo[f] # c /\ repo' = [repo EXCEPT ![f] = c]
  /\ UNCHANGED <<piano, corsa, esiti, verdetto, fuori>>

-----------------------------------------------------------------------------
(* A command: _capture. *)

Parte(s) == corsa' = [Ferma EXCEPT !.pc = "corre", !.strumento = s]

\* _run
Comanda ==
  /\ corsa.pc = "ferma" /\ piano = <<>> /\ Parte("run")
  /\ UNCHANGED <<repo, piano, esiti, verdetto, fuori, scritte>>

\* commands and tests write in the workspace
Lavora ==
  /\ corsa.pc = "corre" /\ corsa.codice = 9 /\ corsa.strumento \in {"run", "pytest", "unittest"}
  /\ scritte < MaxScritture /\ scritte' = scritte + 1
  /\ \E f \in File, c \in {"buono", "brutto"} : repo' = [repo EXCEPT ![f] = c]
  /\ UNCHANGED <<piano, corsa, esiti, verdetto, fuori>>

\* and leave children, which hold the pipes when they are in its group
Genera ==
  /\ corsa.pc = "corre" /\ corsa.codice = 9 /\ corsa.strumento = "run"
  /\ \/ corsa' = [corsa EXCEPT !.figli = TRUE] /\ UNCHANGED fuori
     \/ fuori' = TRUE /\ UNCHANGED corsa
  /\ UNCHANGED <<repo, piano, esiti, verdetto, scritte>>

\* Mutant of Stampa: what is over the limit is dropped, and the command goes on.
StampaETaglia ==
  /\ corsa.pc = "corre" /\ corsa.errore = "no"
  /\ corsa.uscita <= MaxUscita /\ corsa' = [corsa EXCEPT !.uscita = @ + 1]
  /\ UNCHANGED <<repo, piano, esiti, verdetto, fuori, scritte>>

\* a chunk is read while there is room
Stampa ==
  /\ corsa.pc = "corre" /\ corsa.errore = "no"
  /\ corsa' = [corsa EXCEPT !.uscita = @ + 1,
                            !.errore = IF corsa.uscita = MaxUscita
                                       THEN "output limit exceeded" ELSE "no"]
  /\ UNCHANGED <<repo, piano, esiti, verdetto, fuori, scritte>>

Scade ==
  /\ corsa.pc = "corre" /\ corsa.errore = "no"
  /\ corsa' = [corsa EXCEPT !.errore = "command timed out"]
  /\ UNCHANGED <<repo, piano, esiti, verdetto, fuori, scritte>>

\* external: the exit code of a tool on what it saw
Codici(strumento, c) ==
  IF strumento = "run" THEN {0, 1}
  ELSE IF strumento = "bandit" THEN IF c = "brutto" THEN {1} ELSE {0}
  ELSE IF strumento \in {"pytest", "ruff"} THEN IF c = "buono" THEN {0} ELSE {1, 2}
  ELSE IF c \in {"buono", "vuoto"} THEN {0} ELSE {1}

Esce ==
  /\ corsa.pc = "corre" /\ corsa.codice = 9 /\ corsa.errore = "no"
  /\ \E codice \in Codici(corsa.strumento, repo[1]) :
       corsa' = [corsa EXCEPT !.codice = codice, !.visto = repo[1]]
  /\ UNCHANGED <<repo, piano, esiti, verdetto, fuori, scritte>>

FiglioEsce ==
  /\ corsa.pc = "corre" /\ corsa.figli /\ corsa' = [corsa EXCEPT !.figli = FALSE]
  /\ UNCHANGED <<repo, piano, esiti, verdetto, fuori, scritte>>

\* the pipes are closed and the command has ended, or a limit was met: the group is killed
Finisce ==
  /\ corsa.pc = "corre" /\ (corsa.errore # "no" \/ (corsa.codice # 9 /\ ~corsa.figli))
  /\ corsa' = [corsa EXCEPT !.pc = "finita", !.figli = FALSE]
  /\ UNCHANGED <<repo, piano, esiti, verdetto, fuori, scritte>>

\* a child in a session of its own is not of the group
FuoriScrive ==
  /\ fuori /\ scritte < MaxScritture /\ scritte' = scritte + 1
  /\ \E f \in File, c \in {"buono", "brutto"} : repo' = [repo EXCEPT ![f] = c]
  /\ UNCHANGED <<piano, corsa, esiti, verdetto, fuori>>

-----------------------------------------------------------------------------
(* The checks: _check, _verify. *)

Giusta == corsa.errore = "no" /\ corsa.codice = 0

\* Mutant of Letta: the errors of the scan are not looked at.
LettaSenzaErrori(c) == c # "vuoto"

\* the report of a scanner: Bandit says which files it could not read, and of none at all
Letta(c) == c \notin {"rotto", "vuoto"}

Esito(completa, passa) == [completed |-> completa, passed |-> passa, visto |-> corsa.visto]

Giudizio ==
  LET completa == corsa.errore = "no"
      scandita == corsa.codice \in {0, 1} /\ (corsa.strumento = "bandit" => Letta(corsa.visto))
  IN
  IF corsa.strumento = "unittest" THEN Esito(completa, Giusta /\ corsa.visto # "vuoto")
  ELSE IF corsa.strumento \in {"bandit", "ruff"} /\ completa
  THEN Esito(scandita, scandita /\ corsa.codice = 0)
  ELSE Esito(completa, Giusta)

\* verify: a plan, one check after the other
Chiede ==
  /\ corsa.pc = "ferma" /\ piano = <<>> /\ esiti = <<>>
  /\ \E n \in 1..MaxControlli : piano' \in [1..n -> Strumento]
  /\ verdetto' = Nessuno /\ UNCHANGED <<repo, corsa, esiti, fuori, scritte>>

\* a scanner wants a file to read
Controlla ==
  /\ corsa.pc = "ferma" /\ piano # <<>> /\ piano' = Tail(piano)
  /\ ~(Head(piano) \in {"bandit", "ruff"} /\ repo[1] = "vuoto") /\ Parte(Head(piano))
  /\ UNCHANGED <<repo, esiti, verdetto, fuori, scritte>>

\* a check whose tool is not there, or that cannot start, is one that is not completed
NonParte ==
  /\ corsa.pc = "ferma" /\ piano # <<>> /\ piano' = Tail(piano)
  /\ esiti' = Append(esiti, [completed |-> FALSE, passed |-> FALSE, visto |-> "-"])
  /\ UNCHANGED <<repo, corsa, verdetto, fuori, scritte>>

Raccoglie ==
  /\ corsa.pc = "finita" /\ corsa' = Ferma
  /\ esiti' = IF corsa.strumento = "run" THEN esiti ELSE Append(esiti, Giudizio)
  /\ UNCHANGED <<repo, piano, verdetto, fuori, scritte>>

\* Mutant of Conclude: one check that passed is enough.
ConcludeConUno ==
  /\ corsa.pc = "ferma" /\ piano = <<>> /\ esiti # <<>> /\ esiti' = <<>>
  /\ verdetto' = [complete |-> TRUE, passed |-> \E i \in DOMAIN esiti : esiti[i].passed,
                  visti |-> {esiti[i].visto : i \in DOMAIN esiti}]
  /\ UNCHANGED <<repo, piano, corsa, fuori, scritte>>

Conclude ==
  LET tutti == \A i \in DOMAIN esiti : esiti[i].completed IN
  /\ corsa.pc = "ferma" /\ piano = <<>> /\ esiti # <<>> /\ esiti' = <<>>
  /\ verdetto' = [complete |-> tutti, passed |-> tutti /\ \A i \in DOMAIN esiti : esiti[i].passed,
                  visti |-> {esiti[i].visto : i \in DOMAIN esiti}]
  /\ UNCHANGED <<repo, piano, corsa, fuori, scritte>>

Next ==
  \/ Scrive \/ Comanda \/ Lavora \/ Genera \/ Stampa \/ Scade \/ Esce \/ FiglioEsce \/ Finisce
  \/ FuoriScrive \/ Chiede \/ Controlla \/ NonParte \/ Raccoglie \/ Conclude

Spec == Init /\ [][Next]_vars

-----------------------------------------------------------------------------
(* _diff: the files in order, until the text reaches the limit; a file that  *)
(* is not text is one line and is not counted at once.  _list: the same.     *)

Cambiati(n) == {f \in 1..n : repo[f] # Base[f]}
Testo(n) == Cardinality(UNION {{f} \X (1..Peso[f]) : f \in Cambiati(n)})   \* its bytes

\* Mutant of Fin: the file that reaches the limit is left out.
FinPrima ==
  LET oltre == {f \in Cambiati(Len(Peso)) : repo[f] # "rotto" /\ Testo(f) >= MaxDiff} IN
  IF oltre = {} THEN Len(Peso) ELSE Min(oltre) - 1

Fin ==
  LET oltre == {f \in Cambiati(Len(Peso)) : repo[f] # "rotto" /\ Testo(f) >= MaxDiff} IN
  IF oltre = {} THEN Len(Peso) ELSE Min(oltre)

Diff == [changed_files |-> Cambiati(Fin), truncated |-> Testo(Fin) > MaxDiff]

Presenti == {f \in File : repo[f] # "vuoto"}
Elenco ==
  [files |-> {f \in Presenti : Cardinality({g \in Presenti : g < f}) < MaxLista},
   truncated |-> Cardinality(Presenti) >= MaxLista]

-----------------------------------------------------------------------------
TypeOK ==
  /\ repo \in [File -> Contenuto] /\ corsa.pc \in {"ferma", "corre", "finita"}
  /\ corsa.uscita \in 0..MaxUscita + 1 /\ Len(piano) <= MaxControlli /\ Len(esiti) <= MaxControlli

\* A plan passes only when each of its checks ran to its end and saw files with nothing to
\* find, nothing missing and nothing unreadable (_check, _verify).
PassaSoloBuono == verdetto.passed => verdetto.complete /\ verdetto.visti = {"buono"}

\* A command that went well printed no more than the limit and has no child left in its
\* group, whatever the order of its end, its output and its time (_capture).
CorsaIntera ==
  corsa.pc = "finita" =>
    /\ ~corsa.figli
    /\ Giusta => corsa.visto # "-" /\ corsa.uscita <= MaxUscita

\* A diff or a listing that does not say it is cut holds every file, unless the text of the
\* diff is exactly of the limit (_diff, _list).
InteraSeNonTagliata ==
  /\ ~Diff.truncated /\ Testo(Fin) # MaxDiff => Diff.changed_files = Cambiati(Len(Peso))
  /\ ~Elenco.truncated => Elenco.files = Presenti

\* sandbox/runner.py:461-463: at exactly MAX_DIFF_BYTES the files after are left out, and
\* "truncated" is false.
TaglioDetto == ~Diff.truncated => Diff.changed_files = Cambiati(Len(Peso))

\* sandbox/runner.py:220 "Also clean up background descendants": one in a session of its own
\* writes on after the command ended, and under the checks that follow.
NienteDopo == ~(fuori /\ corsa.pc = "ferma")
=============================================================================
