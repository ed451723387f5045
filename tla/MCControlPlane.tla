--------------------------- MODULE MCControlPlane ---------------------------
(***************************************************************************)
(* The dreams of the persona (PersonaDreams), the parts of the control     *)
(* plane put together in ControlPlane, and the tasks that it assigns       *)
(* (TaskAssign), which share no state with them: in a behaviour one of     *)
(* them is at work, the scene, and the others rest.  The set Scene chooses *)
(* which ones a run explores.                                              *)
(***************************************************************************)
EXTENDS PersonaDreams, ControlPlane

VARIABLES
  corrente, oggetto, riga, rotta, fatto, sospeso   \* TaskAssign

-----------------------------------------------------------------------------
(* Values of the constants of PersonaDreams and ControlPlane. *)

PropostaUnica == {<<"a">>}
Misura == [lat |-> 2, carico |-> 3, degradato |-> FALSE, su |-> TRUE]
Misure == {Misura}
Sedi == [n1 |-> {"s", "p"}, n2 |-> {"s"}]
UnaScheda == [n \in {"n1"} |-> "p"]
OttoGiga == [n \in Candidato |-> 8]
\* the thresholds as shipped, and two others of the Setup
Soglia3(m, b) == [muto |-> m, bando |-> b, raffica |-> 1, finestra |-> 0]
TreSoglie == {Soglia3(2, 3), Soglia3(1, 1), Soglia3(3, 3)}
\* sources that _forge_validate accepts
Accettate == [tool |-> {"s"}, skill |-> {"s", "t"}, patch |-> {}]

\* environments of ToolServer, by their voices, lists, single token and switches
Voce(n, t) == [nome |-> n, token |-> t]
Ambiente(v, e, s, a, l) ==
  [voci |-> v, elenco |-> e, singolo |-> s, acceso |-> a, locale |-> l,
   soglie |-> [conferma |-> 3, blocco |-> 4], ospite |-> [conferma |-> 2, blocco |-> 3]]
Ambienti ==
  {Ambiente(v, [h |-> {"nota"}, o |-> {"comando"}], s, TRUE, FALSE) :
     v \in {<<Voce("h", "a"), Voce("o", "b")>>, <<Voce("h", "corto"), Voce("h", "a")>>,
            <<Voce("h", "a"), Voce("h", "b"), Voce("mcp", "a")>>},
     s \in {"-", "b"}}
  \union {Ambiente(<<>>, [mcp |-> {"cerca"}], s, a, TRUE) : s \in {"-", "a"}, a \in BOOLEAN}

-----------------------------------------------------------------------------
Tas == INSTANCE TaskAssign WITH
  Task <- {"t1"}, Nodi <- 3, Rotta <- {"r1", "r2"}, MaxCandidati <- 2, MaxCreazioni <- 2

-----------------------------------------------------------------------------
task_vars == <<corrente, oggetto, riga, rotta, fatto, sospeso>>

InitScena ==
  /\ InitParti
  /\ IF scena = "task" THEN Tas!Init
     ELSE corrente = 0 /\ oggetto = 0 /\ riga = 0 /\ rotta = 0 /\ fatto = 0
          /\ sospeso = 0
  /\ Init

NextScena ==
  /\ NextParti
  /\ IF scena = "task" THEN Tas!Next ELSE UNCHANGED task_vars
  /\ IF scena = "persona" THEN Next ELSE UNCHANGED vars

scena_vars == <<parti_vars, task_vars, vars>>

\* a behaviour of the parts of ControlPlane, SpecParti, and of the others
SpecScena == InitScena /\ [][NextScena]_scena_vars

-----------------------------------------------------------------------------
\* The state of the component at work is well typed.
TipiCorretti ==
  /\ TypeOK
  /\ scena = "registro" => Reg!TypeOK
  /\ scena = "task" => Tas!TypeOK
  /\ scena = "punteggi" => Fle!TypeOK
  /\ scena = "alias" => Ali!TypeOK
  /\ scena = "browser" => Bro!TypeOK
  /\ scena = "chat" => Cha!TypeOK
  /\ scena = "guardia" => Gua!TypeOK
  /\ scena = "fatti" => Fat!TypeOK
  /\ scena \in {"dm", "poll"} => Dm!TypeOK
  /\ scena = "turni" => Tur!TypeOK
  /\ scena = "tool" => Too!TypeOK
  /\ scena = "forge" => Forge(Artefatti, {})!TypeOK
  /\ scena = "ecc" => Forge({}, Bundle)!TypeOK
=============================================================================
