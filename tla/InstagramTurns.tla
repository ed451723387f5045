---------------------------- MODULE InstagramTurns ----------------------------
(***************************************************************************)
(* What is remembered of a contact on Instagram                            *)
(* (src/shared/instagram_memory.py): its turns, numbered, and a summary of *)
(* the older ones.  After each answer a worker takes the older turns, asks *)
(* a model for their summary, and puts it in their place                   *)
(* (_instagram_compact_memory of src/control-plane/cp/instagram.py);       *)
(* meanwhile other messages arrive, other answers leave, and the operator  *)
(* may clear the memory.                                                   *)
(*                                                                         *)
(* A turn is known by its place among all those ever said; a summary is    *)
(* the set of the turns it tells of.  What the model leaves out of a       *)
(* summary is not considered.                                              *)
(***************************************************************************)
EXTENDS Naturals, Sequences

CONSTANTS
  Operaio,       \* threads of _instagram_auto_reply
  Compatta,      \* INSTAGRAM_MEMORY_COMPACT_AFTER
  Recenti,       \* INSTAGRAM_MEMORY_KEEP_RECENT
  MaxTurni,      \* 120 in the code
  MaxDetti,      \* bound: turns ever said
  MaxAzzerati,   \* bound: clears
  MaxGuasti      \* bound: saves that fail

InstagramTurnsAssumption ==
  MaxTurni \in Nat \ {0} /\ Recenti \in Nat /\ Compatta \in Nat

VARIABLES
  riga,       \* the row of the contact: [turni, riassunto, sequenza]
  file,       \* the row in the file
  lavora,     \* [Operaio -> [pc, prima, presi, taglio]]
  detti,      \* history: turns said so far
  zero,       \* history: turns said before the last clear
  lasciati,   \* history: turns that fell out of the last MaxTurni
  misto,      \* history: a summary was applied over a clear or another summary
  smarrito,   \* history: a restart brought back an older file
  azzerati, guasti

vars == <<riga, file, lavora, detti, zero, lasciati, misto, smarrito, azzerati, guasti>>

Nuova == [turni |-> <<>>, riassunto |-> {}, sequenza |-> 0]
Libero == [pc |-> "fermo", prima |-> {}, presi |-> {}, taglio |-> 0, vista |-> 0]

Init ==
  /\ riga = Nuova /\ file = Nuova /\ lavora = [w \in Operaio |-> Libero]
  /\ detti = 0 /\ zero = 0 /\ lasciati = {} /\ misto = FALSE /\ smarrito = FALSE
  /\ azzerati = 0 /\ guasti = 0

Ricordati == {riga.turni[i].id : i \in DOMAIN riga.turni}

\* _save: a file that cannot be written leaves the row in memory
Salva ==
  \/ file' = riga' /\ UNCHANGED guasti
  \/ guasti < MaxGuasti /\ guasti' = guasti + 1 /\ UNCHANGED file

-----------------------------------------------------------------------------
\* Mutant of Ultimi: the new turn is dropped when the memory is full.
UltimiPrimi(s) == SubSeq(s, 1, IF Len(s) > MaxTurni THEN MaxTurni ELSE Len(s))

Ultimi(s) == SubSeq(s, IF Len(s) > MaxTurni THEN Len(s) - MaxTurni + 1 ELSE 1, Len(s))

\* append
Aggiunge ==
  LET tutti == Append(riga.turni, [seq |-> riga.sequenza + 1, id |-> detti + 1])
      resto == Ultimi(tutti) IN
  /\ detti < MaxDetti /\ detti' = detti + 1
  /\ riga' = [riga EXCEPT !.turni = resto, !.sequenza = @ + 1]
  /\ lasciati' = IF Len(tutti) > MaxTurni THEN lasciati \union {tutti[1].id} ELSE lasciati
  /\ Salva

\* a message arrives
Riceve ==
  /\ Aggiunge
  /\ UNCHANGED <<lavora, zero, misto, smarrito, azzerati>>

\* an answer has left; when it is not saved the worker stops there
Risponde(w) ==
  /\ lavora[w].pc = "fermo"
  /\ Aggiunge
  /\ lavora' = [lavora EXCEPT ![w].pc = IF guasti' = guasti THEN "valuta" ELSE "fermo"]
  /\ UNCHANGED <<zero, misto, smarrito, azzerati>>

\* compaction_material
Prende(w) ==
  LET n == Len(riga.turni)
      fino == IF n > Recenti + 1 THEN n - Recenti ELSE 1 IN
  /\ lavora[w].pc = "valuta"
  /\ lavora' = [lavora EXCEPT ![w] =
       IF n <= Compatta THEN Libero
       ELSE [pc |-> "modello", prima |-> riga.riassunto,
             presi |-> {riga.turni[i].id : i \in 1..fino}, taglio |-> riga.turni[fino].seq,
             vista |-> zero]]
  /\ UNCHANGED <<riga, file, detti, zero, lasciati, misto, smarrito, azzerati, guasti>>

\* the turns numbered after a cutoff
Dopo(turni, taglio) ==
  LET dopo[n \in 0..Len(turni)] ==
        IF n = 0 THEN <<>>
        ELSE IF turni[n].seq > taglio THEN Append(dopo[n - 1], turni[n]) ELSE dopo[n - 1]
  IN  dopo[Len(turni)]

\* Mutant of Restano: the turn after the cutoff goes too.
RestanoUno(turni, taglio) == Dopo(turni, taglio + 1)

Restano(turni, taglio) == Dopo(turni, taglio)

\* Mutant of Riassume: the previous summary is left out.
RiassumeDaCapo(w) ==
  /\ lavora[w].pc = "modello"
  /\ riga' = [riga EXCEPT !.riassunto = lavora[w].presi, !.turni = Restano(@, lavora[w].taglio)]
  /\ misto' = (misto \/ riga.riassunto # lavora[w].prima \/ lavora[w].vista # zero)
  /\ lavora' = [lavora EXCEPT ![w] = Libero]
  /\ Salva
  /\ UNCHANGED <<detti, zero, lasciati, smarrito, azzerati>>

\* the model answers: apply_summary
Riassume(w) ==
  /\ lavora[w].pc = "modello"
  /\ riga' = [riga EXCEPT !.riassunto = lavora[w].prima \union lavora[w].presi,
                          !.turni = Restano(@, lavora[w].taglio)]
  /\ misto' = (misto \/ riga.riassunto # lavora[w].prima \/ lavora[w].vista # zero)
  /\ lavora' = [lavora EXCEPT ![w] = Libero]
  /\ Salva
  /\ UNCHANGED <<detti, zero, lasciati, smarrito, azzerati>>

\* or does not, or with nothing
NonRiassume(w) ==
  /\ lavora[w].pc = "modello"
  /\ lavora' = [lavora EXCEPT ![w] = Libero]
  /\ UNCHANGED <<riga, file, detti, zero, lasciati, misto, smarrito, azzerati, guasti>>

\* Mutant of Azzera: the numbers of the turns go on.
AzzeraTurni ==
  /\ riga # Nuova /\ azzerati < MaxAzzerati /\ azzerati' = azzerati + 1
  /\ riga' = [riga EXCEPT !.turni = <<>>] /\ Salva
  /\ zero' = detti
  /\ UNCHANGED <<lavora, detti, lasciati, misto, smarrito>>

\* clear
Azzera ==
  /\ riga # Nuova /\ azzerati < MaxAzzerati /\ azzerati' = azzerati + 1
  /\ riga' = Nuova /\ Salva
  /\ zero' = detti
  /\ UNCHANGED <<lavora, detti, lasciati, misto, smarrito>>

\* a restart: load
Riavvia ==
  /\ riga' = file /\ lavora' = [w \in Operaio |-> Libero]
  /\ smarrito' = (smarrito \/ riga # file)
  /\ UNCHANGED <<file, detti, zero, lasciati, misto, azzerati, guasti>>

Next ==
  \/ Riceve \/ Azzera \/ Riavvia
  \/ \E w \in Operaio : Risponde(w) \/ Prende(w) \/ Riassume(w) \/ NonRiassume(w)

Spec == Init /\ [][Next]_vars

-----------------------------------------------------------------------------
(* A drawing asked in a direct message, and the one a contact gets when it is promoted. *)

Livelli == {"creatore", "musa", "vip", "altro"}
Richieste == {"nessuna", "vietata", "riservata", "di se", "riservata di se", "altra"}

\* Mutant of Porta: who belongs to the band needs not agree.
PortaSenzaConsenso(livello, consenso) == IF livello = "altro" THEN "chiusa" ELSE livello

\* _livello_immagine_intima
Porta(livello, consenso) ==
  IF livello = "altro" \/ (livello = "musa" /\ ~consenso) THEN "chiusa" ELSE livello

DiSe(richiesta) == richiesta \in {"di se", "riservata di se"}
Riservata(richiesta) == richiesta \in {"riservata", "riservata di se"}

\* _job_ritratto_instagram: the declared showcase may refuse the scene
Ritratto(buona) == IF buona THEN "ritratto" ELSE "rifiuto"

\* Mutant of Ponte: the level "vip" is asked nothing.
PonteAperto(porta, richiesta, buona, posto) ==
  IF porta = "chiusa" \/ richiesta = "nessuna" THEN "niente"
  ELSE IF richiesta = "vietata" THEN "rifiuto"
  ELSE IF DiSe(richiesta) THEN IF ~buona \/ posto THEN Ritratto(buona) ELSE "niente"
  ELSE IF posto THEN "disegno" ELSE "niente"

\* _queue_instagram_creator_image
Ponte(porta, richiesta, buona, posto) ==
  IF porta = "chiusa" \/ richiesta = "nessuna" THEN "niente"
  ELSE IF richiesta = "vietata" THEN "rifiuto"
  ELSE IF porta = "vip" /\ Riservata(richiesta) THEN "rifiuto"
  ELSE IF porta = "vip" THEN IF DiSe(richiesta) /\ posto THEN "ritratto" ELSE "niente"
  ELSE IF DiSe(richiesta) THEN IF ~buona \/ posto THEN Ritratto(buona) ELSE "niente"
  ELSE IF posto THEN "disegno" ELSE "niente"

\* the jobs of one message: the bridge, or else the gift of a promotion
Lavori(esito, promosso, posto) ==
  IF esito \in {"ritratto", "disegno"} THEN <<esito>>
  ELSE IF esito = "niente" /\ promosso /\ posto THEN <<"dono">>
  ELSE <<>>

-----------------------------------------------------------------------------
TypeOK ==
  /\ Len(riga.turni) <= MaxTurni /\ riga.sequenza \in 0..MaxDetti
  /\ riga.riassunto \subseteq 1..detti /\ zero <= detti
  /\ \A w \in Operaio : lavora[w].pc \in {"fermo", "valuta", "modello"}

\* What was said since the last clear is remembered, as a turn or in the summary, and once:
\* it is lost only to the ceiling of the turns, to a summary that crossed another or a
\* clear, or to a file that could not be written (compaction_material, apply_summary).
NullaDimenticato ==
  misto \/ smarrito \/
    /\ zero + 1..detti \subseteq Ricordati \union riga.riassunto \union lasciati
    /\ Ricordati \intersect riga.riassunto = {}

\* Turns keep the order they were said in, whatever is summarised, cleared or lost (append).
TurniInOrdine ==
  \A i, j \in DOMAIN riga.turni :
    i < j => riga.turni[i].seq < riga.turni[j].seq /\ riga.turni[i].id < riga.turni[j].id

\* What was cleared stays away unless a summary crossed the clear (clear).
AzzerataResta ==
  misto \/ smarrito \/ \A id \in Ricordati \union riga.riassunto : id > zero

\* A message is given at most one drawing, a refused one none, and what is reserved is
\* drawn only for those it is reserved to (_queue_instagram_creator_image): the same in every
\* state, so looked at in the first ones.
UnDisegno ==
  detti = 0 => \A livello \in Livelli, richiesta \in Richieste :
    \A consenso, buona, posto, promosso \in BOOLEAN :
      LET esito == Ponte(Porta(livello, consenso), richiesta, buona, posto)
          lavori == Lavori(esito, promosso, posto) IN
      /\ Len(lavori) <= 1 /\ (esito = "rifiuto" => lavori = <<>>)
      /\ Riservata(richiesta) /\ esito \in {"ritratto", "disegno"} =>
           livello = "creatore" \/ (livello = "musa" /\ consenso)
      /\ ~posto => lavori = <<>>

\* shared/instagram_memory.py:115 "Azzera turni e riassunto di un contatto, per ripartire da
\* zero": a summary under way brings the old ones back, and its cutoff, of numbers that
\* start again, takes new turns away.
DaZero == \A id \in Ricordati \union riga.riassunto : smarrito \/ id > zero
=============================================================================
