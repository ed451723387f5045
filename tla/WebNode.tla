------------------------------ MODULE WebNode ------------------------------
(***************************************************************************)
(* The browser nodes: the registry of shared/web_node.py and its routes,   *)
(* cp/webnode.py of the control plane.  A tab registers, then draws its    *)
(* work with a long poll and publishes the results.                        *)
(*                                                                         *)
(* The tabs are external: they may close, reload under the same name, lose *)
(* an answer or answer late.  Every method of the registry runs under one  *)
(* lock, so it is a step; a long poll waits on its condition between two.  *)
(***************************************************************************)
EXTENDS Naturals, FiniteSets

CONSTANTS
  Nodo,       \* the tabs
  MaxNodi,    \* max_nodes
  MaxCoda,    \* max_queue
  MaxCompiti, \* bound: tasks ever queued
  MaxRiavvii  \* bound: restarts of the control plane

WebNodeAssumption == MaxCompiti \in Nat

VARIABLES
  nodi,       \* _nodes
  muti,       \* ... those silent for more than STALE_NODE_S
  code,       \* [Nodo -> tasks that wait]: _queues; tasks are numbered as they come, so the
              \* first of a queue is the least
  inVolo,     \* [Nodo -> task, or 0]: _inflight
  compiti,    \* _tasks
  scaduti,    \* tasks older than task_ttl_s
  attese,     \* tabs with a long poll waiting on the condition
  schede,     \* [Nodo -> tasks the tab has received and not answered]
  consegne,   \* history: [task -> times it was given to a poll]
  mesh,       \* web nodes the mesh shows as active (_nodes_by_id, and its table)
  sentiti,    \* history: tabs that have registered with this process
  conta       \* [compiti |-> _counter, riavvii |-> restarts]

vars == <<nodi, muti, code, inVolo, compiti, scaduti, attese, schede, consegne, mesh, sentiti, conta>>

Compito == 1..MaxCompiti
Nati == 1..conta.compiti

Init ==
  /\ nodi = {} /\ muti = {} /\ code = [n \in Nodo |-> {}] /\ inVolo = [n \in Nodo |-> 0]
  /\ compiti = {} /\ scaduti = {} /\ attese = {} /\ schede = [n \in Nodo |-> {}]
  /\ consegne = [t \in Compito |-> 0] /\ mesh = {} /\ sentiti = {}
  /\ conta = [compiti |-> 0, riavvii |-> 0]

Suoi(n) == code[n] \union ({inVolo[n]} \ {0})
Primo(coda) == CHOOSE t \in coda : \A u \in coda : t <= u

-----------------------------------------------------------------------------
(* _purge_locked: the silent nodes with their work, then the expired tasks. *)

\* Mutant of Resto: what was in flight keeps its entry when its tab is dropped.
RestoConVolo(mosso) ==
  compiti \ (scaduti \union (UNION {code[n] : n \in mosso}))

Resto(mosso) == compiti \ (scaduti \union (UNION {Suoi(n) : n \in mosso}))

\* Mutant of CodePulite: a task that expired in flight goes back to its queue.
CodePuliteRiaccoda(persi) ==
  [n \in Nodo |->
    IF n \in persi THEN {} ELSE (code[n] \ scaduti) \union ({inVolo[n]} \intersect scaduti)]

CodePulite(persi) ==
  [n \in Nodo |-> IF n \in persi THEN {} ELSE code[n] \ scaduti]

VoliPuliti(persi) ==
  [n \in Nodo |-> IF n \in persi \/ inVolo[n] \in scaduti THEN 0 ELSE inVolo[n]]

-----------------------------------------------------------------------------
(* Registration, heartbeats, the queue. *)

\* register, and web_register: the tab joins the mesh too, and its table
Registra(n) ==
  /\ n \in nodi \/ Cardinality(nodi) < MaxNodi
  /\ nodi' = nodi \union {n} /\ muti' = muti \ {n}
  /\ mesh' = mesh \union {n} /\ sentiti' = sentiti \union {n}
  /\ UNCHANGED <<code, inVolo, compiti, scaduti, attese, schede, consegne, conta>>

\* enqueue: capabilities and sizes are left out
Accoda(n) ==
  /\ n \in nodi /\ Cardinality(code[n]) < MaxCoda /\ conta.compiti < MaxCompiti
  /\ LET t == conta.compiti + 1 IN
     /\ conta' = [conta EXCEPT !.compiti = t]
     /\ code' = [code EXCEPT ![n] = @ \union {t}] /\ compiti' = compiti \union {t}
  /\ UNCHANGED <<nodi, muti, inVolo, scaduti, attese, schede, consegne, mesh, sentiti>>

\* a turn of poll: purge, then the next task if none is in flight.  The answer reaches
\* the tab or is lost with its connection
Giro(n, arriva) ==
  LET persi == muti
      puliti == CodePulite(persi)
      voli == VoliPuliti(persi)
  IN /\ nodi' = nodi \ persi /\ muti' = {}
     /\ IF n \in persi
        THEN /\ attese' = attese \ {n} /\ code' = puliti /\ inVolo' = voli
             /\ compiti' = Resto(persi)
             /\ UNCHANGED <<schede, consegne>>
        ELSE IF voli[n] = 0 /\ puliti[n] # {}
        THEN LET t == Primo(puliti[n]) IN
             /\ code' = [puliti EXCEPT ![n] = @ \ {t}] /\ inVolo' = [voli EXCEPT ![n] = t]
             /\ consegne' = [consegne EXCEPT ![t] = @ + 1]
             /\ schede' = (IF arriva THEN [schede EXCEPT ![n] = @ \union {t}] ELSE schede)
             /\ attese' = attese \ {n} /\ compiti' = Resto(persi)
        ELSE /\ attese' = attese \union {n} /\ code' = puliti /\ inVolo' = voli
             /\ compiti' = Resto(persi) /\ UNCHANGED <<schede, consegne>>
     /\ UNCHANGED <<scaduti, mesh, sentiti, conta>>

Chiede(n, arriva) == n \in nodi \ attese /\ Giro(n, arriva)

\* notify_all: something has changed for who waits
Sveglia(n, arriva) == n \in attese \cap nodi /\ (code[n] # {} \/ muti # {}) /\ Giro(n, arriva)

\* the node of a waiting poll was dropped by another
Scopre(n) ==
  /\ n \in attese \ nodi /\ attese' = attese \ {n}
  /\ UNCHANGED <<nodi, muti, code, inVolo, compiti, scaduti, schede, consegne, mesh, sentiti, conta>>

Desiste(n) ==
  /\ n \in attese \cap nodi /\ attese' = attese \ {n}
  /\ UNCHANGED <<nodi, muti, code, inVolo, compiti, scaduti, schede, consegne, mesh, sentiti, conta>>

\* Mutant of Completa: the slot is freed by any answer of the tab.
CompletaComunque(n, t) ==
  /\ t \in schede[n] /\ schede' = [schede EXCEPT ![n] = @ \ {t}]
  /\ inVolo' = [inVolo EXCEPT ![n] = 0] /\ muti' = muti \ {n} /\ compiti' = compiti \ {t}
  /\ UNCHANGED <<nodi, code, scaduti, attese, consegne, mesh, sentiti, conta>>

\* complete: an answer that is late, or comes after a reload, frees nothing
Completa(n, t) ==
  /\ t \in schede[n] /\ schede' = [schede EXCEPT ![n] = @ \ {t}]
  /\ inVolo' = [inVolo EXCEPT ![n] = IF @ = t THEN 0 ELSE @]
  /\ muti' = muti \ {n} /\ compiti' = compiti \ {t}
  /\ UNCHANGED <<nodi, code, scaduti, attese, consegne, mesh, sentiti, conta>>

\* cancel
Annulla(t) ==
  /\ t \in compiti /\ compiti' = compiti \ {t}
  /\ code' = [n \in Nodo |-> code[n] \ {t}]
  /\ inVolo' = [n \in Nodo |-> IF inVolo[n] = t THEN 0 ELSE inVolo[n]]
  /\ UNCHANGED <<nodi, muti, scaduti, attese, schede, consegne, mesh, sentiti, conta>>

\* status, which the dashboard asks for: the other place that purges
Stato ==
  /\ nodi' = nodi \ muti /\ muti' = {} /\ code' = CodePulite(muti)
  /\ inVolo' = VoliPuliti(muti) /\ compiti' = Resto(muti)
  /\ UNCHANGED <<scaduti, attese, schede, consegne, mesh, sentiti, conta>>

-----------------------------------------------------------------------------
(* Time, the tabs, the process. *)

Scade(t) ==
  /\ t \in Nati \ scaduti /\ scaduti' = scaduti \union {t}
  /\ UNCHANGED <<nodi, muti, code, inVolo, compiti, attese, schede, consegne, mesh, sentiti, conta>>

\* longer than the long poll, so who waits is not silent
Tace(n) ==
  /\ n \in nodi \ (muti \union attese) /\ muti' = muti \union {n}
  /\ UNCHANGED <<nodi, code, inVolo, compiti, scaduti, attese, schede, consegne, mesh, sentiti, conta>>

\* the tab is closed or loaded again: what it was doing is gone, its poll still waits
Ricarica(n) ==
  /\ schede[n] # {} /\ schede' = [schede EXCEPT ![n] = {}]
  /\ UNCHANGED <<nodi, muti, code, inVolo, compiti, scaduti, attese, consegne, mesh, sentiti, conta>>

Riavvia ==
  /\ conta.riavvii < MaxRiavvii /\ conta' = [conta EXCEPT !.riavvii = @ + 1]
  /\ nodi' = {} /\ muti' = {} /\ code' = [n \in Nodo |-> {}] /\ inVolo' = [n \in Nodo |-> 0]
  /\ compiti' = {} /\ attese' = {} /\ sentiti' = {}
  /\ UNCHANGED <<scaduti, schede, consegne, mesh>>

Next ==
  \/ \E n \in Nodo : \/ Registra(n) \/ Accoda(n) \/ Scopre(n) \/ Desiste(n) \/ Tace(n) \/ Ricarica(n)
                     \/ \E b \in BOOLEAN : Chiede(n, b) \/ Sveglia(n, b)
                     \/ \E t \in schede[n] : Completa(n, t)
  \/ Stato \/ Riavvia
  \/ \E t \in compiti : Annulla(t)
  \/ \E t \in Nati : Scade(t)

Spec == Init /\ [][Next]_vars

\* time passes, a waiting poll ends, the dashboard is looked at from time to time
FairSpec ==
  /\ Spec
  /\ WF_vars(Stato) /\ \A t \in Compito : WF_vars(Scade(t))
  /\ \A n \in Nodo : WF_vars(Scopre(n)) /\ WF_vars(Desiste(n)) /\ WF_vars(\E b \in BOOLEAN : Sveglia(n, b))

-----------------------------------------------------------------------------
(* Properties. *)

TypeOK ==
  /\ muti \subseteq nodi /\ nodi \subseteq Nodo /\ Cardinality(nodi) <= MaxNodi
  /\ \A n \in Nodo : /\ code[n] \subseteq Nati /\ Cardinality(code[n]) <= MaxCoda
                     /\ inVolo[n] \in 0..MaxCompiti /\ (n \notin nodi => Suoi(n) = {})
  /\ compiti \subseteq Nati /\ scaduti \subseteq Nati /\ attese \subseteq Nodo

\* "riaccodarlo rischierebbe una doppia esecuzione su un client che in realta' sta solo
\* rispondendo lentamente" (_purge_locked): a task is given to one poll only, whatever
\* expires, reloads or answers late.
ServitoUnaVolta == \A t \in Compito : consegne[t] <= 1

\* _tasks, by which a task is cancelled, names exactly what is queued or in flight: none
\* leaks, and none can no longer be cancelled.
Annullabili == compiti = UNION {Suoi(n) : n \in Nodo}

\* A tab that is slow keeps its only slot: no second task leaves for a tab while the
\* registry counts one in flight, and a late answer does not free a later task's slot.
SlotTenuto ==
  \A n \in Nodo : inVolo[n] # 0 /\ inVolo'[n] # inVolo[n] =>
    inVolo[n] \in scaduti \/ inVolo[n] \notin compiti'
UnoInVolo == [][SlotTenuto]_vars

\* A task leaves the registry in the end, whatever its tab does.
CompitoFinisce == \A t \in Compito : t \in compiti ~> t \notin compiti

\* "Il riavvio deve dimenticare tutto" (cp/webnode.py): what the mesh shows as an active
\* web node is a tab that has registered with this process.
RiavvioDimentica == mesh \subseteq sentiti
=============================================================================
