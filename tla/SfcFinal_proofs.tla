-------------------------- MODULE SfcFinal_proofs ---------------------------
(***************************************************************************)
(* What the tables of the switches end up with once everything that is on  *)
(* its way has arrived, while no connection is lost: where the entries of  *)
(* a flow are, that they stay, that they go and that chains are complete.  *)
(***************************************************************************)
EXTENDS SfcRegistry_proofs

(***************************************************************************)
(* What a table ends up with.                                              *)
(***************************************************************************)

\* The two parts of what a table ends up with.
LEMMA AfterParts ==
    ASSUME NEW tbl, NEW q, NEW e
    PROVE  e \in After(tbl, q) <=>
              \/ e \in tbl /\ Survives(q, 0, e)
              \/ \E i \in DOMAIN q : /\ q[i].cmd = "add" /\ q[i].entry = e
                                     /\ Survives(q, i, e)
BY DEF After

\* Nothing is on its way.
LEMMA AfterNone == \A tbl : After(tbl, <<>>) = tbl
BY DEF After, Survives

\* One more FlowMod is on its way: an entry that is added is last to arrive, and
\* a deletion takes what it covers.
LEMMA AfterSent ==
    ASSUME NEW tbl, NEW q \in Seq(FlowMod), NEW mod \in FlowMod
    PROVE  \A e :
              e \in After(tbl, Append(q, mod)) <=>
                 \/ /\ e \in After(tbl, q)
                    /\ mod.cmd = "delete" => ~ Covers(mod.entry, e)
                 \/ mod.cmd = "add" /\ e = mod.entry
<1> DEFINE t == Append(q, mod)
<1>1. /\ DOMAIN q = 1..Len(q) /\ Len(q) \in Nat
      /\ DOMAIN t = 1..(Len(q) + 1) /\ Len(t) = Len(q) + 1
      /\ \A i \in DOMAIN q : t[i] = q[i]
      /\ t[Len(q) + 1] = mod
  OBVIOUS
<1> HIDE DEF t
<1>2. \A i \in 0..Len(q) : \A e :
         Survives(t, i, e) <=>
            Survives(q, i, e) /\ (mod.cmd = "delete" => ~ Covers(mod.entry, e))
  <2> SUFFICES ASSUME NEW i \in 0..Len(q), NEW e
               PROVE  Survives(t, i, e) <=>
                         /\ Survives(q, i, e)
                         /\ mod.cmd = "delete" => ~ Covers(mod.entry, e)
    OBVIOUS
  <2>1. (i + 1)..(Len(q) + 1) = ((i + 1)..Len(q)) \cup {Len(q) + 1}
    BY <1>1
  <2>2. \A j \in (i + 1)..Len(q) : t[j] = q[j]
    BY <1>1
  <2> QED
    BY <1>1, <2>1, <2>2 DEF Survives
<1>3. \A e : Survives(t, Len(q) + 1, e)
  BY <1>1 DEF Survives
<1>4. mod.cmd = "add" \/ mod.cmd = "delete"
  BY DEF FlowMod
<1> SUFFICES ASSUME NEW e
             PROVE  e \in After(tbl, t) <=>
                       \/ /\ e \in After(tbl, q)
                          /\ mod.cmd = "delete" => ~ Covers(mod.entry, e)
                       \/ mod.cmd = "add" /\ e = mod.entry
  BY DEF t
<1>5. (\E i \in DOMAIN t : t[i].cmd = "add" /\ t[i].entry = e /\ Survives(t, i, e)) <=>
         \/ \E i \in DOMAIN q :
               /\ q[i].cmd = "add" /\ q[i].entry = e /\ Survives(q, i, e)
               /\ mod.cmd = "delete" => ~ Covers(mod.entry, e)
         \/ mod.cmd = "add" /\ e = mod.entry
  <2>1. DOMAIN t = DOMAIN q \cup {Len(q) + 1} /\ DOMAIN q \subseteq 0..Len(q)
    BY <1>1
  <2> QED
    BY <1>1, <1>2, <1>3, <2>1
<1>6. Survives(t, 0, e) <=>
         Survives(q, 0, e) /\ (mod.cmd = "delete" => ~ Covers(mod.entry, e))
  BY <1>1, <1>2
<1> QED
  BY <1>5, <1>6, AfterParts

\* The first FlowMod arrives: nothing is gained.  What is lost was replaced by
\* the entry that arrived, or is that entry, refused.
LEMMA AfterApplied ==
    ASSUME NEW tbl, NEW q \in Seq(FlowMod), q # <<>>, NEW mod \in FlowMod,
           mod = q[1]
    PROVE  /\ After(Apply(tbl, mod), Tail(q)) \subseteq After(tbl, q)
           /\ \A e \in After(tbl, q) :
                 \/ e \in After(Apply(tbl, mod), Tail(q))
                 \/ /\ mod.cmd = "add" /\ e = mod.entry
                    /\ ~ PrereqOK(mod.entry.match)
                 \/ /\ mod.cmd = "add" /\ e.table = mod.entry.table
                    /\ e.priority = mod.entry.priority /\ e.match = mod.entry.match
                    /\ PrereqOK(mod.entry.match)
                    /\ mod.entry \in After(Apply(tbl, mod), Tail(q))
<1> DEFINE t == Tail(q)
<1>1. /\ DOMAIN q = 1..Len(q) /\ Len(q) \in Nat \ {0}
      /\ DOMAIN t = 1..(Len(q) - 1) /\ Len(t) = Len(q) - 1
      /\ \A i \in DOMAIN t : t[i] = q[i + 1]
  OBVIOUS
<1> HIDE DEF t
<1>2. \A i \in 0..Len(t) : \A e : Survives(t, i, e) <=> Survives(q, i + 1, e)
  <2> SUFFICES ASSUME NEW i \in 0..Len(t), NEW e
               PROVE  Survives(t, i, e) <=> Survives(q, i + 1, e)
    OBVIOUS
  <2>1. \A j \in (i + 1)..Len(t) : j + 1 \in (i + 1 + 1)..Len(q) /\ t[j] = q[j + 1]
    BY <1>1
  <2>2. \A j \in (i + 1 + 1)..Len(q) : j - 1 \in (i + 1)..Len(t) /\ t[j - 1] = q[j]
    BY <1>1
  <2> QED
    BY <2>1, <2>2 DEF Survives
<1>3. \A e : Survives(q, 0, e) <=>
                Survives(q, 1, e) /\ (mod.cmd = "delete" => ~ Covers(mod.entry, e))
  <2>1. 1..Len(q) = {1} \cup (2..Len(q))
    BY <1>1
  <2> QED
    BY <2>1 DEF Survives
<1>4. mod.cmd = "add" \/ mod.cmd = "delete"
  BY DEF FlowMod
<1>5. \A e : (\E i \in DOMAIN q : q[i].cmd = "add" /\ q[i].entry = e /\ Survives(q, i, e)) <=>
         \/ \E i \in DOMAIN t : t[i].cmd = "add" /\ t[i].entry = e /\ Survives(t, i, e)
         \/ mod.cmd = "add" /\ e = mod.entry /\ Survives(t, 0, e)
  <2>1. \A i \in DOMAIN t : i + 1 \in DOMAIN q /\ i \in 0..Len(t)
    BY <1>1
  <2>2. \A i \in DOMAIN q : i # 1 => i - 1 \in DOMAIN t /\ t[i - 1] = q[i] /\ i - 1 + 1 = i
    BY <1>1
  <2>3. 0 \in 0..Len(t) /\ 0 + 1 = 1 /\ 1 \in DOMAIN q
    BY <1>1
  <2> SUFFICES ASSUME NEW e
               PROVE (\E i \in DOMAIN q : q[i].cmd = "add" /\ q[i].entry = e /\ Survives(q, i, e)) <=>
         \/ \E i \in DOMAIN t : t[i].cmd = "add" /\ t[i].entry = e /\ Survives(t, i, e)
         \/ mod.cmd = "add" /\ e = mod.entry /\ Survives(t, 0, e)
    OBVIOUS
  <2>4. Survives(t, 0, e) <=> Survives(q, 1, e)
    BY <1>2, <2>3
  <2>5. \A i \in DOMAIN t : Survives(t, i, e) <=> Survives(q, i + 1, e)
    BY <1>2, <2>1
  <2>6. ASSUME NEW i \in DOMAIN q, q[i].cmd = "add", q[i].entry = e, Survives(q, i, e)
        PROVE  \/ \E k \in DOMAIN t : t[k].cmd = "add" /\ t[k].entry = e /\ Survives(t, k, e)
               \/ mod.cmd = "add" /\ e = mod.entry /\ Survives(t, 0, e)
    <3>1. CASE i = 1
      BY <2>4, <2>6, <3>1
    <3>2. CASE i # 1
      <4>1. i - 1 \in DOMAIN t /\ t[i - 1] = q[i] /\ Survives(t, i - 1, e)
        BY <2>2, <2>5, <2>6, <3>2
      <4> QED
        BY <2>6, <4>1
    <3> QED
      BY <3>1, <3>2
  <2>7. ASSUME NEW i \in DOMAIN t, t[i].cmd = "add", t[i].entry = e, Survives(t, i, e)
        PROVE  \E k \in DOMAIN q : q[k].cmd = "add" /\ q[k].entry = e /\ Survives(q, k, e)
    BY <1>1, <2>1, <2>5, <2>7
  <2>8. ASSUME mod.cmd = "add", e = mod.entry, Survives(t, 0, e)
        PROVE  \E k \in DOMAIN q : q[k].cmd = "add" /\ q[k].entry = e /\ Survives(q, k, e)
    BY <2>3, <2>4, <2>8
  <2> QED
    BY <2>6, <2>7, <2>8
<1>6. \A e : Survives(q, 0, e) <=>
                Survives(t, 0, e) /\ (mod.cmd = "delete" => ~ Covers(mod.entry, e))
  <2>1. 0 \in 0..Len(t) /\ 0 + 1 = 1
    BY <1>1
  <2> QED
    BY <1>2, <1>3, <2>1
<1>7. /\ mod.cmd = "delete" =>
            \A e : e \in Apply(tbl, mod) <=> e \in tbl /\ ~ Covers(mod.entry, e)
      /\ mod.cmd = "add" /\ ~ PrereqOK(mod.entry.match) => Apply(tbl, mod) = tbl
      /\ mod.cmd = "add" /\ PrereqOK(mod.entry.match) =>
            \A e : e \in Apply(tbl, mod) <=>
                      \/ e = mod.entry
                      \/ e \in tbl /\ ~ (/\ e.table = mod.entry.table
                                         /\ e.priority = mod.entry.priority
                                         /\ e.match = mod.entry.match)
  BY DEF Apply, Removed, Installed, Covers
<1>8. \A e : e.table = mod.entry.table /\ e.match = mod.entry.match
                => (Survives(t, 0, e) => Survives(t, 0, mod.entry))
  BY DEF Survives, Covers
<1>9. After(Apply(tbl, mod), t) \subseteq After(tbl, q)
  <2> SUFFICES ASSUME NEW e \in After(Apply(tbl, mod), t) PROVE e \in After(tbl, q)
    OBVIOUS
  <2>1. CASE e \in Apply(tbl, mod) /\ Survives(t, 0, e)
    <3>1. \/ e \in tbl /\ (mod.cmd = "delete" => ~ Covers(mod.entry, e))
          \/ mod.cmd = "add" /\ e = mod.entry
      BY <1>4, <1>7, <2>1
    <3> QED
      BY <1>5, <1>6, <2>1, <3>1, AfterParts
  <2>2. CASE \E i \in DOMAIN t : t[i].cmd = "add" /\ t[i].entry = e /\ Survives(t, i, e)
    BY <1>5, <2>2, AfterParts
  <2> QED
    BY <2>1, <2>2, AfterParts
<1>10. ASSUME NEW e \in After(tbl, q), e \notin After(Apply(tbl, mod), t)
       PROVE  \/ /\ mod.cmd = "add" /\ e = mod.entry
                 /\ ~ PrereqOK(mod.entry.match)
              \/ /\ mod.cmd = "add" /\ e.table = mod.entry.table
                 /\ e.priority = mod.entry.priority /\ e.match = mod.entry.match
                 /\ PrereqOK(mod.entry.match)
                 /\ mod.entry \in After(Apply(tbl, mod), t)
  <2>1. \/ e \in tbl /\ Survives(t, 0, e) /\ (mod.cmd = "delete" => ~ Covers(mod.entry, e))
        \/ mod.cmd = "add" /\ e = mod.entry /\ Survives(t, 0, e)
    BY <1>5, <1>6, <1>10, AfterParts
  <2>2. e \notin Apply(tbl, mod)
    BY <1>10, <2>1, AfterParts
  <2>3. mod.cmd = "add"
    BY <1>4, <1>7, <2>1, <2>2
  <2>4. CASE ~ PrereqOK(mod.entry.match)
    BY <1>7, <2>1, <2>2, <2>3, <2>4
  <2>5. CASE PrereqOK(mod.entry.match)
    <3>1. mod.entry \in Apply(tbl, mod) /\ e # mod.entry
      BY <1>7, <2>2, <2>3, <2>5
    <3>2. /\ e.table = mod.entry.table /\ e.priority = mod.entry.priority
          /\ e.match = mod.entry.match
      BY <1>7, <2>1, <2>2, <2>3, <2>5, <3>1
    <3>3. Survives(t, 0, mod.entry)
      BY <1>8, <2>1, <3>1, <3>2
    <3> QED
      BY <2>3, <2>5, <3>1, <3>2, <3>3, AfterParts
  <2> QED
    BY <2>4, <2>5
<1> QED
  BY <1>9, <1>10 DEF t

(***************************************************************************)
(* What the steps do to the tables that switches end up with.              *)
(***************************************************************************)

\* With one connection up, Final is what its queue makes of the table, and with
\* none the table.
LEMMA FinalIs ==
    ASSUME NEW c \in Conn
    PROVE  /\ LiveConn(Dpid(c)) = {c} =>
                 Final(Dpid(c)) = After(table[Dpid(c)], chan[c])
           /\ LiveConn(Dpid(c))' = {c} =>
                 Final(Dpid(c))' = After(table'[Dpid(c)], chan'[c])
           /\ LiveConn(Dpid(c)) = {} => Final(Dpid(c)) = table[Dpid(c)]
<1>1. LiveConn(Dpid(c)) = {c} =>
         Final(Dpid(c)) = After(table[Dpid(c)], chan[c])
  BY DEF Final, Coming, Outlives, After, Survives
<1>2. LiveConn(Dpid(c))' = {c} =>
         Final(Dpid(c))' = After(table'[Dpid(c)], chan'[c])
  <2>1. Dpid(c)' = Dpid(c)
    BY DEF Dpid
  <2> QED
    BY <2>1 DEF Final, Coming, Outlives, After, Survives
<1>3. LiveConn(Dpid(c)) = {} => Final(Dpid(c)) = table[Dpid(c)]
  BY DEF Final
<1> QED
  BY <1>1, <1>2, <1>3

\* The connections of a switch that are up.
LEMMA LiveIs ==
    ASSUME OneAtATime, NEW c \in Conn, link[c] \in {"config", "main"}
    PROVE  /\ LiveConn(Dpid(c)) = {c}
           /\ UNCHANGED link => LiveConn(Dpid(c))' = {c}
BY OneUp DEF LiveConn, Dpid

\* What will be in a table is there or on its way, and so an entry of a row.
LEMMA FinalParts ==
    ASSUME NEW s, NEW e \in Final(s)
    PROVE  \/ e \in table[s]
           \/ \E c \in Conn : \E i \in DOMAIN chan[c] :
                 chan[c][i].cmd = "add" /\ chan[c][i].entry = e
BY DEF Final, Coming, LiveConn

\* It is one of its own entries.
LEMMA FinalOwn ==
    ASSUME EntriesFromRows, NEW s \in Switch, NEW e \in Final(s)
    PROVE  OwnEntry(e)
BY FinalParts DEF EntriesFromRows, TablesOwn, SentOwn, OwnMod

\* Where nothing happens nothing changes.
LEMMA FinalElsewhere ==
    ASSUME NEW s, LiveConn(s)' = LiveConn(s), table'[s] = table[s],
           \A d \in LiveConn(s) : chan'[d] = chan[d]
    PROVE  Final(s)' = Final(s)
<1>1. \A d \in LiveConn(s) : \A i, e : Outlives(d, i, e)' <=> Outlives(d, i, e)
  BY DEF Outlives
<1>2. \A d \in LiveConn(s) : Coming(d)' = Coming(d)
  BY <1>1 DEF Coming
<1>3. UNION {Coming(d)' : d \in LiveConn(s)} = UNION {Coming(d) : d \in LiveConn(s)}
  BY <1>2
<1>4. {e \in table[s] : \A d \in LiveConn(s) : Outlives(d, 0, e)'}
         = {e \in table[s] : \A d \in LiveConn(s) : Outlives(d, 0, e)}
  BY <1>1
<1> QED
  BY <1>3, <1>4 DEF Final

\* Without a change of links, queues and tables there is none at all.
LEMMA FinalSame ==
    ASSUME UNCHANGED <<link, table, chan>>
    PROVE  \A s \in Switch : Final(s)' = Final(s)
<1>1. \A s \in Switch : LiveConn(s)' = LiveConn(s)
  BY DEF LiveConn
<1> QED
  BY <1>1, FinalElsewhere

\* Sending.
LEMMA FinalSent ==
    ASSUME TypeOK, OneAtATime, NEW c \in Conn, link[c] \in {"config", "main"},
           NEW mod \in FlowMod, Send(c, mod), UNCHANGED <<link, table>>,
           NEW s \in Switch, NEW e
    PROVE  e \in Final(s)' <=>
              \/ /\ e \in Final(s)
                 /\ s = Dpid(c) /\ mod.cmd = "delete" => ~ Covers(mod.entry, e)
              \/ s = Dpid(c) /\ mod.cmd = "add" /\ e = mod.entry
<1>1. CASE s # Dpid(c)
  <2>1. LiveConn(s)' = LiveConn(s) /\ \A d \in LiveConn(s) : d # c /\ d \in Conn
    BY <1>1 DEF LiveConn
  <2> QED
    BY <1>1, <2>1, SentOn, FinalElsewhere
<1>2. CASE s = Dpid(c)
  <2>1. LiveConn(s) = {c} /\ LiveConn(s)' = {c}
    BY <1>2, LiveIs
  <2>2. ~ Ended(c)
    BY DEF Ended
  <2>3. chan[c] \in Seq(FlowMod) /\ chan'[c] = Append(chan[c], mod)
    BY <2>2, SentOn DEF TypeOK
  <2>4. PICK q \in Seq(FlowMod) : q = chan[c]
    BY <2>3
  <2>5. PICK tbl : tbl = table[s]
    OBVIOUS
  <2>6. Final(s) = After(tbl, q)
    BY <1>2, <2>1, <2>4, <2>5, FinalIs
  <2>7. Final(s)' = After(tbl, Append(q, mod))
    <3>1. Final(Dpid(c))' = After(table'[Dpid(c)], chan'[c])
      BY <1>2, <2>1, FinalIs
    <3>2. Final(Dpid(c))' = Final(s)'
      BY <1>2 DEF Dpid
    <3> QED
      BY <1>2, <2>3, <2>4, <2>5, <3>1, <3>2
  <2> QED
    BY <1>2, <2>6, <2>7, AfterSent
<1> QED
  BY <1>1, <1>2

\* A switch processing what it was sent: nothing is gained, and what is lost was
\* replaced by the entry that arrived, or is that entry, refused.
LEMMA FinalApplied ==
    ASSUME TypeOK, OneAtATime, NEW c \in Conn, ApplyMod(c), NEW s \in Switch
    PROVE  /\ Final(s)' \subseteq Final(s)
           /\ s # Dpid(c) => Final(s)' = Final(s)
           /\ s = Dpid(c) =>
                 /\ 1 \in DOMAIN chan[c] /\ chan[c][1] \in FlowMod
                 /\ \A e \in Final(s) : \A m :
                       m = chan[c][1].entry =>
                       \/ e \in Final(s)'
                       \/ /\ chan[c][1].cmd = "add" /\ e = m /\ ~ PrereqOK(m.match)
                       \/ /\ chan[c][1].cmd = "add" /\ e.table = m.table
                          /\ e.priority = m.priority /\ e.match = m.match
                          /\ PrereqOK(m.match) /\ m \in Final(s)'
<1>1. link[c] \in {"config", "main"} /\ UNCHANGED link
  BY DEF ApplyMod
<1>2. CASE s # Dpid(c)
  <2>1. LiveConn(s)' = LiveConn(s) /\ \A d \in LiveConn(s) : d # c /\ d \in Conn
    BY <1>1, <1>2 DEF LiveConn
  <2>2. table'[s] = table[s]
    BY <1>2, AppliedOn
  <2>3. \A d \in Conn : d # c => chan'[d] = chan[d]
    BY TakenOn
  <2> QED
    BY <1>2, <2>1, <2>2, <2>3, FinalElsewhere
<1>3. CASE s = Dpid(c)
  <2>1. LiveConn(s) = {c} /\ LiveConn(s)' = {c}
    BY <1>1, <1>3, LiveIs
  <2>2. chan[c] \in Seq(FlowMod) /\ chan[c] # <<>> /\ chan'[c] = Tail(chan[c])
    BY DEF TypeOK, ApplyMod
  <2>3. PICK q \in Seq(FlowMod) : q = chan[c] /\ q # <<>>
    BY <2>2
  <2>4. PICK mod \in FlowMod, tbl \in SUBSET Entry :
           /\ mod = chan[c][1] /\ tbl = table[Dpid(c)]
           /\ table'[Dpid(c)] = Apply(tbl, mod)
           /\ mod.cmd = "add" \/ mod.cmd = "delete"
           /\ \A e \in Apply(tbl, mod) :
                 e \in tbl \/ (mod.cmd = "add" /\ e = mod.entry)
           /\ \A t \in Switch : t # Dpid(c) => table'[t] = table[t]
    BY AppliedOn
  <2>5. Final(s) = After(tbl, q)
    BY <1>3, <2>1, <2>3, <2>4, FinalIs
  <2>6. Final(s)' = After(Apply(tbl, mod), Tail(q))
    <3>1. Final(Dpid(c))' = After(table'[Dpid(c)], chan'[c])
      BY <1>3, <2>1, FinalIs
    <3>2. Final(Dpid(c))' = Final(s)'
      BY <1>3 DEF Dpid
    <3> QED
      BY <2>2, <2>3, <2>4, <3>1, <3>2
  <2>7. 1 \in DOMAIN chan[c]
    BY TakenOn
  <2> QED
    BY <1>3, <2>3, <2>4, <2>5, <2>6, <2>7, AfterApplied
<1> QED
  BY <1>2, <1>3

\* A switch connecting.
LEMMA FinalConnect ==
    ASSUME TypeInv, MetInv, OneAtATime, NEW c \in Conn,
           Connect(c) \/ EnterMain(c), NEW s \in Switch
    PROVE  Final(s)' = Final(s)
<1>1. /\ link \in [Conn -> LinkState] /\ UNCHANGED <<table, chan>>
      /\ link' = [link EXCEPT ![c] = IF Connect(c) THEN "config" ELSE "main"]
  BY DEF TypeInv, TypeOK, Connect, EnterMain
<1>2. CASE EnterMain(c)
  <2>1. LiveConn(s)' = LiveConn(s)
    BY <1>1, <1>2 DEF LiveConn, EnterMain
  <2> QED
    BY <1>1, <2>1, FinalElsewhere
<1>3. CASE Connect(c) /\ s # Dpid(c)
  <2>1. LiveConn(s)' = LiveConn(s)
    BY <1>1, <1>3 DEF LiveConn
  <2> QED
    BY <1>1, <2>1, FinalElsewhere
<1>4. CASE Connect(c) /\ s = Dpid(c)
  <2>1. OneAtATime'
    BY <1>4, NextOneAtATime DEF Next, LinkStep
  <2>2. link'[c] = "config" /\ link[c] = "none" /\ chan[c] = <<>>
    BY <1>1, <1>4 DEF Connect, MetInv, Met
  <2>3. LiveConn(s) = {}
    <3> SUFFICES ASSUME NEW d \in Conn, Dpid(d) = Dpid(c),
                        link[d] \in {"config", "main"}
                 PROVE  FALSE
      BY <1>4 DEF LiveConn
    <3>1. d # c /\ link'[d] = link[d]
      BY <1>1, <2>2
    <3>2. c \notin Gone' /\ d \notin Gone' /\ Met(c)' /\ Met(d)'
      BY <2>2, <3>1 DEF Gone, Ended, Met
    <3>3. ~ (c[2] < d[2]) /\ ~ (d[2] < c[2])
      BY <2>1, <3>2 DEF OneAtATime, Dpid
    <3>4. c[2] \in Nat /\ d[2] \in Nat
      BY ConnParts
    <3>5. c[2] = d[2]
      BY <3>3, <3>4
    <3> QED
      BY <3>1, <3>5, ConnParts
  <2>4. LiveConn(s)' = {c}
    <3>1. \A d \in Conn : d # c => link'[d] = link[d]
      BY <1>1
    <3> QED
      BY <1>4, <2>2, <2>3, <3>1 DEF LiveConn, Dpid
  <2>5. Final(s) = table[s]
    BY <1>4, <2>3, FinalIs
  <2>6. Final(s)' = After(table'[s], chan'[c])
    <3>1. Final(Dpid(c))' = After(table'[Dpid(c)], chan'[c])
      BY <1>4, <2>4, FinalIs
    <3>2. Final(Dpid(c))' = Final(s)'
      BY <1>4 DEF Dpid
    <3> QED
      BY <1>4, <3>1, <3>2
  <2> QED
    BY <1>1, <2>2, <2>5, <2>6, AfterNone
<1> QED
  BY <1>2, <1>3, <1>4

\* As long as no connection is lost, the steps of connections and switches add
\* nothing to what there will be.
LEMMA FinalShrinks ==
    ASSUME TypeInv, MetInv, OneAtATime, NoneLost',
           \/ \E c \in Conn : LinkStep(c)
           \/ \E c \in Conn, t \in Traffic : DetectPacket(c, t)
           \/ \E c \in Conn, d \in Datagram : RegisterPacket(c, d)
    PROVE  /\ \A s \in Switch : Final(s)' \subseteq Final(s)
           /\ \/ \A s \in Switch : Final(s)' = Final(s)
              \/ \E c \in Conn : ApplyMod(c)
<1>1. TypeOK
  BY DEF TypeInv
<1>2. ASSUME NEW c \in Conn, LinkStep(c)
      PROVE  /\ \A s \in Switch : Final(s)' \subseteq Final(s)
             /\ \/ \A s \in Switch : Final(s)' = Final(s)
                \/ ApplyMod(c)
  <2>1. ~ (Drop(c) \/ Notice(c) \/ ReportDead(c))
    <3> SUFFICES ASSUME Drop(c) \/ Notice(c) \/ ReportDead(c) PROVE c \in Gone'
      BY DEF NoneLost
    <3>1. link'[c] \in {"stale", "closed", "dead"}
      BY <1>1 DEF Drop, Notice, ReportDead, TypeOK
    <3> QED
      BY <3>1 DEF Gone, Ended
  <2>2. CASE Connect(c) \/ EnterMain(c)
    BY <2>2, FinalConnect
  <2>3. CASE ApplyMod(c)
    BY <1>1, <2>3, FinalApplied
  <2> QED
    BY <1>2, <2>1, <2>2, <2>3 DEF LinkStep
<1>3. CASE UNCHANGED <<link, table, chan>>
  BY <1>3, FinalSame
<1>4. (\E c \in Conn, t \in Traffic : DetectPacket(c, t))
      \/ (\E c \in Conn, d \in Datagram : RegisterPacket(c, d))
         => UNCHANGED <<link, table, chan>>
  BY DEF DetectPacket, RegisterPacket, network
<1> QED
  BY <1>2, <1>3, <1>4

(***************************************************************************)
(* One source entry.                                                       *)
(***************************************************************************)

\* Of all that is sent only the source entry of its flow is one.
LEMMA WhatIsSource ==
    /\ \A f, g : ~ IsSource(CatchMod(g).entry, f)
    /\ \A f, e, g : ChainEntry(e, g) => ~ IsSource(e, f)
    /\ \A f \in Flow : \A i \in 1..6 : ~ IsSource(DefaultMods[i].entry, f)
    /\ \A f, g, port, row : IsSource(SourceMod(g, port, row).entry, f) => f = g
    /\ \A f, port, row : FlowMatch(f) \subseteq SourceMod(f, port, row).entry.match
<1>1. \A i \in 1..6 : DefaultMods[i].entry.flow = NoFlow
  BY DefaultFacts DEF DefaultEntries
<1> QED
  BY <1>1, FlowAssumption DEF IsSource, CatchMod, ChainEntry, SourceMod, AddMod

\* Nothing sent of which an entry would be a source: there are no new ones.
LEMMA NoNewSource ==
    ASSUME TypeOK, OneAtATime, NEW c \in Conn, link[c] \in {"config", "main"},
           NEW mod \in FlowMod, Send(c, mod), UNCHANGED <<link, table>>,
           NEW f, mod.cmd = "add" => ~ IsSource(mod.entry, f)
    PROVE  \A s, e : SourceAt(s, e, f)' => SourceAt(s, e, f)
BY FinalSent DEF SourceAt

\* When there are no new source entries, the invariant stays if the event loop is
\* where it says.
LEMMA SourceStays ==
    ASSUME SourceInv, ToSet(datapaths) \subseteq ToSet(datapaths'),
           \A f \in Flow : \A s, e : SourceAt(s, e, f)' => SourceAt(s, e, f),
           \A f \in Flow : task' # NoTask /\ task'.pc = "delete" /\ task'.flow = f =>
              \A s, e : SourceAt(s, e, f)' => \E c \in ToSet(task'.todo) : Dpid(c) = s,
           \A f \in Flow : task' # NoTask /\ task'.pc = "source" /\ task'.flow = f =>
              \A s, e : ~ SourceAt(s, e, f)'
    PROVE  SourceInv'
<1>1. \A s : Registered(s) # {} => Registered(s)' # {}
  BY DEF Registered, Dpid
<1> QED
  BY <1>1 DEF SourceInv, Dpid

\* The invariant is about nothing but the registry, the task and the tables.
LEMMA SameTask ==
    ASSUME SourceInv, ToSet(datapaths) \subseteq ToSet(datapaths'),
           \A s \in Switch : Final(s)' \subseteq Final(s), UNCHANGED task
    PROVE  SourceInv'
<1>1. \A f \in Flow : \A s, e : SourceAt(s, e, f)' => SourceAt(s, e, f)
  BY DEF SourceAt
<1> QED
  BY <1>1, SourceStays DEF SourceInv

\* The steps of the event loop.
LEMMA LoopSource ==
    ASSUME TypeInv, MetInv, OneAtATime, UpInv, SourceInv, NoneLost,
           ToSet(datapaths) \subseteq ToSet(datapaths'), Loop
    PROVE  SourceInv'
<1>1. TypeOK /\ datapaths \in Seq(Conn)
  BY DEF TypeInv, TypeOK
<1>2. UNCHANGED <<link, table>>
  BY DEF Loop, HandleEvent, RunTask, LoopBlocks, RegisterDatapath,
         UnregisterDatapath, RegisterVnf, HandledAtOnce, StartDefaults,
         StartDetection, Begin, SendDefault, DeleteCatching, SendSource,
         AbandonChain, SkipVnf, SendHop, SendEnd, Continue, network
<1>3. ASSUME \A f \in Flow : \A s, e : SourceAt(s, e, f)' => SourceAt(s, e, f),
             task' # NoTask => task'.pc \notin {"delete", "source"}
      PROVE  SourceInv'
  BY <1>3, SourceStays
<1>4. ASSUME UNCHANGED chan
      PROVE  \A f \in Flow : \A s, e : SourceAt(s, e, f)' => SourceAt(s, e, f)
  BY <1>2, <1>4, FinalSame DEF SourceAt
<1>5. CASE RegisterDatapath \/ UnregisterDatapath \/ RegisterVnf \/ StartDefaults
  <2>1. UNCHANGED chan /\ (task' # NoTask => task'.pc = "defaults")
    BY <1>5, SetUpStep DEF RegisterDatapath, UnregisterDatapath, RegisterVnf,
                           HandledAtOnce, NextEvent, network
  <2> QED
    BY <1>3, <1>4, <2>1
<1>6. CASE LoopBlocks
  <2>1. UNCHANGED <<chan, task, datapaths>>
    BY <1>6 DEF LoopBlocks, network
  <2> QED
    BY <1>2, <2>1, FinalSame, SameTask
<1>7. CASE StartDetection
  <2>1. /\ UNCHANGED <<chan, datapaths>>
        /\ task' # NoTask =>
              \/ task'.pc = "delete" /\ task'.todo = datapaths
              \/ task'.pc = "source" /\ datapaths = <<>>
    BY <1>7, DetectionStep
  <2>2. \A f \in Flow : \A s, e : SourceAt(s, e, f)' => SourceAt(s, e, f)
    BY <1>4, <2>1
  <2>3. \A f \in Flow : \A s, e : SourceAt(s, e, f) =>
           \E c \in ToSet(datapaths) : Dpid(c) = s
    BY DEF SourceInv, Registered
  <2>4. datapaths = <<>> => ToSet(datapaths) = {}
    BY DEF ToSet
  <2> QED
    BY <2>1, <2>2, <2>3, <2>4, SourceStays
<1>8. CASE SendDefault
  <2>1. /\ Send(task.conn, DefaultMods[task.step]) /\ task.conn \in Conn
        /\ task.step \in 1..6 /\ DefaultMods[task.step] \in FlowMod
        /\ task # NoTask
        /\ task' # NoTask => task'.pc = "defaults"
    BY <1>8, DefaultStep
  <2>2. link[task.conn] \in {"config", "main"}
    BY <1>1, <2>1, MetIsUp DEF MetInv, MetTask
  <2>3. PICK c \in Conn, mod \in FlowMod :
           /\ Send(c, mod) /\ link[c] \in {"config", "main"}
           /\ \A f \in Flow : ~ IsSource(mod.entry, f)
    BY <2>1, <2>2, WhatIsSource
  <2>4. \A f \in Flow : \A s, e : SourceAt(s, e, f)' => SourceAt(s, e, f)
    BY <1>1, <1>2, <2>3, NoNewSource
  <2> QED
    BY <1>3, <2>1, <2>4
<1>9. CASE DeleteCatching
  <2>1. /\ task # NoTask /\ task.pc = "delete" /\ task.flow \in Flow
        /\ task.todo \in Seq(Conn) /\ task.todo # <<>> /\ Head(task.todo) \in Conn
        /\ Send(Head(task.todo), DeleteFlowMod(task.flow))
        /\ task' # NoTask =>
              /\ task'.flow = task.flow
              /\ \/ task'.pc = "delete" /\ task'.todo = Tail(task.todo)
                 \/ task'.pc = "source" /\ Tail(task.todo) = <<>>
    BY <1>9, DeleteStep
  <2>2. PICK d \in Conn : d = Head(task.todo)
    BY <2>1
  <2>3. ToSet(task.todo) = {d} \cup ToSet(Tail(task.todo))
    BY <2>1, <2>2, ElementsOf
  <2>4. link[d] \in {"config", "main"}
    BY <1>1, <2>1, <2>2, <2>3, MetIsUp DEF MetInv, MetTask
  <2>5. PICK f \in Flow : f = task.flow
    BY <2>1
  <2>6. PICK mod \in FlowMod :
           /\ mod = DeleteFlowMod(f) /\ mod.cmd = "delete" /\ mod.entry.table = 0
           /\ mod.entry.match = FlowMatch(f)
    <3>1. DeleteFlowMod(f) \in FlowMod
      BY RequestModTypes
    <3> QED
      BY <3>1 DEF DeleteFlowMod, DelMod
  <2>7. \A g \in Flow : \A s, e : SourceAt(s, e, g)' => SourceAt(s, e, g)
    BY <1>1, <1>2, <2>1, <2>2, <2>4, <2>5, <2>6, NoNewSource
  <2>8. ASSUME NEW s, NEW e, SourceAt(s, e, f)'
        PROVE  \E x \in ToSet(Tail(task.todo)) : Dpid(x) = s
    <3>1. SourceAt(s, e, f) /\ s \in Switch /\ e \in Final(s)'
      BY <2>7, <2>8 DEF SourceAt
    <3>2. e.table = 0 /\ FlowMatch(f) \subseteq e.match
      BY <3>1 DEF SourceInv, SourceAt, IsSource
    <3>3. s # Dpid(d)
      BY <1>1, <1>2, <2>1, <2>2, <2>4, <2>5, <2>6, <3>1, <3>2, FinalSent DEF Covers
    <3> QED
      BY <2>1, <2>3, <2>5, <3>1, <3>3 DEF SourceInv
  <2>9. Tail(task.todo) = <<>> => ToSet(Tail(task.todo)) = {}
    BY DEF ToSet
  <2> QED
    BY <2>1, <2>5, <2>7, <2>8, <2>9, SourceStays
<1>10. CASE SendSource
  <2>1. PICK mod \in FlowMod, f \in Flow, c \in Conn :
           /\ f = task.flow /\ c = task.conn /\ Send(c, mod)
           /\ mod.cmd = "add" /\ (\A g : IsSource(mod.entry, g) => g = f)
           /\ FlowMatch(f) \subseteq mod.entry.match
    <3>1. /\ task.flow \in Flow /\ task.conn \in Conn
          /\ Send(task.conn, SourceMod(task.flow, task.port, VnfAt(task.flow, 1)))
          /\ task.port \in Port /\ VnfAt(task.flow, 1) \in VnfRow
      BY <1>10, SourceStep
    <3>2. SourceMod(task.flow, task.port, VnfAt(task.flow, 1)) \in FlowMod
      BY <3>1, SourceModType
    <3>3. SourceMod(task.flow, task.port, VnfAt(task.flow, 1)).cmd = "add"
      BY DEF SourceMod, AddMod
    <3>4. \A g : IsSource(SourceMod(task.flow, task.port, VnfAt(task.flow, 1)).entry, g)
                    => g = task.flow
      BY WhatIsSource
    <3>5. FlowMatch(task.flow) \subseteq
             SourceMod(task.flow, task.port, VnfAt(task.flow, 1)).entry.match
      BY WhatIsSource
    <3> QED
      BY <3>1, <3>2, <3>3, <3>4, <3>5
  <2>2. /\ task # NoTask /\ task.pc = "source" /\ task' # NoTask /\ task'.pc = "chain"
        /\ UNCHANGED datapaths
    BY <1>10, SourceStep
  <2>3. link[c] \in {"config", "main"} /\ c \in ToSet(datapaths)
    BY <1>1, <2>1, <2>2, MetIsUp DEF MetInv, MetTask, UpInv
  <2>4. \A g \in Flow : \A s, e : SourceAt(s, e, g)' =>
           SourceAt(s, e, g) \/ (g = f /\ s = Dpid(c) /\ e = mod.entry)
    BY <1>1, <1>2, <2>1, <2>3, FinalSent DEF SourceAt
  <2>5. \A s, e : ~ SourceAt(s, e, f)
    BY <2>1, <2>2 DEF SourceInv
  <2>6. Registered(Dpid(c)) # {} /\ \A s : Registered(s)' = Registered(s)
    BY <2>2, <2>3 DEF Registered
  <2>7. \A g \in Flow : \A s, e : SourceAt(s, e, g)' =>
           Registered(s)' # {} /\ FlowMatch(g) \subseteq e.match
    BY <2>1, <2>4, <2>6 DEF SourceInv
  <2>8. \A g \in Flow : \A s, e, t, x :
           SourceAt(s, e, g)' /\ SourceAt(t, x, g)' => s = t /\ e = x
    BY <2>4, <2>5 DEF SourceInv
  <2> QED
    BY <2>2, <2>7, <2>8 DEF SourceInv
<1>11. CASE AbandonChain \/ SkipVnf \/ SendHop \/ SendEnd
  <2>1. /\ task' # NoTask => task'.pc = "chain"
        /\ \/ chan' = chan
           \/ \E d \in ToSet(datapaths), mod \in FlowMod :
                 /\ d \in Conn /\ Send(d, mod)
                 /\ mod.cmd = "add" /\ ChainEntry(mod.entry, task.flow)
    BY <1>11, ChainStep
  <2>2. ASSUME NEW d \in ToSet(datapaths), NEW mod \in FlowMod, d \in Conn,
               Send(d, mod), ChainEntry(mod.entry, task.flow)
        PROVE  \A f \in Flow : \A s, e : SourceAt(s, e, f)' => SourceAt(s, e, f)
    <3>1. link[d] \in {"config", "main"}
      BY <1>1, <2>2, MetIsUp DEF MetInv
    <3> QED
      BY <1>1, <1>2, <2>2, <3>1, NoNewSource, WhatIsSource
  <2> QED
    BY <1>3, <1>4, <2>1, <2>2
<1> QED
  BY <1>5, <1>6, <1>7, <1>8, <1>9, <1>10, <1>11 DEF Loop, HandleEvent, RunTask

\* The steps of the requests.
LEMMA ServeSource ==
    ASSUME TypeInv, MetInv, OneAtATime, SourceInv, NoneLost,
           NEW r \in Request, Serve(r)
    PROVE  SourceInv'
<1>1. TypeOK /\ UNCHANGED <<link, table, datapaths, task>>
  BY DEF TypeInv, Serve, StartRequest, NextDatapath, SendRequest, RequestBlocks,
         SetRest, network
<1>2. CASE ~ SendRequest(r)
  <2>1. UNCHANGED chan
    BY <1>2 DEF Serve, StartRequest, NextDatapath, RequestBlocks, network
  <2> QED
    BY <1>1, <2>1, FinalSame, SameTask
<1>3. CASE SendRequest(r)
  <2>1. PICK c \in Conn, mod \in FlowMod :
           /\ c \in ToSet(rest[r].seen) /\ Send(c, mod) /\ mod = RequestMod(r)
    BY <1>3, RequestStep
  <2>2. \A f : mod.cmd = "add" => ~ IsSource(mod.entry, f)
    BY <2>1, WhatIsSource DEF RequestMod, DeleteFlowMod, DeleteSpiMod, DelMod
  <2>3. link[c] \in {"config", "main"}
    BY <1>1, <2>1, MetIsUp DEF MetInv
  <2>4. \A f \in Flow : \A s, e : SourceAt(s, e, f)' => SourceAt(s, e, f)
    BY <1>1, <2>1, <2>2, <2>3, NoNewSource
  <2> QED
    BY <1>1, <2>4, SourceStays DEF SourceInv
<1> QED
  BY <1>2, <1>3

\* Every step, and the initial state.
LEMMA NextSource ==
    TypeInv /\ MetInv /\ OneAtATime /\ UpInv /\ SourceInv /\ NoneLost /\ NoneLost'
       /\ [Next]_vars => SourceInv'
<1> SUFFICES ASSUME TypeInv, MetInv, OneAtATime, UpInv, SourceInv, NoneLost,
                    NoneLost', [Next]_vars
             PROVE  SourceInv'
  OBVIOUS
<1>1. ToSet(datapaths) \subseteq ToSet(datapaths')
  BY NextUp
<1>2. CASE UNCHANGED vars
  <2>1. UNCHANGED <<link, table, chan, task>>
    BY <1>2 DEF vars
  <2> QED
    BY <1>1, <2>1, FinalSame, SameTask
<1>3. CASE \/ \E c \in Conn : LinkStep(c)
           \/ \E c \in Conn, t \in Traffic : DetectPacket(c, t)
           \/ \E c \in Conn, d \in Datagram : RegisterPacket(c, d)
  <2>1. UNCHANGED task
    BY <1>3 DEF LinkStep, Connect, EnterMain, Drop, Notice, ReportDead, ApplyMod,
       DetectPacket, RegisterPacket
  <2>2. \A s \in Switch : Final(s)' \subseteq Final(s)
    BY <1>3, FinalShrinks
  <2> QED
    BY <1>1, <2>1, <2>2, SameTask
<1> QED
  BY <1>1, <1>2, <1>3, LoopSource, ServeSource DEF Next

LEMMA InitSource == Init => SourceInv
<1> SUFFICES ASSUME Init, NEW f \in Flow, NEW s \in Switch, NEW e \in Final(s),
                    IsSource(e, f)
             PROVE  FALSE
  BY DEF SourceInv, SourceAt, Init
<1>1. e \in table[s]
  BY DEF Final, Coming, Init, LiveConn
<1>2. e \in DefaultEntries
  BY <1>1 DEF Init
<1> QED
  BY <1>2, DefaultFacts, FlowAssumption DEF IsSource

\* As long as no connection is lost, a flow enters its chain at one place: the
\* tables the switches end up with hold at most one source entry of it, however
\* many of its packets are detected, also while handlers are suspended at full
\* queues (sfc_nfv.py:291-313).
THEOREM OneEntrance == Spec /\ []NoneLost => []SingleSource
<1> DEFINE Inv == TypeInv /\ MetInv /\ OneAtATime /\ UpInv /\ SourceInv
<1>1. Init => Inv
  BY InitType, InitMet, InitOneAtATime, InitUp, InitSource
<1>2. Inv /\ NoneLost /\ NoneLost' /\ [Next]_vars => Inv'
  BY NextType, NextMet, NextOneAtATime, NextUp, NextSource
<1>3. Inv => SingleSource
  <2> SUFFICES ASSUME SourceInv, NEW f \in Flow, NEW x \in Sources(f), NEW y \in Sources(f)
               PROVE  x = y
    BY DEF SingleSource
  <2>1. \A z \in Sources(f) : \E s, e : z = <<s, e>> /\ SourceAt(s, e, f)
    BY DEF Sources, SourceAt
  <2> QED
    BY <2>1 DEF SourceInv
<1> QED
  BY <1>1, <1>2, <1>3, PTL DEF Spec

(***************************************************************************)
(* Detection entries and the source entry.                                 *)
(***************************************************************************)

\* Of all that is sent only the detection entry of its flow is one.
LEMMA WhatIsCatch ==
    /\ \A f, g : IsCatch(CatchMod(g).entry, f) => f = g
    /\ \A f : FlowMatch(f) \subseteq CatchMod(f).entry.match
    /\ \A f, e, g : ChainEntry(e, g) => ~ IsCatch(e, f)
    /\ \A f \in Flow : \A i \in 1..6 : ~ IsCatch(DefaultMods[i].entry, f)
    /\ \A f, g, port, row : ~ IsCatch(SourceMod(g, port, row).entry, f)
<1>1. \A i \in 1..6 : DefaultMods[i].entry.flow = NoFlow
  BY DefaultFacts DEF DefaultEntries
<1> QED
  BY <1>1, FlowAssumption DEF IsCatch, CatchMod, ChainEntry, SourceMod, AddMod

\* Nothing sent of which an entry would be a detection entry.
LEMMA NoNewCatch ==
    ASSUME TypeOK, OneAtATime, NEW c \in Conn, link[c] \in {"config", "main"},
           NEW mod \in FlowMod, Send(c, mod), UNCHANGED <<link, table>>,
           NEW f, mod.cmd = "add" => ~ IsCatch(mod.entry, f)
    PROVE  \A s, e : CatchAt(s, e, f)' => CatchAt(s, e, f)
BY FinalSent DEF CatchAt

\* A forgotten flow has no source entry.
LEMMA ForgottenNoSource ==
    ASSUME NEW f, Forgotten(f)
    PROVE  \A s, e : ~ SourceAt(s, e, f)
<1> SUFFICES ASSUME NEW s, NEW e, SourceAt(s, e, f) PROVE FALSE
  OBVIOUS
<1>1. s \in Switch /\ e \in Final(s) /\ e.flow = f /\ e.table = 0
  BY DEF SourceAt, IsSource
<1>2. \/ e \in table[s]
      \/ \E c \in Conn : \E i \in DOMAIN chan[c] :
            chan[c][i].cmd = "add" /\ chan[c][i].entry = e
  BY <1>1 DEF Final, Coming, LiveConn
<1> QED
  BY <1>1, <1>2 DEF Forgotten

\* A flow that is not forgotten has been added.
LEMMA AddedBefore ==
    ASSUME TypeInv, MarksInv, [Next]_vars, NEW f \in Flow,
           Forgotten(f) \/ \E r \in Asked(f, "add") : rest[r].pc # "new"
    PROVE  Forgotten(f)' \/ \E r \in Asked(f, "add") : rest'[r].pc # "new"
<1>1. CASE \E r \in Asked(f, "add") : rest[r].pc # "new"
  BY <1>1, RequestsBegin DEF Asked
<1>2. CASE Forgotten(f)
  <2>1. \/ Forgotten(f)'
        \/ \E r \in Request : Op[r] = "add" /\ Subject[r] = f /\ rest[r].pc = "send"
    BY <1>2, NextForgets
  <2> QED
    BY <2>1, RequestsBegin DEF Asked
<1> QED
  BY <1>1, <1>2

\* When there are no new detection entries and no new source entries, the
\* invariant stays if the event loop and the requests are where it says.
LEMMA CatchStays ==
    ASSUME TypeInv, MarksInv, CatchInv, [Next]_vars,
           ToSet(datapaths) \subseteq ToSet(datapaths'),
           \A f \in Flow : \A s, e : CatchAt(s, e, f)' => CatchAt(s, e, f),
           \A f \in Flow : \A s, e : SourceAt(s, e, f)' => SourceAt(s, e, f),
           \A f \in Flow : task' # NoTask /\ task'.pc = "delete" /\ task'.flow = f =>
              \A s, e : CatchAt(s, e, f)' => \E c \in ToSet(task'.todo) : Dpid(c) = s,
           \A f \in Flow : task' # NoTask /\ task'.pc = "source" /\ task'.flow = f =>
              \A s, e : ~ CatchAt(s, e, f)',
           \A f \in Flow : \A r \in Asked(f, "add") :
              rest'[r].pc \in {"next", "send"} => \A s, e : ~ SourceAt(s, e, f)'
    PROVE  CatchInv'
<1>1. \A s : Registered(s) # {} => Registered(s)' # {}
  BY DEF Registered, Dpid
<1>2. \A f \in Flow : Forgotten(f)' \/ \E r \in Asked(f, "add") : rest'[r].pc # "new"
  BY AddedBefore DEF CatchInv
<1>3. \A f : Asked(f, "add")' = Asked(f, "add") /\ FlowMatch(f)' = FlowMatch(f)
  BY DEF Asked
<1> QED
  BY <1>1, <1>2, <1>3 DEF CatchInv, Dpid

\* The invariant is about nothing but the registry, the requests, the task and
\* the tables.
LEMMA CatchSame ==
    ASSUME TypeInv, MarksInv, CatchInv, [Next]_vars,
           ToSet(datapaths) \subseteq ToSet(datapaths'),
           \A s \in Switch : Final(s)' \subseteq Final(s), UNCHANGED <<task, rest>>
    PROVE  CatchInv'
<1>1. \A f \in Flow : \A s, e : /\ CatchAt(s, e, f)' => CatchAt(s, e, f)
                                /\ SourceAt(s, e, f)' => SourceAt(s, e, f)
  BY DEF CatchAt, SourceAt
<1> QED
  BY <1>1, CatchStays DEF CatchInv

\* The steps of the event loop.
LEMMA LoopCatch ==
    ASSUME TypeInv, MarksInv, MetInv, OneAtATime, UpInv, SourceInv, AtomicInv,
           CatchInv, NoneLost, ToSet(datapaths) \subseteq ToSet(datapaths'), Loop
    PROVE  CatchInv'
<1>1. TypeOK /\ datapaths \in Seq(Conn) /\ [Next]_vars
  BY DEF TypeInv, TypeOK, Next
<1>2. UNCHANGED <<link, table, rest>>
  BY DEF Loop, HandleEvent, RunTask, LoopBlocks, RegisterDatapath,
         UnregisterDatapath, RegisterVnf, HandledAtOnce, StartDefaults,
         StartDetection, Begin, SendDefault, DeleteCatching, SendSource,
         AbandonChain, SkipVnf, SendHop, SendEnd, Continue, network
<1>3. ASSUME \A f \in Flow : \A s, e : CatchAt(s, e, f)' => CatchAt(s, e, f),
             \A f \in Flow : \A s, e : SourceAt(s, e, f)' => SourceAt(s, e, f),
             task' # NoTask => task'.pc \notin {"delete", "source"}
      PROVE  CatchInv'
  BY <1>1, <1>2, <1>3, CatchStays DEF CatchInv
<1>4. ASSUME UNCHANGED chan
      PROVE  /\ \A f \in Flow : \A s, e : CatchAt(s, e, f)' => CatchAt(s, e, f)
             /\ \A f \in Flow : \A s, e : SourceAt(s, e, f)' => SourceAt(s, e, f)
  BY <1>2, <1>4, FinalSame DEF SourceAt, CatchAt
<1>5. CASE RegisterDatapath \/ UnregisterDatapath \/ RegisterVnf \/ StartDefaults
  <2>1. UNCHANGED chan /\ (task' # NoTask => task'.pc = "defaults")
    BY <1>5, SetUpStep DEF RegisterDatapath, UnregisterDatapath, RegisterVnf,
                           HandledAtOnce, NextEvent, network
  <2> QED
    BY <1>3, <1>4, <2>1
<1>6. CASE LoopBlocks
  <2>1. UNCHANGED <<chan, task, datapaths>>
    BY <1>6 DEF LoopBlocks, network
  <2> QED
    BY <1>1, <1>2, <2>1, FinalSame, CatchSame
<1>7. CASE StartDetection
  <2>1. /\ UNCHANGED <<chan, datapaths>>
        /\ task' # NoTask =>
              \/ task'.pc = "delete" /\ task'.todo = datapaths
              \/ task'.pc = "source" /\ datapaths = <<>>
    BY <1>7, DetectionStep
  <2>2. /\ \A f \in Flow : \A s, e : CatchAt(s, e, f)' => CatchAt(s, e, f)
        /\ \A f \in Flow : \A s, e : SourceAt(s, e, f)' => SourceAt(s, e, f)
    BY <1>4, <2>1
  <2>3. \A f \in Flow : \A s, e : CatchAt(s, e, f) =>
           \E c \in ToSet(datapaths) : Dpid(c) = s
    BY DEF CatchInv, Registered
  <2>4. datapaths = <<>> => ToSet(datapaths) = {}
    BY DEF ToSet
  <2>5. \A f \in Flow : \A r \in Asked(f, "add") :
           rest'[r].pc \in {"next", "send"} => \A s, e : ~ SourceAt(s, e, f)'
    BY <1>2, <2>2 DEF CatchInv
  <2>6. \A f \in Flow : task' # NoTask /\ task'.pc = "delete" /\ task'.flow = f =>
           \A s, e : CatchAt(s, e, f)' => \E c \in ToSet(task'.todo) : Dpid(c) = s
    BY <2>1, <2>2, <2>3
  <2>7. \A f \in Flow : task' # NoTask /\ task'.pc = "source" /\ task'.flow = f =>
           \A s, e : ~ CatchAt(s, e, f)'
    BY <2>1, <2>2, <2>3, <2>4
  <2> QED
    BY <1>1, <2>2, <2>5, <2>6, <2>7, CatchStays
<1>8. CASE SendDefault
  <2>1. /\ Send(task.conn, DefaultMods[task.step]) /\ task.conn \in Conn
        /\ task.step \in 1..6 /\ DefaultMods[task.step] \in FlowMod
        /\ task # NoTask
        /\ task' # NoTask => task'.pc = "defaults"
    BY <1>8, DefaultStep
  <2>2. link[task.conn] \in {"config", "main"}
    BY <1>1, <2>1, MetIsUp DEF MetInv, MetTask
  <2>3. PICK c \in Conn, mod \in FlowMod :
           /\ Send(c, mod) /\ link[c] \in {"config", "main"}
           /\ \A f \in Flow : ~ IsSource(mod.entry, f) /\ ~ IsCatch(mod.entry, f)
    <3>1. \A f \in Flow : ~ IsSource(DefaultMods[task.step].entry, f)
      BY <2>1, WhatIsSource
    <3>2. \A f \in Flow : ~ IsCatch(DefaultMods[task.step].entry, f)
      BY <2>1, WhatIsCatch
    <3> QED
      BY <2>1, <2>2, <3>1, <3>2
  <2>4. /\ \A f \in Flow : \A s, e : CatchAt(s, e, f)' => CatchAt(s, e, f)
        /\ \A f \in Flow : \A s, e : SourceAt(s, e, f)' => SourceAt(s, e, f)
    BY <1>1, <1>2, <2>3, NoNewSource, NoNewCatch
  <2> QED
    BY <1>3, <2>1, <2>4
<1>9. CASE DeleteCatching
  <2>1. /\ task # NoTask /\ task.pc = "delete" /\ task.flow \in Flow
        /\ task.todo \in Seq(Conn) /\ task.todo # <<>> /\ Head(task.todo) \in Conn
        /\ Send(Head(task.todo), DeleteFlowMod(task.flow))
        /\ task' # NoTask =>
              /\ task'.flow = task.flow
              /\ \/ task'.pc = "delete" /\ task'.todo = Tail(task.todo)
                 \/ task'.pc = "source" /\ Tail(task.todo) = <<>>
    BY <1>9, DeleteStep
  <2>2. PICK d \in Conn : d = Head(task.todo)
    BY <2>1
  <2>3. ToSet(task.todo) = {d} \cup ToSet(Tail(task.todo))
    BY <2>1, <2>2, ElementsOf
  <2>4. link[d] \in {"config", "main"}
    BY <1>1, <2>1, <2>2, <2>3, MetIsUp DEF MetInv, MetTask
  <2>5. PICK f \in Flow : f = task.flow
    BY <2>1
  <2>6. PICK mod \in FlowMod :
           /\ mod = DeleteFlowMod(f) /\ mod.cmd = "delete" /\ mod.entry.table = 0
           /\ mod.entry.match = FlowMatch(f)
    <3>1. DeleteFlowMod(f) \in FlowMod
      BY RequestModTypes
    <3> QED
      BY <3>1 DEF DeleteFlowMod, DelMod
  <2>7. /\ \A g \in Flow : \A s, e : CatchAt(s, e, g)' => CatchAt(s, e, g)
        /\ \A g \in Flow : \A s, e : SourceAt(s, e, g)' => SourceAt(s, e, g)
    BY <1>1, <1>2, <2>1, <2>2, <2>4, <2>5, <2>6, NoNewSource, NoNewCatch
  <2>8. ASSUME NEW s, NEW e, CatchAt(s, e, f)'
        PROVE  \E x \in ToSet(Tail(task.todo)) : Dpid(x) = s
    <3>1. CatchAt(s, e, f) /\ s \in Switch /\ e \in Final(s)'
      BY <2>7, <2>8 DEF CatchAt
    <3>2. e.table = 0 /\ FlowMatch(f) \subseteq e.match
      BY <3>1 DEF CatchInv, CatchAt, IsCatch
    <3>3. s # Dpid(d)
      BY <1>1, <1>2, <2>1, <2>2, <2>4, <2>5, <2>6, <3>1, <3>2, FinalSent DEF Covers
    <3> QED
      BY <2>1, <2>3, <2>5, <3>1, <3>3 DEF CatchInv
  <2>9. Tail(task.todo) = <<>> => ToSet(Tail(task.todo)) = {}
    BY DEF ToSet
  <2>10. \A g \in Flow : \A r \in Asked(g, "add") :
            rest'[r].pc \in {"next", "send"} => \A s, e : ~ SourceAt(s, e, g)'
    BY <1>2, <2>7 DEF CatchInv
  <2>11. \A g \in Flow : task' # NoTask /\ task'.pc = "delete" /\ task'.flow = g =>
            \A s, e : CatchAt(s, e, g)' => \E c \in ToSet(task'.todo) : Dpid(c) = s
    BY <2>1, <2>5, <2>8
  <2>12. \A g \in Flow : task' # NoTask /\ task'.pc = "source" /\ task'.flow = g =>
            \A s, e : ~ CatchAt(s, e, g)'
    BY <2>1, <2>5, <2>8, <2>9
  <2> QED
    BY <1>1, <2>7, <2>10, <2>11, <2>12, CatchStays
<1>10. CASE SendSource
  <2>1. PICK mod \in FlowMod, f \in Flow, c \in Conn :
           /\ f = task.flow /\ c = task.conn /\ Send(c, mod)
           /\ mod.cmd = "add" /\ (\A g : IsSource(mod.entry, g) => g = f)
           /\ \A g : ~ IsCatch(mod.entry, g)
    <3>1. /\ task.flow \in Flow /\ task.conn \in Conn
          /\ Send(task.conn, SourceMod(task.flow, task.port, VnfAt(task.flow, 1)))
          /\ task.port \in Port /\ VnfAt(task.flow, 1) \in VnfRow
      BY <1>10, SourceStep
    <3>2. SourceMod(task.flow, task.port, VnfAt(task.flow, 1)) \in FlowMod
      BY <3>1, SourceModType
    <3>3. SourceMod(task.flow, task.port, VnfAt(task.flow, 1)).cmd = "add"
      BY DEF SourceMod, AddMod
    <3>4. \A g : IsSource(SourceMod(task.flow, task.port, VnfAt(task.flow, 1)).entry, g)
                    => g = task.flow
      BY WhatIsSource
    <3>5. \A g : ~ IsCatch(SourceMod(task.flow, task.port, VnfAt(task.flow, 1)).entry, g)
      BY WhatIsCatch
    <3> QED
      BY <3>1, <3>2, <3>3, <3>4, <3>5
  <2>2. /\ task # NoTask /\ task.pc = "source" /\ task' # NoTask /\ task'.pc = "chain"
        /\ UNCHANGED datapaths
    BY <1>10, SourceStep
  <2>3. link[c] \in {"config", "main"} /\ c \in ToSet(datapaths)
    BY <1>1, <2>1, <2>2, MetIsUp DEF MetInv, MetTask, UpInv
  <2>4. \A g \in Flow : \A s, e : SourceAt(s, e, g)' =>
           SourceAt(s, e, g) \/ (g = f /\ s = Dpid(c) /\ e = mod.entry)
    BY <1>1, <1>2, <2>1, <2>3, FinalSent DEF SourceAt
  <2>5. \A g \in Flow : \A s, e : CatchAt(s, e, g)' => CatchAt(s, e, g)
    BY <1>1, <1>2, <2>1, <2>3, NoNewCatch
  <2>6. \A s, e : ~ CatchAt(s, e, f)
    BY <2>1, <2>2 DEF CatchInv
  <2>7. \A g \in Flow : \A s, e, t, x : ~ (SourceAt(s, e, g)' /\ CatchAt(t, x, g)')
    BY <2>4, <2>5, <2>6 DEF CatchInv
  <2>8. \A r \in Request : rest'[r].pc \notin {"next", "send"}
    BY <1>2, <2>2, RequestAssumption DEF AtomicInv
  <2>9. \A s : Registered(s)' = Registered(s)
    BY <2>2 DEF Registered
  <2>10. \A g \in Flow : Forgotten(g)' \/ \E r \in Asked(g, "add") : rest'[r].pc # "new"
    BY <1>1, AddedBefore DEF CatchInv
  <2>11. \A g : Asked(g, "add") \subseteq Request
    BY DEF Asked
  <2>12. \A g \in Flow : \A s, e : CatchAt(s, e, g)' =>
            Registered(s)' # {} /\ FlowMatch(g) \subseteq e.match
    BY <2>5, <2>9 DEF CatchInv
  <2> QED
    BY <2>2, <2>7, <2>8, <2>10, <2>11, <2>12 DEF CatchInv, Asked
<1>11. CASE AbandonChain \/ SkipVnf \/ SendHop \/ SendEnd
  <2>1. /\ task' # NoTask => task'.pc = "chain"
        /\ \/ chan' = chan
           \/ \E d \in ToSet(datapaths), mod \in FlowMod :
                 /\ d \in Conn /\ Send(d, mod)
                 /\ mod.cmd = "add" /\ ChainEntry(mod.entry, task.flow)
    BY <1>11, ChainStep
  <2>2. ASSUME NEW d \in ToSet(datapaths), NEW mod \in FlowMod, d \in Conn,
               Send(d, mod), ChainEntry(mod.entry, task.flow)
        PROVE  /\ \A f \in Flow : \A s, e : CatchAt(s, e, f)' => CatchAt(s, e, f)
               /\ \A f \in Flow : \A s, e : SourceAt(s, e, f)' => SourceAt(s, e, f)
    <3>1. link[d] \in {"config", "main"}
      BY <1>1, <2>2, MetIsUp DEF MetInv
    <3> QED
      BY <1>1, <1>2, <2>2, <3>1, NoNewSource, WhatIsSource, NoNewCatch, WhatIsCatch
  <2> QED
    BY <1>3, <1>4, <2>1, <2>2
<1> QED
  BY <1>5, <1>6, <1>7, <1>8, <1>9, <1>10, <1>11 DEF Loop, HandleEvent, RunTask

\* The steps of the requests.
LEMMA ServeCatch ==
    ASSUME TypeInv, MarksInv, MetInv, OneAtATime, UpInv, AtomicInv, CatchInv,
           NoneLost, AddedOnce, NEW r \in Request, Serve(r)
    PROVE  CatchInv'
<1>1. /\ TypeOK /\ UNCHANGED <<link, table, datapaths, task>> /\ [Next]_vars
      /\ ToSet(datapaths) \subseteq ToSet(datapaths')
  BY DEF TypeInv, Serve, StartRequest, NextDatapath, SendRequest, RequestBlocks,
         SetRest, network, Next
<1>2. CASE RequestBlocks(r)
  <2>1. UNCHANGED <<chan, rest>>
    BY <1>2 DEF RequestBlocks, network
  <2> QED
    BY <1>1, <2>1, FinalSame, CatchSame
<1>3. CASE StartRequest(r) \/ NextDatapath(r)
  <2>1. /\ UNCHANGED chan
        /\ \A q \in Request : q # r => rest'[q] = rest[q]
        /\ rest[r].pc \in {"new", "next"}
    BY <1>3, TurnStep
  <2>2. /\ \A f \in Flow : \A s, e : CatchAt(s, e, f)' => CatchAt(s, e, f)
        /\ \A f \in Flow : \A s, e : SourceAt(s, e, f)' => SourceAt(s, e, f)
    BY <1>1, <2>1, FinalSame DEF SourceAt, CatchAt
  <2>3. ASSUME NEW f \in Flow, NEW q \in Asked(f, "add"),
               rest'[q].pc \in {"next", "send"}, NEW s, NEW e, SourceAt(s, e, f)'
        PROVE  FALSE
    <3>1. SourceAt(s, e, f) /\ q \in Request
      BY <2>2, <2>3 DEF Asked
    <3>2. q = r /\ rest[r].pc = "new"
      BY <2>1, <2>3, <3>1 DEF CatchInv
    <3>3. \A p \in Asked(f, "add") : p = r
      BY <2>3, <3>2 DEF AddedOnce
    <3>4. Forgotten(f)
      BY <3>2, <3>3 DEF CatchInv
    <3> QED
      BY <3>1, <3>4, ForgottenNoSource
  <2> QED
    BY <1>1, <2>2, <2>3, CatchStays DEF CatchInv
<1>4. CASE SendRequest(r)
  <2>1. PICK c \in Conn, mod \in FlowMod, f \in Flow :
           /\ c \in ToSet(rest[r].seen) /\ Send(c, mod) /\ mod = RequestMod(r)
           /\ f = Subject[r]
    BY <1>4, RequestStep
  <2>2. /\ rest[r].pc = "send"
        /\ \A q \in Request : q # r => rest'[q] = rest[q]
    BY <1>4, RequestStep
  <2>3. link[c] \in {"config", "main"} /\ c \in ToSet(datapaths)
    BY <1>1, <2>1, MetIsUp DEF MetInv, UpInv
  <2>4. \A g : mod.cmd = "add" =>
           /\ ~ IsSource(mod.entry, g)
           /\ IsCatch(mod.entry, g) =>
                 /\ g = f /\ r \in Asked(g, "add")
                 /\ FlowMatch(g) \subseteq mod.entry.match
    BY <2>1, WhatIsSource, WhatIsCatch
       DEF RequestMod, DeleteFlowMod, DeleteSpiMod, DelMod, Asked
  <2>5. \A g \in Flow : \A s, e : SourceAt(s, e, g)' => SourceAt(s, e, g)
    BY <1>1, <2>1, <2>3, <2>4, NoNewSource
  <2>6. \A g \in Flow : \A s, e : CatchAt(s, e, g)' =>
           \/ CatchAt(s, e, g)
           \/ /\ s = Dpid(c) /\ r \in Asked(g, "add")
              /\ FlowMatch(g) \subseteq e.match
    BY <1>1, <2>1, <2>3, <2>4, FinalSent DEF CatchAt
  <2>7. task = NoTask /\ task' = NoTask
    BY <1>1, <2>2, RequestAssumption DEF AtomicInv
  <2>8. Registered(Dpid(c)) # {} /\ \A s : Registered(s)' = Registered(s)
    BY <1>1, <2>3 DEF Registered
  <2>9. \A g \in Flow : \A s, e : CatchAt(s, e, g)' =>
           Registered(s)' # {} /\ FlowMatch(g) \subseteq e.match
    BY <2>6, <2>8 DEF CatchInv
  <2>10. \A g \in Flow : \A s, e, t, x : ~ (SourceAt(s, e, g)' /\ CatchAt(t, x, g)')
    BY <2>2, <2>5, <2>6 DEF CatchInv
  <2>11. \A g \in Flow : \A q \in Asked(g, "add") :
            rest'[q].pc \in {"next", "send"} => \A s, e : ~ SourceAt(s, e, g)'
    <3>1. \A g \in Flow : \A q \in Asked(g, "add") : q \in Request
      BY DEF Asked
    <3> QED
      BY <2>2, <2>5, <3>1 DEF CatchInv
  <2>12. \A g \in Flow : Forgotten(g)' \/ \E q \in Asked(g, "add") : rest'[q].pc # "new"
    BY <1>1, AddedBefore DEF CatchInv
  <2> QED
    BY <2>7, <2>9, <2>10, <2>11, <2>12 DEF CatchInv, Asked
<1> QED
  BY <1>2, <1>3, <1>4 DEF Serve

\* Every step, and the initial state.
LEMMA NextCatch ==
    TypeInv /\ MarksInv /\ MetInv /\ OneAtATime /\ UpInv /\ SourceInv /\ AtomicInv
       /\ CatchInv /\ AddedOnce /\ NoneLost /\ NoneLost' /\ [Next]_vars => CatchInv'
<1> SUFFICES ASSUME TypeInv, MarksInv, MetInv, OneAtATime, UpInv, SourceInv,
                    AtomicInv, CatchInv, AddedOnce, NoneLost, NoneLost', [Next]_vars
             PROVE  CatchInv'
  OBVIOUS
<1>1. ToSet(datapaths) \subseteq ToSet(datapaths')
  BY NextUp
<1>2. CASE UNCHANGED vars
  <2>1. UNCHANGED <<link, table, chan, task, rest>>
    BY <1>2 DEF vars
  <2> QED
    BY <1>1, <2>1, FinalSame, CatchSame
<1>3. CASE \/ \E c \in Conn : LinkStep(c)
           \/ \E c \in Conn, t \in Traffic : DetectPacket(c, t)
           \/ \E c \in Conn, d \in Datagram : RegisterPacket(c, d)
  <2>1. UNCHANGED <<task, rest>>
    BY <1>3 DEF LinkStep, Connect, EnterMain, Drop, Notice, ReportDead, ApplyMod,
       DetectPacket, RegisterPacket
  <2>2. \A s \in Switch : Final(s)' \subseteq Final(s)
    BY <1>3, FinalShrinks
  <2> QED
    BY <1>1, <2>1, <2>2, CatchSame
<1> QED
  BY <1>1, <1>2, <1>3, LoopCatch, ServeCatch DEF Next

LEMMA InitCatch == Init => CatchInv
<1> SUFFICES ASSUME Init PROVE CatchInv
  OBVIOUS
<1>1. \A s \in Switch : \A e \in Final(s) : e \in DefaultEntries
  BY DEF Final, Coming, Init, LiveConn
<1>2. \A f \in Flow : \A s, e : ~ SourceAt(s, e, f) /\ ~ CatchAt(s, e, f)
  BY <1>1, DefaultFacts, FlowAssumption DEF SourceAt, CatchAt, IsSource, IsCatch
<1>3. \A f \in Flow : Forgotten(f)
  BY DefaultFacts, FlowAssumption DEF Forgotten, Init
<1> QED
  BY <1>2, <1>3 DEF CatchInv, Init

\* As long as no connection is lost and no queue is full, and when no two requests
\* add the same flow: once a flow has a source entry, coming or in place, no switch
\* keeps or gets a detection entry of it (README.md:47, sfc_nfv.py:276-313).
THEOREM EntryChanged ==
    ASSUME AddedOnce
    PROVE  Spec /\ []Smooth => []DetectionReplaced
<1> DEFINE Inv == /\ TypeInv /\ MarksInv /\ MetInv /\ OneAtATime /\ UpInv
                  /\ SourceInv /\ AtomicInv /\ CatchInv
<1>1. Init => Inv
  BY InitType, InitMarks, InitMet, InitOneAtATime, InitUp, InitSource, InitAtomic,
     InitCatch
<1>2. Inv /\ Smooth /\ Smooth' /\ [Next]_vars => Inv'
  BY NextType, NextMarks, NextMet, NextOneAtATime, NextUp, NextSource, NextAtomic,
     NextCatch DEF Smooth
<1>3. Inv => DetectionReplaced
  <2> SUFFICES ASSUME CatchInv, NEW f \in Flow, NEW x \in Sources(f),
                      NEW s \in Switch, NEW e \in Final(s), IsCatch(e, f)
               PROVE  FALSE
    BY DEF DetectionReplaced
  <2>1. \E t, y : SourceAt(t, y, f)
    BY DEF Sources, SourceAt
  <2>2. CatchAt(s, e, f)
    BY DEF CatchAt
  <2> QED
    BY <2>1, <2>2 DEF CatchInv
<1> QED
  BY <1>1, <1>2, <1>3, PTL DEF Spec

(***************************************************************************)
(* A flow that is added stays.                                             *)
(***************************************************************************)

\* Switches accept what is made for a row they accept.
LEMMA OwnAccepted ==
    ASSUME RowsAccepted, NEW f \in Flow, NEW e, OwnEntry(e), e.flow = f, e.table = 0
    PROVE  PrereqOK(e.match)
<1>1. /\ MiddleFields(f) \subseteq e.match
      /\ \A h \in e.match : h \in FlowMatch(f) \/ h[1] = "in_port"
  BY DefaultFacts, FlowAssumption DEF OwnEntry
<1>2. \A F : F \cap Fields(e.match) # {} /\ "in_port" \notin F
                => F \cap Fields(FlowMatch(f)) # {}
  BY <1>1 DEF Fields
<1>3. \A name, v : <<name, v>> \in FlowMatch(f) /\ name \notin {"eth_src", "eth_dst"}
                      => <<name, v>> \in e.match
  BY <1>1 DEF MiddleFields
<1>4. PrereqOK(FlowMatch(f))
  BY DEF RowsAccepted
<1>5. /\ Fields(e.match) \cap {"ipv4_src", "ipv4_dst"} # {}
            => <<"eth_type", IPv4>> \in e.match
      /\ Fields(e.match) \cap {"ipv6_src", "ipv6_dst"} # {}
            => <<"eth_type", IPv6>> \in e.match
  BY <1>2, <1>3, <1>4 DEF PrereqOK
<1>6. ASSUME "ip_proto" \in Fields(e.match)
      PROVE  {<<"eth_type", IPv4>>, <<"eth_type", IPv6>>} \cap e.match # {}
  <2>1. "ip_proto" \in Fields(FlowMatch(f))
    BY <1>1, <1>6 DEF Fields
  <2>2. <<"eth_type", IPv4>> \in FlowMatch(f) \/ <<"eth_type", IPv6>> \in FlowMatch(f)
    BY <1>4, <2>1 DEF PrereqOK
  <2> QED
    BY <1>3, <2>2
<1>7. /\ Fields(e.match) \cap {"tcp_src", "tcp_dst"} # {}
            => <<"ip_proto", TCP>> \in e.match
      /\ Fields(e.match) \cap {"udp_src", "udp_dst"} # {}
            => <<"ip_proto", UDP>> \in e.match
  BY <1>2, <1>3, <1>4 DEF PrereqOK
<1> QED
  BY <1>5, <1>6, <1>7 DEF PrereqOK

\* An entry of a row in table 0 is replaced only by one of the same row,
LEMMA OwnReplaced ==
    ASSUME RowsApart, NEW f \in Flow, NEW e, OwnEntry(e), e.flow = f, e.table = 0,
           NEW m, OwnEntry(m), m.table = 0, m.priority = e.priority,
           m.match = e.match
    PROVE  m.flow = f
<1>1. /\ e.priority \in {6, 8}
      /\ \A h \in e.match : h \in FlowMatch(f) \/ h[1] = "in_port"
  BY DefaultFacts, FlowAssumption DEF OwnEntry
<1>2. m.flow \in Flow /\ MiddleFields(m.flow) \subseteq m.match
  BY <1>1, DefaultFacts DEF OwnEntry
<1> QED
  BY <1>1, <1>2, PartOfAnother

\* and deleted only by a deletion of the same row.
LEMMA OwnDeleted ==
    ASSUME RowsApart, NEW f \in Flow, NEW e, OwnEntry(e), e.flow = f, e.table = 0,
           NEW d, OwnDeletion(d), Covers(d, e)
    PROVE  d.flow = f
<1>1. \A h \in e.match : h \in FlowMatch(f) \/ h[1] = "in_port"
  BY DefaultFacts, FlowAssumption DEF OwnEntry
<1>2. d.match \subseteq e.match /\ d.flow \in Flow
  BY DEF Covers, OwnDeletion
<1>3. "nsh_spi" \notin Fields(d.match)
  BY <1>1, <1>2, FlowHeaders DEF Fields, Column
<1>4. MiddleFields(d.flow) \subseteq e.match
  BY <1>2, <1>3, FlowHeaders DEF OwnDeletion
<1> QED
  BY <1>1, <1>2, <1>4, PartOfAnother

\* Sending anything but a deletion of the flow leaves it in.
LEMMA SendKeeps ==
    ASSUME TypeOK, OneAtATime, EntriesFromRows, RowsApart, NEW f \in Flow, FlowIn(f),
           NEW c \in Conn, link[c] \in {"config", "main"}, NEW mod \in FlowMod,
           mod.cmd = "delete" => OwnDeletion(mod.entry) /\ mod.entry.flow # f,
           Send(c, mod), UNCHANGED <<link, table>>
    PROVE  FlowIn(f)'
<1>1. PICK s \in Switch : \E x \in Final(s) : x.table = 0 /\ x.flow = f
  BY DEF FlowIn
<1>2. PICK e \in Final(s) : e.table = 0 /\ e.flow = f
  BY <1>1
<1>3. mod.cmd = "delete" => ~ Covers(mod.entry, e)
  BY <1>2, FinalOwn, OwnDeleted
<1>4. e \in Final(s)'
  BY <1>2, <1>3, FinalSent
<1> QED
  BY <1>2, <1>4 DEF FlowIn

\* So does what happens on the switches.
LEMMA NetworkKeeps ==
    ASSUME TypeInv, MetInv, OneAtATime, EntriesFromRows, RowsApart, RowsAccepted,
           NoneLost', NEW f \in Flow, FlowIn(f),
           \/ \E c \in Conn : LinkStep(c)
           \/ \E c \in Conn, t \in Traffic : DetectPacket(c, t)
           \/ \E c \in Conn, d \in Datagram : RegisterPacket(c, d)
    PROVE  FlowIn(f)'
<1>1. PICK s \in Switch : \E x \in Final(s) : x.table = 0 /\ x.flow = f
  BY DEF FlowIn
<1>2. PICK e \in Final(s) : e.table = 0 /\ e.flow = f
  BY <1>1
<1>3. CASE \A t \in Switch : Final(t)' = Final(t)
  BY <1>2, <1>3 DEF FlowIn
<1>4. ASSUME NEW c \in Conn, ApplyMod(c) PROVE FlowIn(f)'
  <2>1. TypeOK
    BY DEF TypeInv
  <2>2. CASE s # Dpid(c)
    BY <1>2, <1>4, <2>1, <2>2, FinalApplied DEF FlowIn
  <2>3. CASE s = Dpid(c)
    <3>1. 1 \in DOMAIN chan[c] /\ chan[c][1] \in FlowMod
      BY <1>4, <2>1, <2>3, FinalApplied
    <3>2. PICK m \in Entry : m = chan[c][1].entry
      BY <3>1 DEF FlowMod
    <3>3. \/ e \in Final(s)'
          \/ /\ chan[c][1].cmd = "add" /\ e = m /\ ~ PrereqOK(m.match)
          \/ /\ chan[c][1].cmd = "add" /\ e.table = m.table
             /\ e.priority = m.priority /\ e.match = m.match
             /\ PrereqOK(m.match) /\ m \in Final(s)'
      BY <1>2, <1>4, <2>1, <2>3, <3>2, FinalApplied
    <3>4. chan[c][1].cmd = "add" => OwnEntry(m)
      BY <3>1, <3>2 DEF EntriesFromRows, SentOwn, OwnMod
    <3>5. OwnEntry(e)
      BY <1>2, FinalOwn
    <3>6. PrereqOK(e.match)
      BY <1>2, <3>5, OwnAccepted
    <3>7. CASE e \in Final(s)'
      BY <1>2, <3>7 DEF FlowIn
    <3>8. CASE /\ chan[c][1].cmd = "add" /\ e.table = m.table
               /\ e.priority = m.priority /\ e.match = m.match
               /\ PrereqOK(m.match) /\ m \in Final(s)'
      <4>1. m.flow = f /\ m.table = 0
        BY <1>2, <3>4, <3>5, <3>8, OwnReplaced
      <4> QED
        BY <3>8, <4>1 DEF FlowIn
    <3> QED
      BY <3>3, <3>6, <3>7, <3>8
  <2> QED
    BY <2>2, <2>3
<1> QED
  BY <1>3, <1>4, FinalShrinks

\* The steps of the event loop: only the handler of a packet of the flow deletes
\* it, and with its first function registered it sends the source entry then.
LEMMA LoopKeeps ==
    ASSUME TypeInv, MetInv, OneAtATime, EntriesFromRows, RowsApart, NoneLost,
           FirstReady, NEW f \in Flow, KeptHere(f), Loop
    PROVE  KeptHere(f)'
<1>1. TypeOK /\ UNCHANGED <<link, table>>
  BY DEF TypeInv, Loop, HandleEvent, RunTask, LoopBlocks, RegisterDatapath,
         UnregisterDatapath, RegisterVnf, HandledAtOnce, StartDefaults,
         StartDetection, Begin, SendDefault, DeleteCatching, SendSource,
         AbandonChain, SkipVnf, SendHop, SendEnd, Continue, network
<1>2. ASSUME UNCHANGED chan PROVE FlowIn(f) => FlowIn(f)'
  BY <1>1, <1>2, FinalSame DEF FlowIn
<1>3. ASSUME NEW c \in Conn, Met(c), NEW mod \in FlowMod, Send(c, mod),
             mod.cmd = "delete" => OwnDeletion(mod.entry) /\ mod.entry.flow # f
      PROVE  FlowIn(f) => FlowIn(f)'
  BY <1>1, <1>3, MetIsUp, SendKeeps
<1>4. CASE RegisterDatapath \/ UnregisterDatapath \/ RegisterVnf \/ StartDefaults
           \/ StartDetection
  <2>1. UNCHANGED chan /\ task = NoTask
    BY <1>4, SetUpStep, DetectionStep
       DEF RegisterDatapath, UnregisterDatapath, RegisterVnf, HandledAtOnce,
           NextEvent, network
  <2> QED
    BY <1>2, <2>1 DEF KeptHere
<1>5. CASE LoopBlocks
  <2>1. UNCHANGED <<chan, task>>
    BY <1>5 DEF LoopBlocks, network
  <2> QED
    BY <1>2, <2>1 DEF KeptHere
<1>6. CASE SendDefault
  <2>1. /\ Send(task.conn, DefaultMods[task.step]) /\ task.conn \in Conn
        /\ task.step \in 1..6 /\ DefaultMods[task.step] \in FlowMod
        /\ task # NoTask /\ task.pc = "defaults"
    BY <1>6, DefaultStep
  <2>2. DefaultMods[task.step].cmd = "add"
    BY <2>1, DefaultFacts
  <2>3. Met(task.conn)
    BY <2>1 DEF MetInv, MetTask
  <2> QED
    BY <1>3, <2>1, <2>2, <2>3 DEF KeptHere
<1>7. CASE DeleteCatching
  <2>1. /\ task # NoTask /\ task.pc = "delete" /\ task.flow \in Flow
        /\ task.todo \in Seq(Conn) /\ task.todo # <<>>
        /\ Head(task.todo) \in Conn
        /\ Send(Head(task.todo), DeleteFlowMod(task.flow))
        /\ task' # NoTask /\ task'.flow = task.flow
        /\ task'.pc \in {"delete", "source"}
    BY <1>7, DeleteStep DEF FirstReady
  <2>2. CASE task.flow = f
    BY <2>1, <2>2 DEF KeptHere
  <2>3. CASE task.flow # f
    <3>1. /\ DeleteFlowMod(task.flow) \in FlowMod
          /\ OwnDeletion(DeleteFlowMod(task.flow).entry)
          /\ DeleteFlowMod(task.flow).entry.flow = task.flow
      BY <2>1, RequestModTypes, RequestModsOwn
         DEF EntriesFromRows, Translated, DeleteFlowMod, DelMod, OwnMod
    <3>2. Met(Head(task.todo))
      BY <2>1, ElementsOf DEF MetInv, MetTask
    <3> QED
      BY <1>3, <2>1, <2>3, <3>1, <3>2 DEF KeptHere
  <2> QED
    BY <2>2, <2>3
<1>8. CASE SendSource
  <2>1. /\ task # NoTask /\ task.pc = "source" /\ task.flow \in Flow
        /\ task.conn \in Conn
        /\ Send(task.conn, SourceMod(task.flow, task.port, VnfAt(task.flow, 1)))
        /\ task.port \in Port /\ VnfAt(task.flow, 1) \in VnfRow
    BY <1>8, SourceStep
  <2>2. PICK mod \in FlowMod :
           /\ Send(task.conn, mod)
           /\ mod.cmd = "add" /\ mod.entry.flow = task.flow /\ mod.entry.table = 0
    <3>1. SourceMod(task.flow, task.port, VnfAt(task.flow, 1)) \in FlowMod
      BY <2>1, SourceModType
    <3>2. \A port, row : /\ SourceMod(task.flow, port, row).cmd = "add"
                         /\ SourceMod(task.flow, port, row).entry.flow = task.flow
                         /\ SourceMod(task.flow, port, row).entry.table = 0
      BY DEF SourceMod, AddMod
    <3> QED
      BY <2>1, <3>1, <3>2
  <2>3. PICK c \in Conn : c = task.conn /\ Met(c)
    BY <2>1 DEF MetInv, MetTask
  <2>4. CASE task.flow = f
    <3>1. link[c] \in {"config", "main"} /\ Dpid(c) \in Switch
      BY <1>1, <2>3, MetIsUp, ConnParts
    <3>2. mod.entry \in Final(Dpid(c))'
      BY <1>1, <2>2, <2>3, <3>1, FinalSent
    <3>3. FlowIn(f)'
      BY <2>2, <2>4, <3>1, <3>2 DEF FlowIn
    <3> QED
      BY <3>3 DEF KeptHere
  <2>5. CASE task.flow # f
    BY <1>3, <2>1, <2>2, <2>3, <2>5 DEF KeptHere
  <2> QED
    BY <2>4, <2>5
<1>9. CASE AbandonChain \/ SkipVnf \/ SendHop \/ SendEnd
  <2>1. /\ task # NoTask /\ task.pc = "chain"
        /\ \/ chan' = chan
           \/ \E d \in Conn, mod \in FlowMod :
                 Met(d) /\ Send(d, mod) /\ mod.cmd = "add"
    BY <1>9, ChainStep DEF MetInv
  <2>2. FlowIn(f) => FlowIn(f)'
    BY <1>2, <1>3, <2>1
  <2> QED
    BY <2>1, <2>2 DEF KeptHere
<1> QED
  BY <1>4, <1>5, <1>6, <1>7, <1>8, <1>9 DEF Loop, HandleEvent, RunTask

\* The steps of the requests, while no request deletes the flow.
LEMMA ServeKeeps ==
    ASSUME TypeInv, MetInv, OneAtATime, EntriesFromRows, RowsApart, NoneLost,
           NEW f \in Flow, \A q \in Asked(f, "delete") : rest[q].pc = "new",
           NEW r \in Request, Serve(r)
    PROVE  /\ KeptHere(f) => KeptHere(f)'
           /\ SendRequest(r) /\ r \in Asked(f, "add") => KeptHere(f)'
<1>1. TypeOK /\ UNCHANGED <<link, table, task>>
  BY DEF TypeInv, Serve, StartRequest, NextDatapath, SendRequest, RequestBlocks,
         SetRest, network
<1>2. CASE ~ SendRequest(r)
  <2>1. UNCHANGED chan
    BY <1>2 DEF Serve, StartRequest, NextDatapath, RequestBlocks, network
  <2> QED
    BY <1>1, <1>2, <2>1, FinalSame DEF KeptHere, FlowIn
<1>3. CASE SendRequest(r)
  <2>1. /\ rest[r].pc = "send" /\ Subject[r] \in Flow
        /\ Last(rest[r].seen) \in ToSet(rest[r].seen)
        /\ Last(rest[r].seen) \in Conn
        /\ Send(Last(rest[r].seen), RequestMod(r)) /\ RequestMod(r) \in FlowMod
    BY <1>3, RequestStep
  <2>2. PICK c \in Conn, mod \in FlowMod :
           /\ c \in ToSet(rest[r].seen) /\ Send(c, mod) /\ mod = RequestMod(r)
    BY <2>1
  <2>3. link[c] \in {"config", "main"} /\ Dpid(c) \in Switch
    BY <1>1, <2>2, MetIsUp, ConnParts DEF MetInv
  <2>4. mod.cmd = "delete" => OwnDeletion(mod.entry) /\ mod.entry.flow # f
    <3>1. ASSUME mod.cmd = "delete"
          PROVE  /\ mod = DeleteFlowMod(Subject[r]) \/ mod = DeleteSpiMod(Subject[r])
                 /\ Op[r] # "add"
      BY <2>2, <3>1 DEF RequestMod, CatchMod, AddMod
    <3>2. Translatable(Subject[r])
      BY <2>1 DEF EntriesFromRows, Translated
    <3>3. Op[r] # "add" => Subject[r] # f
      BY <2>1, RequestAssumption DEF Asked
    <3>4. /\ OwnMod(DeleteFlowMod(Subject[r])) /\ OwnMod(DeleteSpiMod(Subject[r]))
      BY <2>1, <3>2, RequestModsOwn
    <3>5. \A g : /\ DeleteFlowMod(g).cmd = "delete" /\ DeleteFlowMod(g).entry.flow = g
                 /\ DeleteSpiMod(g).cmd = "delete" /\ DeleteSpiMod(g).entry.flow = g
      BY DEF DeleteFlowMod, DeleteSpiMod, DelMod
    <3> QED
      BY <3>1, <3>3, <3>4, <3>5 DEF OwnMod
  <2>5. FlowIn(f) => FlowIn(f)'
    BY <1>1, <2>2, <2>3, <2>4, SendKeeps
  <2>6. ASSUME r \in Asked(f, "add") PROVE FlowIn(f)'
    <3>1. mod.cmd = "add" /\ mod.entry.table = 0 /\ mod.entry.flow = f
      BY <2>2, <2>6 DEF Asked, RequestMod, CatchMod, AddMod
    <3>2. mod.entry \in Final(Dpid(c))'
      BY <1>1, <2>2, <2>3, <3>1, FinalSent
    <3> QED
      BY <2>3, <3>1, <3>2 DEF FlowIn
  <2> QED
    BY <1>1, <2>5, <2>6 DEF KeptHere
<1> QED
  BY <1>2, <1>3

\* Where a request that has added the flow has come from.
LEMMA AddedFrom ==
    ASSUME TypeInv, KeptInv, TurnInv, NEW r \in Request, Serve(r), Op[r] = "add",
           \/ rest'[r].pc = "next" /\ rest'[r].seen # <<>>
           \/ rest'[r].pc = "ok"
    PROVE  \/ SendRequest(r)
           \/ rest[r].pc = "next" /\ rest[r].seen # <<>>
           \/ rest[r].pc = "ok"
<1>1. CASE StartRequest(r)
  <2>1. rest[r].pc = "new" /\ rest[r].seen = <<>>
    BY <1>1 DEF StartRequest, TurnInv
  <2> QED
    BY <1>1, <2>1, TurnStep
<1>2. CASE NextDatapath(r)
  <2>1. rest[r].pc = "next"
    BY <1>2 DEF NextDatapath
  <2>2. CASE rest[r].seen # <<>>
    BY <2>1, <2>2
  <2>3. CASE rest[r].seen = <<>>
    <3>1. Unseen(r) = {} /\ datapaths \in Seq(Conn) /\ datapaths # <<>>
      BY <1>2, <2>1, <2>3, TurnStep DEF KeptInv, TypeInv, TypeOK
    <3>2. 1 \in DOMAIN datapaths /\ ToSet(rest[r].seen) = {}
      BY <2>3, <3>1 DEF ToSet
    <3> QED
      BY <3>1, <3>2 DEF Unseen
  <2> QED
    BY <2>2, <2>3
<1>3. CASE RequestBlocks(r)
  BY <1>3 DEF RequestBlocks
<1> QED
  BY <1>1, <1>2, <1>3 DEF Serve

\* Every step, and the initial state, in which no flow is added yet.
LEMMA NextKeeps ==
    TypeInv /\ MetInv /\ OneAtATime /\ UpInv /\ EntriesFromRows /\ KeptInv
       /\ TurnInv /\ RowsApart /\ RowsAccepted /\ NoneLost /\ NoneLost' /\ FirstReady
       /\ [Next]_vars => KeptInv'
<1> SUFFICES ASSUME TypeInv, MetInv, OneAtATime, UpInv, EntriesFromRows, KeptInv,
                    TurnInv, RowsApart, RowsAccepted, NoneLost, NoneLost', FirstReady,
                    [Next]_vars
             PROVE  KeptInv'
  OBVIOUS
<1>1. datapaths' # <<>>
  <2>1. datapaths \in Seq(Conn) /\ datapaths # <<>>
    BY DEF TypeInv, TypeOK, KeptInv
  <2>2. datapaths[1] \in ToSet(datapaths)
    BY <2>1, ElementOfSeq DEF ToSet
  <2>3. datapaths[1] \in ToSet(datapaths')
    BY <2>2, NextUp
  <2> QED
    BY <2>3 DEF ToSet
<1>2. ASSUME NEW f \in Flow, NEW r \in Asked(f, "add"),
             \/ rest'[r].pc = "next" /\ rest'[r].seen # <<>>
             \/ rest'[r].pc = "ok",
             \A q \in Asked(f, "delete") : rest'[q].pc = "new"
      PROVE  KeptHere(f)'
  <2>1. \A q \in Asked(f, "delete") : rest[q].pc = "new"
    BY <1>2, RequestsBegin DEF Asked
  <2>2. r \in Request /\ Op[r] = "add"
    BY DEF Asked
  <2>3. ASSUME NEW q \in Request, Serve(q) PROVE KeptHere(f)'
    <3>1. \/ SendRequest(r)
          \/ rest[r].pc = "next" /\ rest[r].seen # <<>>
          \/ rest[r].pc = "ok"
      BY <1>2, <2>2, OnlyServed, AddedFrom DEF Serve
    <3>2. CASE SendRequest(r)
      BY <2>1, <2>2, <3>2, ServeKeeps DEF Serve
    <3>3. CASE ~ SendRequest(r)
      <4>1. KeptHere(f)
        BY <2>1, <3>1, <3>3 DEF KeptInv
      <4> QED
        BY <2>1, <2>3, <4>1, ServeKeeps
    <3> QED
      BY <3>2, <3>3
  <2>4. CASE ~ \E q \in Request : Serve(q)
    <3>1. KeptHere(f)
      BY <1>2, <2>1, <2>4, OnlyServed DEF KeptInv
    <3>2. CASE UNCHANGED vars
      <4>1. UNCHANGED <<link, table, chan, task>>
        BY <3>2 DEF vars
      <4> QED
        BY <3>1, <4>1, FinalSame DEF KeptHere, FlowIn
    <3>3. CASE \/ \E c \in Conn : LinkStep(c)
               \/ \E c \in Conn, t \in Traffic : DetectPacket(c, t)
               \/ \E c \in Conn, d \in Datagram : RegisterPacket(c, d)
      <4>1. UNCHANGED task
        BY <3>3 DEF LinkStep, Connect, EnterMain, Drop, Notice, ReportDead, ApplyMod,
           DetectPacket, RegisterPacket
      <4> QED
        BY <3>1, <3>3, <4>1, NetworkKeeps DEF KeptHere
    <3> QED
      BY <2>4, <3>1, <3>2, <3>3, LoopKeeps DEF Next
  <2> QED
    BY <2>3, <2>4
<1>3. \A f, op : Asked(f, op)' = Asked(f, op)
  BY DEF Asked
<1> QED
  BY <1>1, <1>2, <1>3 DEF KeptInv

LEMMA InitKeeps == ASSUME InitialSwitch # <<>> PROVE Init => KeptInv
<1> SUFFICES ASSUME Init PROVE KeptInv
  OBVIOUS
<1>1. InitialSwitch \in Seq(Switch) /\ Len(InitialSwitch) \in Nat \ {0}
  BY SwitchAssumption
<1>2. datapaths = [i \in 1..Len(InitialSwitch) |-> <<InitialSwitch[i], 1>>]
  BY DEF Init
<1>3. Len(datapaths) = Len(InitialSwitch)
  BY <1>1, <1>2
<1>4. datapaths # <<>>
  BY <1>1, <1>3
<1> QED
  BY <1>4 DEF KeptInv, Init, Asked

\* As long as no connection is lost and the first function of every service stays
\* registered, and when no row is a part of another and switches accept all of
\* them: a flow that was added and that nobody has asked to delete is somewhere,
\* as detection entries or as its source entry, however often it is detected
\* (README.md:47, sfc_nfv.py:29-68, 276-313).
THEOREM AddedStays ==
    ASSUME InitialSwitch # <<>>, RowsApart, RowsAccepted
    PROVE  Spec /\ []NoneLost /\ []FirstReady => []AddedFlowKept
<1> DEFINE Inv == /\ TypeInv /\ MetInv /\ OneAtATime /\ UpInv /\ EntriesFromRows
                  /\ TurnInv /\ KeptInv
<1>1. Init => Inv
  BY InitType, InitMet, InitOneAtATime, InitUp, InitOwn, InitTurn,
     InitKeeps
<1>2. Inv /\ NoneLost /\ NoneLost' /\ FirstReady /\ [Next]_vars => Inv'
  BY NextType, NextMet, NextOneAtATime, NextUp, NextOwn, NextTurn,
     NextKeeps
<1>3. Inv => AddedFlowKept
  <2> SUFFICES ASSUME Inv, NEW f \in Flow, NEW r \in Asked(f, "add"),
                      rest[r].pc = "ok",
                      \A q \in Asked(f, "delete") : rest[q].pc = "new"
               PROVE  ~ Forgotten(f)
    BY DEF AddedFlowKept
  <2>1. KeptHere(f)
    BY DEF KeptInv
  <2>2. CASE FlowIn(f)
    BY <2>2, FinalParts DEF FlowIn, Forgotten
  <2>3. CASE ~ FlowIn(f)
    BY <2>1, <2>3 DEF KeptHere, Forgotten
  <2> QED
    BY <2>2, <2>3
<1> QED
  BY <1>1, <1>2, <1>3, PTL DEF Spec

(***************************************************************************)
(* A deletion that is answered.                                            *)
(***************************************************************************)

\* While a request runs nothing else of the application does.
LEMMA OnlyOneRuns ==
    ASSUME TypeInv, AtomicInv, [Next]_vars, NEW r \in Request,
           rest[r].pc \in {"next", "send"}
    PROVE  /\ task = NoTask /\ ~ Loop
           /\ \A q \in Request : Serve(q) => q = r
<1>1. running = r /\ r # "loop" /\ r # "none"
  BY RequestAssumption DEF AtomicInv
<1>2. task = NoTask
  BY <1>1 DEF AtomicInv
<1>3. ~ Loop
  BY <1>1 DEF Loop, HandleEvent, RunTask, LoopBlocks, RegisterDatapath,
         UnregisterDatapath, RegisterVnf, StartDefaults, StartDetection,
         SendDefault, DeleteCatching, SendSource, AbandonChain, SkipVnf, SendHop,
         SendEnd, NextEvent, InTurn, InTask, MayRun
<1>4. \A q \in Request : Serve(q) => q = r
  BY <1>1 DEF Serve, StartRequest, NextDatapath, SendRequest, RequestBlocks, MayRun
<1> QED
  BY <1>2, <1>3, <1>4

\* The deletion of a row that has no Ethernet address covers all of its entries.
LEMMA DeletionCovers ==
    ASSUME NoEthernet, NEW f \in Flow, NEW e, OwnEntry(e), e.flow = f, e.table = 0
    PROVE  Covers(DeleteFlowMod(f).entry, e)
<1>1. MiddleFields(f) \subseteq e.match
  BY DefaultFacts, FlowAssumption DEF OwnEntry
<1> QED
  BY <1>1 DEF NoEthernet, Covers, DeleteFlowMod, DelMod

\* Sending a deletion adds nothing.
LEMMA DeletionShrinks ==
    ASSUME TypeOK, OneAtATime, NEW c \in Conn, link[c] \in {"config", "main"},
           NEW mod \in FlowMod, mod.cmd = "delete", Send(c, mod),
           UNCHANGED <<link, table>>
    PROVE  /\ \A s \in Switch : Final(s)' \subseteq Final(s)
           /\ \A e \in Final(Dpid(c))' : ~ Covers(mod.entry, e)
<1>1. Dpid(c) \in Switch
  BY ConnParts
<1> QED
  BY <1>1, FinalSent

\* Every step, and the initial state.
LEMMA NextGone ==
    TypeInv /\ MetInv /\ OneAtATime /\ EntriesFromRows /\ AtomicInv /\ GoneInv
       /\ TurnInv /\ NoEthernet /\ NoneLost /\ NoneLost' /\ [Next]_vars => GoneInv'
<1> SUFFICES ASSUME TypeInv, MetInv, OneAtATime, EntriesFromRows, AtomicInv, GoneInv,
                    TurnInv, NoEthernet, NoneLost, NoneLost', [Next]_vars,
                    NEW r \in Request, Op[r] = "delete",
                    rest'[r].pc \in {"next", "send"},
                    NEW c \in ToSet(rest'[r].seen),
                    \/ rest'[r].pc = "next" \/ rest'[r].step = 2
                    \/ c # Last(rest'[r].seen)
             PROVE  ~ FinalIn(c, {0}, Subject[r])'
  BY DEF GoneInv
<1>1. TypeOK /\ rest \in [Request -> RestState] /\ datapaths \in Seq(Conn)
  BY DEF TypeInv, TypeOK
<1>2. ASSUME \A s \in Switch : Final(s)' \subseteq Final(s), c \in Conn,
             ~ FinalIn(c, {0}, Subject[r])
      PROVE  ~ FinalIn(c, {0}, Subject[r])'
  <2>1. Dpid(c) \in Switch /\ Dpid(c)' = Dpid(c)
    BY <1>2, ConnParts DEF Dpid
  <2> QED
    BY <1>2, <2>1 DEF FinalIn
<1>3. CASE rest'[r] = rest[r]
  <2>1. rest[r].pc \in {"next", "send"} /\ c \in Conn
        /\ ~ FinalIn(c, {0}, Subject[r])
    BY <1>1, <1>3, ElementsOf DEF GoneInv, RestState
  <2>2. \A s \in Switch : Final(s)' \subseteq Final(s)
    <3>1. CASE UNCHANGED <<link, table, chan>>
      BY <3>1, FinalSame
    <3>2. CASE SendRequest(r)
      <4>1. PICK d \in Conn, mod \in FlowMod :
               /\ d \in ToSet(rest[r].seen) /\ Send(d, mod) /\ mod = RequestMod(r)
        BY <3>2, RequestStep
      <4>2. link[d] \in {"config", "main"} /\ UNCHANGED <<link, table>>
        BY <1>1, <3>2, <4>1, MetIsUp, RequestStep DEF MetInv
      <4>3. mod.cmd = "delete"
        BY <4>1 DEF RequestMod, DeleteFlowMod, DeleteSpiMod, DelMod
      <4> QED
        BY <1>1, <4>1, <4>2, <4>3, DeletionShrinks
    <3>3. CASE StartRequest(r) \/ NextDatapath(r) \/ RequestBlocks(r)
      BY <3>1, <3>3 DEF StartRequest, NextDatapath, RequestBlocks, SetRest, network
    <3>4. CASE \/ \E d \in Conn : LinkStep(d)
               \/ \E d \in Conn, t \in Traffic : DetectPacket(d, t)
               \/ \E d \in Conn, x \in Datagram : RegisterPacket(d, x)
      BY <3>4, FinalShrinks
    <3> QED
      BY <2>1, <3>1, <3>2, <3>3, <3>4, OnlyOneRuns DEF Next, Serve, vars
  <2> QED
    BY <1>2, <2>1, <2>2
<1>4. CASE StartRequest(r)
  <2>1. rest'[r].seen = <<>>
    BY <1>4, TurnStep DEF TurnInv, StartRequest
  <2> QED
    BY <2>1 DEF ToSet
<1>5. CASE NextDatapath(r)
  <2>1. PICK i \in Unseen(r) :
           /\ rest[r].pc = "next" /\ rest'[r].pc = "send"
           /\ rest'[r].seen = Append(rest[r].seen, datapaths[i])
           /\ rest'[r].step = rest[r].step
    BY <1>5, TurnStep DEF NextDatapath, StartRequest
  <2>2. rest[r].seen \in Seq(Conn) /\ datapaths[i] \in Conn
    BY <1>1 DEF RestState, Unseen
  <2>3. /\ Last(rest'[r].seen) = datapaths[i]
        /\ ToSet(rest'[r].seen) = ToSet(rest[r].seen) \cup {datapaths[i]}
    BY <2>1, <2>2, ElementsOf DEF Last
  <2>4. c # datapaths[i]
    BY <2>1, <2>3 DEF TurnInv
  <2>5. c \in ToSet(rest[r].seen) /\ c \in Conn
    BY <2>2, <2>3, <2>4, ElementsOf
  <2>6. \A s \in Switch : Final(s)' \subseteq Final(s)
    BY <1>5, FinalSame, TurnStep
  <2> QED
    BY <1>2, <2>1, <2>5, <2>6 DEF GoneInv
<1>6. CASE SendRequest(r)
  <2>1. /\ rest[r].seen \in Seq(Conn) /\ rest[r].seen # <<>>
        /\ rest'[r].seen = rest[r].seen /\ rest[r].pc = "send"
        /\ Subject[r] \in Flow /\ UNCHANGED <<link, table>>
        /\ Last(rest[r].seen) \in Conn /\ Send(Last(rest[r].seen), RequestMod(r))
        /\ Last(rest[r].seen) \in ToSet(rest[r].seen) /\ RequestMod(r) \in FlowMod
        /\ rest[r].step \in 1..2
    BY <1>1, <1>6, RequestStep DEF RestState
  <2>2. PICK d \in Conn, mod \in FlowMod, f \in Flow :
           /\ d = Last(rest[r].seen) /\ Send(d, mod) /\ mod = RequestMod(r)
           /\ f = Subject[r]
    BY <2>1
  <2>3. link[d] \in {"config", "main"}
    BY <1>1, <2>1, <2>2, MetIsUp DEF MetInv
  <2>4. /\ mod.cmd = "delete"
        /\ rest[r].step = 1 => mod = DeleteFlowMod(f)
    BY <2>1, <2>2 DEF RequestMod, DeleteFlowMod, DeleteSpiMod, DelMod
  <2>5. /\ \A s \in Switch : Final(s)' \subseteq Final(s)
        /\ \A e \in Final(Dpid(d))' : ~ Covers(mod.entry, e)
    BY <1>1, <2>1, <2>2, <2>3, <2>4, DeletionShrinks
  <2>6. c \in ToSet(rest[r].seen) /\ c \in Conn
    BY <2>1, ElementsOf
  <2>7. CASE rest[r].step = 2 \/ c # d
    BY <1>2, <2>1, <2>2, <2>5, <2>6, <2>7 DEF GoneInv
  <2>8. CASE rest[r].step = 1 /\ c = d
    <3>1. Dpid(d) \in Switch /\ Dpid(d)' = Dpid(d)
      BY ConnParts DEF Dpid
    <3>2. \A e \in Final(Dpid(d))' : ~ (OwnEntry(e) /\ e.flow = f /\ e.table = 0)
      BY <2>4, <2>5, <2>8, DeletionCovers
    <3>3. \A e \in Final(Dpid(d))' : OwnEntry(e)
      BY <2>5, <3>1, FinalOwn
    <3> QED
      BY <2>2, <2>8, <3>1, <3>2, <3>3 DEF FinalIn
  <2> QED
    BY <2>1, <2>7, <2>8
<1> QED
  BY <1>3, <1>4, <1>5, <1>6, OnlyServed

LEMMA InitGone == Init => GoneInv
BY DEF Init, GoneInv

\* As long as no connection is lost and no queue is full, and when no row has an
\* Ethernet address: when a deletion is answered, nothing of the flow is left or
\* coming in table 0 of a registered switch (sfc_nfv.py:70-110).
THEOREM DeletionAnswered ==
    ASSUME NoEthernet
    PROVE  Spec /\ []Smooth => DeletedIsGone
<1> DEFINE Inv == /\ TypeInv /\ MetInv /\ OneAtATime /\ EntriesFromRows
                  /\ AtomicInv /\ TurnInv /\ GoneInv
<1>1. Init => Inv
  BY InitType, InitMet, InitOneAtATime, InitOwn, InitAtomic, InitTurn, InitGone
<1>2. Inv /\ Smooth /\ Smooth' /\ [Next]_vars => Inv'
  BY NextType, NextMet, NextOneAtATime, NextOwn, NextAtomic, NextTurn, NextGone
     DEF Smooth
<1>3. Inv /\ [Next]_vars =>
         \A r \in Request :
            Op[r] = "delete" /\ Answered(r) /\ ~ Pending(Subject[r]) =>
               \A c \in ToSet(datapaths) : ~ FinalIn(c, {0}, Subject[r])
  <2> SUFFICES ASSUME Inv, [Next]_vars, NEW r \in Request, Op[r] = "delete",
                      Answered(r), NEW c \in ToSet(datapaths)
               PROVE  ~ FinalIn(c, {0}, Subject[r])
    OBVIOUS
  <2>1. rest[r].pc = "next" /\ rest'[r].pc = "ok"
    BY DEF Answered
  <2>2. NextDatapath(r)
    BY <2>1, OnlyServed, RequestStep DEF StartRequest
  <2>3. Unseen(r) = {}
    BY <2>1, <2>2, TurnStep
  <2>4. c \in ToSet(rest[r].seen)
    BY <2>3 DEF Unseen, ToSet
  <2> QED
    BY <2>1, <2>4 DEF GoneInv
<1> QED
  BY <1>1, <1>2, <1>3, PTL DEF Spec, DeletedIsGone

(***************************************************************************)
(* Complete chains: in behaviours in which no connection is lost and no    *)
(* queue is full, and while every function is ready, a flow that has a     *)
(* source entry has the entries of all of its hops.                        *)
(*                                                                         *)
(* The entries of a chain are known by what they match (ChainShape), so    *)
(* that one is only ever replaced by another of its effect (EffectByKey)   *)
(* and deleted by deletions of its own row (ChainDeleted).  They stay      *)
(* until then (NextInPlace), and the handler sends one after the other     *)
(* behind the source entry (ReadyTurn).                                    *)
(***************************************************************************)

\* While the functions of the services are ready, their rows do not change,
LEMMA RowsKept ==
    ASSUME TypeInv, Ready, Ready', [Next]_vars, NEW f \in Flow,
           NEW i \in DOMAIN Path1(f)
    PROVE  Rows(f, i)' = Rows(f, i)
<1>1. CASE RegisterVnf
  <2>1. PICK v, row :
           \/ vnf' = vnf
           \/ /\ ~ \E x \in vnf[v] : x.iftype = row.iftype
              /\ vnf' = [vnf EXCEPT ![v] = @ \cup {row}]
    BY <1>1 DEF RegisterVnf
  <2>2. vnf \in [Vnf -> SUBSET VnfRow]
    BY DEF TypeInv, TypeOK
  <2>3. PICK u \in Vnf : u = Path1(f)[i][1]
    BY ServiceAssumption, PathAssumption, LenProperties, ElementOfSeq DEF Path1
  <2>4. /\ vnf[u] # {} /\ \A x \in vnf[u] : x.iftype = 3
        /\ \A x \in vnf'[u] : x.iftype = 3
    BY <2>3 DEF Ready, Bidirectional, Rows, Path1
  <2>5. ASSUME vnf' # vnf, v = u PROVE FALSE
    <3>1. row \in vnf'[u]
      BY <2>1, <2>2, <2>5
    <3> QED
      BY <2>1, <2>4, <2>5, <3>1
  <2>6. vnf'[u] = vnf[u]
    BY <2>1, <2>2, <2>5
  <2> QED
    BY <2>3, <2>6 DEF Rows, Path1
<1>2. CASE ~ RegisterVnf
  <2>1. UNCHANGED vnf
    BY <1>2
       DEF Next, vars, Loop, HandleEvent, RunTask, LoopBlocks,
           RegisterDatapath, UnregisterDatapath, HandledAtOnce,
           StartDefaults, StartDetection, Begin, SendDefault, DeleteCatching,
           SendSource, AbandonChain, SkipVnf, SendHop, SendEnd, Continue, network,
           Serve, StartRequest, NextDatapath, SendRequest, RequestBlocks, SetRest,
           LinkStep, Connect, EnterMain, Drop, Notice, ReportDead, ApplyMod,
           DetectPacket, RegisterPacket
  <2> QED
    BY <2>1 DEF Rows, Path1
<1> QED
  BY <1>1, <1>2

\* nor do the entries of their chains.
LEMMA ChainKept ==
    ASSUME TypeInv, Ready, Ready', [Next]_vars, NEW f \in Flow,
           NEW i \in DOMAIN Path1(f)
    PROVE  /\ VnfAt(f, i)' = VnfAt(f, i)
           /\ \A k : ChainMod(f, i, k)' = ChainMod(f, i, k)
<1>1. \A j \in DOMAIN Path1(f) : VnfAt(f, j)' = VnfAt(f, j)
  <2> SUFFICES ASSUME NEW j \in DOMAIN Path1(f) PROVE VnfAt(f, j)' = VnfAt(f, j)
    OBVIOUS
  <2>1. Rows(f, j)' = Rows(f, j)
    BY RowsKept
  <2> QED
    BY <2>1 DEF VnfAt
<1>2. /\ Len(Path1(f)) \in Nat \ {0} /\ DOMAIN Path1(f) = 1..Len(Path1(f))
      /\ Path1(f)' = Path1(f)
  BY PathType, ServiceAssumption, PathAssumption, LenProperties DEF Path1, TypeInv
<1>3. CASE i = Len(Path1(f))
  BY <1>1, <1>2, <1>3 DEF ChainMod, EndMod
<1>4. CASE i # Len(Path1(f))
  <2>1. i + 1 \in DOMAIN Path1(f)
    BY <1>2, <1>4
  <2>2. VnfAt(f, i)' = VnfAt(f, i) /\ VnfAt(f, i + 1)' = VnfAt(f, i + 1)
    BY <1>1, <2>1
  <2> QED
    BY <1>2, <1>4, <2>2 DEF ChainMod
<1> QED
  BY <1>1, <1>3, <1>4

\* The three kinds of entries of a chain.
LEMMA ChainShape ==
    ASSUME CountingDown, TypeOK, NEW f \in Flow, NEW i \in DOMAIN Path1(f),
           NEW k \in Turns(f, i), NEW e, e = ChainMod(f, i, k).entry
    PROVE  /\ e.flow = f
           /\ IsProxy(e, f, i, k) \/ IsMiddle(e, f, i, k) \/ IsDecap(e, f, i, k)
<1> DEFINE n == Len(Path1(f))
<1>1. n \in Nat \ {0} /\ i \in 1..n /\ k \in 1..3
  BY PathType, ServiceAssumption, PathAssumption, LenProperties DEF Path1, Turns
<1>2. \A j \in 1..n : Path1(f)[j][2] = n + 1 - j
  BY ServiceAssumption, PathAssumption, LenProperties DEF Path1, CountingDown
<1>3. CASE i = n
  <2>1. e = EndMod(k, f, VnfAt(f, i)).entry /\ k \in 1..2
    BY <1>3 DEF ChainMod, Turns
  <2>2. n - i = 0 /\ n + 1 - i = 1
    BY <1>1, <1>3
  <2>3. CASE k = 1
    BY <1>3, <2>1, <2>2, <2>3 DEF EndMod, AddMod, IsProxy
  <2>4. CASE k = 2
    BY <1>3, <2>1, <2>2, <2>4 DEF EndMod, AddMod, IsDecap
  <2> QED
    BY <2>1, <2>3, <2>4
<1>4. CASE i # n
  <2>1. i + 1 \in 1..n /\ n + 1 - (i + 1) = n - i
    BY <1>1, <1>4
  <2>2. PICK last, si : /\ last = (IF i = 1 THEN n ELSE Path1(f)[i][2])
                        /\ si = Path1(f)[i + 1][2]
    OBVIOUS
  <2>3. last = n + 1 - i /\ si = n - i
    <3>1. si = n - i
      BY <1>2, <2>1, <2>2
    <3>2. Path1(f)[i][2] = n + 1 - i
      BY <1>1, <1>2
    <3>3. i = 1 => n + 1 - i = n
      BY <1>1
    <3> HIDE DEF n
    <3> QED
      BY <2>2, <3>1, <3>2, <3>3
  <2>4. e = HopMod(k, f, last, si, VnfAt(f, i), VnfAt(f, i + 1)).entry
    BY <1>4, <2>2 DEF ChainMod
  <2>5. CASE k = 1
    BY <1>4, <2>3, <2>4, <2>5 DEF HopMod, ProxyMod, AddMod, IsProxy
  <2>6. CASE k = 2
    BY <1>4, <2>3, <2>4, <2>6 DEF HopMod, MiddleMod, AddMod, IsMiddle
  <2>7. CASE k = 3
    BY <1>4, <2>3, <2>4, <2>7 DEF HopMod, DecapMod, AddMod, IsDecap
  <2> QED
    BY <1>1, <2>5, <2>6, <2>7
<1> QED
  BY <1>3, <1>4

\* Flows of one service differ only in their middle entries.
LEMMA ServiceShared ==
    ASSUME NEW f \in Flow, NEW g \in Flow, ServiceOf[f] = ServiceOf[g],
           NEW i \in DOMAIN Path1(f), NEW k \in Turns(f, i)
    PROVE  /\ Path1(f) = Path1(g) /\ Turns(f, i) = Turns(g, i)
           /\ ChainMod(f, i, k).entry.actions = ChainMod(g, i, k).entry.actions
           /\ ChainMod(f, i, k).entry.goto = ChainMod(g, i, k).entry.goto
<1>1. Path1(f) = Path1(g)
  BY DEF Path1
<1>2. \A j : VnfAt(f, j) = VnfAt(g, j)
  BY <1>1 DEF VnfAt, Rows
<1>3. Turns(f, i) = Turns(g, i)
  BY <1>1 DEF Turns
<1>4. CASE i = Len(Path1(f))
  <2>1. k = 1 \/ k = 2
    BY <1>4 DEF Turns
  <2> QED
    BY <1>1, <1>2, <1>3, <1>4, <2>1 DEF ChainMod, EndMod, AddMod
<1>5. CASE i # Len(Path1(f))
  <2>1. PICK last, si, v, w :
           /\ ChainMod(f, i, k) = HopMod(k, f, last, si, v, w)
           /\ ChainMod(g, i, k) = HopMod(k, g, last, si, v, w)
    BY <1>1, <1>2, <1>5 DEF ChainMod
  <2>2. k = 1 \/ k = 2 \/ k = 3
    BY <1>5 DEF Turns
  <2>3. /\ HopMod(k, f, last, si, v, w).entry.actions
              = HopMod(k, g, last, si, v, w).entry.actions
        /\ HopMod(k, f, last, si, v, w).entry.goto
              = HopMod(k, g, last, si, v, w).entry.goto
    BY <2>2 DEF HopMod, ProxyMod, MiddleMod, DecapMod, AddMod
  <2> QED
    BY <1>1, <1>3, <2>1, <2>3
<1> QED
  BY <1>4, <1>5

\* Path id and index can be read off a match.
LEMMA NshHeaders ==
    ASSUME NEW sid, NEW si, NEW dst
    PROVE  \A h : h \in NshMatch(sid, si) \cup {<<"eth_dst", dst>>} =>
              /\ h[1] = "nsh_spi" => h[2] = sid
              /\ h[1] = "nsh_si" => h[2] = si
BY DEF NshMatch

LEMMA ProxyFields ==
    ASSUME NEW f, NEW g, NEW i, NEW j, NEW k, NEW l, NEW e, NEW x,
           e.match = x.match, IsProxy(e, f, i, k), IsProxy(x, g, j, l)
    PROVE  /\ ServiceOf[f] = ServiceOf[g]
           /\ Len(Path1(f)) - i = Len(Path1(g)) - j
<1>1. /\ <<"nsh_spi", ServiceOf[f]>> \in x.match
      /\ <<"nsh_si", Len(Path1(f)) - i>> \in x.match
  BY DEF IsProxy, NshMatch
<1>2. PICK sid, si : sid = ServiceOf[g] /\ si = Len(Path1(g)) - j
  OBVIOUS
<1>3. \A h \in x.match : /\ h[1] = "nsh_spi" => h[2] = sid
                         /\ h[1] = "nsh_si" => h[2] = si
  <2>1. PICK dst : x.match \subseteq NshMatch(sid, si) \cup {<<"eth_dst", dst>>}
    BY <1>2 DEF IsProxy
  <2> QED
    BY <2>1, NshHeaders
<1> QED
  BY <1>1, <1>2, <1>3

LEMMA DecapFields ==
    ASSUME NEW f, NEW g, NEW i, NEW j, NEW k, NEW l, NEW e, NEW x,
           e.match = x.match, IsDecap(e, f, i, k), IsDecap(x, g, j, l)
    PROVE  /\ ServiceOf[f] = ServiceOf[g]
           /\ Len(Path1(f)) + 1 - i = Len(Path1(g)) + 1 - j
<1>1. /\ <<"nsh_spi", ServiceOf[f]>> \in x.match
      /\ <<"nsh_si", Len(Path1(f)) + 1 - i>> \in x.match
  BY DEF IsDecap, NshMatch
<1>2. PICK sid, si : sid = ServiceOf[g] /\ si = Len(Path1(g)) + 1 - j
  OBVIOUS
<1>3. \A h \in x.match : /\ h[1] = "nsh_spi" => h[2] = sid
                         /\ h[1] = "nsh_si" => h[2] = si
  <2>1. PICK dst : x.match \subseteq NshMatch(sid, si) \cup {<<"eth_dst", dst>>}
    BY <1>2 DEF IsDecap
  <2> QED
    BY <2>1, NshHeaders
<1> QED
  BY <1>1, <1>2, <1>3

\* Two entries of chains that would replace each other on a switch do the same:
\* two flows of one service share the entries of table 1, and the middle entries
\* of one flow stand on ports of their own.
LEMMA EffectByKey ==
    ASSUME CountingDown, RowsApart, Ready, TypeOK, NEW f \in Flow, NEW g \in Flow,
           NEW i \in DOMAIN Path1(f), NEW j \in DOMAIN Path1(g),
           NEW k \in Turns(f, i), NEW l \in Turns(g, j),
           VnfAt(f, i).dpid = VnfAt(g, j).dpid,
           NEW e, e = ChainMod(f, i, k).entry, NEW x, x = ChainMod(g, j, l).entry,
           e.table = x.table, e.priority = x.priority, e.match = x.match
    PROVE  SameEffect(e, x)
<1>1. /\ Len(Path1(f)) \in Nat /\ i \in 1..Len(Path1(f))
      /\ Len(Path1(g)) \in Nat /\ j \in 1..Len(Path1(g))
  BY PathType, ServiceAssumption, PathAssumption, LenProperties DEF Path1
<1>2. ASSUME ServiceOf[f] = ServiceOf[g], i = j, k = l PROVE SameEffect(e, x)
  BY <1>2, ServiceShared DEF SameEffect
<1>3. IsProxy(e, f, i, k) \/ IsMiddle(e, f, i, k) \/ IsDecap(e, f, i, k)
  BY ChainShape
<1>4. IsProxy(x, g, j, l) \/ IsMiddle(x, g, j, l) \/ IsDecap(x, g, j, l)
  BY ChainShape
<1>5. ASSUME ServiceOf[f] = ServiceOf[g],
             \/ Len(Path1(f)) - i = Len(Path1(g)) - j
             \/ Len(Path1(f)) + 1 - i = Len(Path1(g)) + 1 - j
      PROVE  Path1(f) = Path1(g) /\ i = j
  BY <1>1, <1>5 DEF Path1
<1>6. CASE IsProxy(e, f, i, k)
  <2>1. IsProxy(x, g, j, l)
    BY <1>4, <1>6 DEF IsProxy, IsMiddle, IsDecap
  <2>2. k = 1 /\ l = 1
    BY <1>6, <2>1 DEF IsProxy
  <2>3. ServiceOf[f] = ServiceOf[g] /\ Len(Path1(f)) - i = Len(Path1(g)) - j
    BY <1>6, <2>1, ProxyFields
  <2>4. i = j
    BY <1>5, <2>3
  <2> QED
    BY <1>2, <2>2, <2>3, <2>4
<1>7. CASE IsDecap(e, f, i, k)
  <2>1. IsDecap(x, g, j, l)
    BY <1>4, <1>7 DEF IsProxy, IsMiddle, IsDecap
  <2>2. /\ k = (IF i = Len(Path1(f)) THEN 2 ELSE 3)
        /\ l = (IF j = Len(Path1(g)) THEN 2 ELSE 3)
    BY <1>7, <2>1 DEF IsDecap
  <2>3. /\ ServiceOf[f] = ServiceOf[g]
        /\ Len(Path1(f)) + 1 - i = Len(Path1(g)) + 1 - j
    BY <1>7, <2>1, DecapFields
  <2>4. Path1(f) = Path1(g) /\ i = j
    BY <1>5, <2>3
  <2> QED
    BY <1>2, <2>2, <2>3, <2>4
<1>8. CASE IsMiddle(e, f, i, k)
  <2>1. IsMiddle(x, g, j, l)
    BY <1>4, <1>8 DEF IsProxy, IsMiddle, IsDecap
  <2>2. PICK p, q :
           /\ p = VnfAt(f, i).in_port /\ q = VnfAt(g, j).in_port
           /\ MiddleFields(f) \cup {<<"in_port", p>>}
                 = MiddleFields(g) \cup {<<"in_port", q>>}
    BY <1>8, <2>1 DEF IsMiddle
  <2>3. /\ \A h \in MiddleFields(f) : h[1] # "in_port"
        /\ \A h \in MiddleFields(g) : h[1] # "in_port"
    BY FlowHeaders DEF Column
  <2>4. ASSUME NEW h \in MiddleFields(f) PROVE h \in MiddleFields(g)
    <3>1. h \in MiddleFields(g) \cup {<<"in_port", q>>} /\ h[1] # "in_port"
      BY <2>2, <2>3
    <3> QED
      BY <3>1
  <2>5. f = g
    BY <2>4 DEF RowsApart
  <2>6. p = q
    <3>1. <<"in_port", p>> \in MiddleFields(g) \cup {<<"in_port", q>>}
      BY <2>2
    <3>2. <<"in_port", p>> \notin MiddleFields(g)
      <4>1. <<"in_port", p>>[1] = "in_port"
        OBVIOUS
      <4> QED
        BY <2>3, <4>1
    <3> QED
      BY <3>1, <3>2
  <2>7. i = j
    BY <2>2, <2>5, <2>6 DEF Ready
  <2>8. k = 2 /\ l = 2
    BY <1>8, <2>1 DEF IsMiddle
  <2> QED
    BY <1>2, <2>5, <2>7, <2>8
<1> QED
  BY <1>3, <1>6, <1>7, <1>8

\* Switches accept the entries of a chain,
LEMMA ChainAccepted ==
    ASSUME CountingDown, RowsAccepted, TypeOK, NEW f \in Flow,
           NEW i \in DOMAIN Path1(f), NEW k \in Turns(f, i)
    PROVE  PrereqOK(ChainMod(f, i, k).entry.match)
<1> DEFINE e == ChainMod(f, i, k).entry
<1>0. IsProxy(e, f, i, k) \/ IsMiddle(e, f, i, k) \/ IsDecap(e, f, i, k)
  BY ChainShape
<1>1. CASE IsMiddle(e, f, i, k)
  <2>1. e.match = MiddleFields(f) \cup {<<"in_port", VnfAt(f, i).in_port>>}
    BY <1>1 DEF IsMiddle
  <2>2. /\ PrereqOK(FlowMatch(f)) /\ MiddleFields(f) \subseteq FlowMatch(f)
        /\ \A h \in FlowMatch(f) :
              h[1] \notin {"eth_src", "eth_dst"} => h \in MiddleFields(f)
    BY FlowHeaders DEF RowsAccepted
  <2> HIDE DEF e
  <2>3. /\ \A m : m \in Fields(e.match) => m \in Fields(FlowMatch(f)) \/ m = "in_port"
        /\ \A h \in FlowMatch(f) :
              h[1] \notin {"eth_src", "eth_dst"} => h \in e.match
    BY <2>1, <2>2 DEF Fields
  <2>4. /\ <<"eth_type", IPv4>> \in FlowMatch(f) => <<"eth_type", IPv4>> \in e.match
        /\ <<"eth_type", IPv6>> \in FlowMatch(f) => <<"eth_type", IPv6>> \in e.match
        /\ <<"ip_proto", TCP>> \in FlowMatch(f) => <<"ip_proto", TCP>> \in e.match
        /\ <<"ip_proto", UDP>> \in FlowMatch(f) => <<"ip_proto", UDP>> \in e.match
    BY <2>3
  <2> QED
    BY <2>2, <2>3, <2>4 DEF PrereqOK, e
<1>2. CASE IsProxy(e, f, i, k) \/ IsDecap(e, f, i, k)
  <2>1. PICK si, adr : \/ e.match = NshMatch(ServiceOf[f], si)
                       \/ e.match = NshMatch(ServiceOf[f], si) \cup {<<"eth_dst", adr>>}
    BY <1>2 DEF IsProxy, IsDecap
  <2>2. Fields(e.match) \subseteq {"eth_type", "nsh_spi", "nsh_si", "eth_dst"}
    BY <2>1 DEF Fields, NshMatch
  <2> HIDE DEF e
  <2>3. PrereqOK(e.match)
    BY <2>2 DEF PrereqOK
  <2> QED
    BY <2>3 DEF e
<1> QED
  BY <1>0, <1>1, <1>2

\* and only a deletion of their own row covers them.
LEMMA ChainDeleted ==
    ASSUME CountingDown, RowsApart, TypeOK, NEW f \in Flow,
           NEW i \in DOMAIN Path1(f), NEW k \in Turns(f, i),
           NEW x, SameEffect(ChainMod(f, i, k).entry, x),
           NEW d, OwnDeletion(d), Covers(d, x)
    PROVE  d.flow = f
<1>1. x.table = 0 /\ d.match \subseteq x.match /\ d.flow \in Flow
  BY DEF Covers, OwnDeletion
<1>2. x.match = MiddleFields(f) \cup {<<"in_port", VnfAt(f, i).in_port>>}
  BY <1>1, ChainShape DEF SameEffect, IsProxy, IsMiddle, IsDecap
<1>3. /\ \A h \in MiddleFields(f) : h[1] \in Column
      /\ MiddleFields(d.flow) \subseteq FlowMatch(d.flow)
      /\ \A h \in FlowMatch(d.flow) : h[1] \in Column
  BY <1>1, FlowHeaders
<1>4. ~ ("nsh_spi" \in Fields(d.match))
  BY <1>1, <1>2, <1>3 DEF Fields, Column
<1>5. d.match = FlowMatch(d.flow)
  BY <1>4 DEF OwnDeletion
<1>6. "in_port" \notin Column
  BY DEF Column
<1>7. MiddleFields(d.flow) \subseteq MiddleFields(f)
  BY <1>1, <1>2, <1>3, <1>5, <1>6
<1> QED
  BY <1>1, <1>7 DEF RowsApart

\* An entry of a chain is one of those that make it up.
LEMMA ChainIs ==
    ASSUME NEW f \in Flow, NEW i \in DOMAIN Path1(f), NEW k \in Turns(f, i)
    PROVE  ChainEntry(ChainMod(f, i, k).entry, f)
<1>1. CASE i = Len(Path1(f))
  BY <1>1, ChainEntries DEF ChainMod, Turns
<1>2. CASE i # Len(Path1(f))
  BY <1>2, ChainEntries DEF ChainMod, Turns
<1> QED
  BY <1>1, <1>2

\* While all functions are ready, a turn of the handler sends the next entry of
\* the chain to the switch of its function, and goes on to the one after it.
LEMMA ReadyTurn ==
    ASSUME TypeInv, Ready, task.cur = task.pos, NEW f, NEW i, NEW k,
           f = task.flow, i = task.pos, k = task.step,
           AbandonChain \/ SkipVnf \/ SendHop \/ SendEnd
    PROVE  /\ task # NoTask /\ task.pc = "chain" /\ f \in Flow
           /\ i \in DOMAIN Path1(f) /\ k \in Turns(f, i)
           /\ ChainMod(f, i, k) \in FlowMod /\ ChainMod(f, i, k).cmd = "add"
           /\ \E d \in Conn : /\ d \in ToSet(datapaths)
                              /\ Dpid(d) = VnfAt(f, i).dpid
                              /\ Send(d, ChainMod(f, i, k))
           /\ \/ task' = NoTask /\ i = Len(Path1(f)) /\ k = 2
              \/ /\ task' # NoTask /\ task'.pc = "chain" /\ task'.flow = f
                 /\ task'.cur = task'.pos
                 /\ \/ task'.pos = i /\ task'.step = k + 1
                    \/ /\ task'.pos = i + 1 /\ task'.step = 1 /\ k = 3
                       /\ i # Len(Path1(f))
<1> DEFINE n == Len(Path1(f))
<1>1. InTask("chain")
  BY DEF AbandonChain, SkipVnf, SendHop, SendEnd, InTurn
<1>2. /\ task \in Task /\ task.pc = "chain" /\ task.pc # "defaults"
      /\ task # NoTask /\ f \in Flow
      /\ TaskOK(task) /\ i \in Nat /\ k \in 1..3
      /\ n \in Nat \ {0} /\ Bidirectional(f, i) => VnfAt(f, i) \in VnfRow
  BY <1>1, PacketTask, PacketTaskType
<1>3. i \in 1..n /\ DOMAIN Path1(f) = 1..n
  BY <1>2, ServiceAssumption, PathAssumption, LenProperties DEF TaskOK, Path1
<1>4. /\ \A j \in 1..n : Bidirectional(f, j)
      /\ Registered(VnfAt(f, i).dpid) # {}
  BY <1>2, <1>3 DEF Ready
<1>5. /\ CurVnf = VnfAt(f, i) /\ (AtEnd <=> i = n)
      /\ VnfAt(f, i) \in VnfRow
  BY <1>2, <1>3, <1>4 DEF CurVnf, AtEnd
<1>6. ~ AtEnd => NextRows # {} /\ NextBidirectional /\ i + 1 \in 1..n
  BY <1>3, <1>4, <1>5 DEF NextRows, NextBidirectional, Bidirectional
<1>7. SendHop \/ SendEnd
  BY <1>4, <1>5, <1>6 DEF AbandonChain, SkipVnf
<1>8. \A d \in Registered(VnfAt(f, i).dpid) :
         d \in ToSet(datapaths) /\ d \in Conn /\ Dpid(d) = VnfAt(f, i).dpid
  BY DEF Registered, ToSet, TypeInv, TypeOK
<1>9. CASE SendHop
  <2>1. ~ AtEnd /\ i # n /\ k \in Turns(f, i)
    BY <1>2, <1>5, <1>9 DEF SendHop, Turns
  <2>2. ChainMod(f, i, k) =
           HopMod(task.step, task.flow, LastSi, Index(task.pos + 1), CurVnf, NextVnf)
    BY <1>5, <2>1 DEF ChainMod, LastSi, Index, NextVnf
  <2>3. PICK d \in Registered(VnfAt(f, i).dpid) : Send(d, ChainMod(f, i, k))
    BY <1>5, <1>9, <2>2 DEF SendHop
  <2>4. ChainMod(f, i, k) \in FlowMod
    BY <1>1, <1>2, <1>5, <1>6, <2>1, <2>2, IndexType, ChainModType
  <2>5. ChainMod(f, i, k).cmd = "add"
    BY <1>2, <2>2, ChainEntries
  <2>6. CASE k < 3
    <3>1. task' = [task EXCEPT !.step = k + 1]
      BY <1>9, <2>6 DEF SendHop, Continue
    <3>2. [task EXCEPT !.step = k + 1] \in Task
      <4>1. \A step \in 1..3 : [task EXCEPT !.step = step] \in Task
        BY <1>2, PacketTaskType
      <4>2. k + 1 \in 1..3
        BY <1>2, <2>6
      <4> QED
        BY <4>1, <4>2
    <3>3. /\ task' # NoTask /\ task'.pc = "chain" /\ task'.flow = f
          /\ task'.cur = task'.pos /\ task'.pos = i /\ task'.step = k + 1
      BY <1>2, <3>1, <3>2, TaskAssumption DEF Task
    <3> QED
      BY <1>2, <1>3, <1>8, <2>1, <2>3, <2>4, <2>5, <3>3
  <2>7. CASE ~ (k < 3)
    <3>1. k = 3
      BY <1>2, <2>7
    <3>2. task' = [task EXCEPT !.step = 1, !.pos = i + 1, !.cur = i + 1]
      BY <1>2, <1>9, <2>7 DEF SendHop, Continue, Task
    <3>3. [task EXCEPT !.step = 1, !.pos = i + 1, !.cur = i + 1] \in Task
      <4>1. \A pos, cur \in Nat :
               [task EXCEPT !.step = 1, !.pos = pos, !.cur = cur] \in Task
        BY <1>2, PacketTaskType
      <4>2. i + 1 \in Nat
        BY <1>2
      <4> QED
        BY <4>1, <4>2
    <3>4. /\ task' # NoTask /\ task'.pc = "chain" /\ task'.flow = f
          /\ task'.cur = task'.pos /\ task'.pos = i + 1 /\ task'.step = 1
      BY <1>2, <3>2, <3>3, TaskAssumption DEF Task
    <3> QED
      BY <1>2, <1>3, <1>8, <2>1, <2>3, <2>4, <2>5, <3>1, <3>4
  <2> QED
    BY <2>6, <2>7
<1>10. CASE SendEnd
  <2>1. AtEnd /\ i = n
    BY <1>5, <1>10 DEF SendEnd
  <2>2. k \in 1..2 /\ Turns(f, i) = 1..2
    BY <1>2, <2>1 DEF TaskOK, Turns
  <2>3. ChainMod(f, i, k) = EndMod(task.step, task.flow, CurVnf)
    BY <1>5, <2>1 DEF ChainMod
  <2>4. PICK d \in Registered(VnfAt(f, i).dpid) : Send(d, ChainMod(f, i, k))
    BY <1>5, <1>10, <2>3 DEF SendEnd
  <2>5. ChainMod(f, i, k) \in FlowMod
    BY <1>2, <1>5, <2>2, <2>3, ValueAssumption, ChainModType
  <2>6. ChainMod(f, i, k).cmd = "add"
    BY <1>2, <2>2, <2>3, ChainEntries
  <2>7. CASE k < 2
    <3>1. k = 1 /\ task' = [task EXCEPT !.step = k + 1]
      BY <1>10, <2>2, <2>7 DEF SendEnd, Continue
    <3>2. [task EXCEPT !.step = k + 1] \in Task
      <4>1. \A step \in 1..3 : [task EXCEPT !.step = step] \in Task
        BY <1>2, PacketTaskType
      <4>2. k + 1 \in 1..3
        BY <1>2, <2>7
      <4> QED
        BY <4>1, <4>2
    <3>3. /\ task' # NoTask /\ task'.pc = "chain" /\ task'.flow = f
          /\ task'.cur = task'.pos /\ task'.pos = i /\ task'.step = k + 1
      BY <1>2, <3>1, <3>2, TaskAssumption DEF Task
    <3> QED
      BY <1>2, <1>3, <1>8, <2>2, <2>4, <2>5, <2>6, <3>3
  <2>8. CASE ~ (k < 2)
    <3>1. k = 2
      BY <2>2, <2>8
    <3>2. task' = NoTask
      BY <1>10, <2>8 DEF SendEnd, Continue
    <3> QED
      BY <1>2, <1>3, <1>8, <2>1, <2>2, <2>4, <2>5, <2>6, <3>1, <3>2
  <2> QED
    BY <2>7, <2>8
<1> QED
  BY <1>7, <1>9, <1>10

\* The entry of a chain is in place when a table ends up with one of its effect.
LEMMA InPlaceIs ==
    ASSUME TypeInv, Ready, Ready', [Next]_vars, NEW f \in Flow,
           NEW i \in DOMAIN Path1(f), NEW k,
           NEW s, s = VnfAt(f, i).dpid, NEW e, e = ChainMod(f, i, k).entry
    PROVE  /\ InPlace(f, i, k) <=> \E x \in Final(s) : SameEffect(e, x)
           /\ InPlace(f, i, k)' <=> \E x \in Final(s)' : SameEffect(e, x)
<1>1. VnfAt(f, i)' = VnfAt(f, i) /\ ChainMod(f, i, k)' = ChainMod(f, i, k)
  BY ChainKept
<1>2. s = (VnfAt(f, i).dpid)' /\ e = (ChainMod(f, i, k).entry)'
  BY <1>1
<1>3. InPlace(f, i, k) <=> \E x \in Final(s) : SameEffect(e, x)
  BY DEF InPlace
<1>4. InPlace(f, i, k)' <=> \E x \in Final(s)' : SameEffect(e, x)
  BY <1>2 DEF InPlace, SameEffect
<1> QED
  BY <1>3, <1>4

\* Switches keep the chain: they accept its entries, and what replaces one has
\* its effect.
LEMMA NetworkChain ==
    ASSUME TypeInv, MetInv, OneAtATime, EntriesFromRows, CatalogInv, CountingDown,
           RowsApart, RowsAccepted, Ready, Ready', NoneLost', [Next]_vars,
           NEW f \in Flow, NEW i \in DOMAIN Path1(f), NEW k \in Turns(f, i),
           InPlace(f, i, k),
           \/ \E c \in Conn : LinkStep(c)
           \/ \E c \in Conn, t \in Traffic : DetectPacket(c, t)
           \/ \E c \in Conn, d \in Datagram : RegisterPacket(c, d)
    PROVE  InPlace(f, i, k)'
<1>1. TypeOK
  BY DEF TypeInv
<1>2. PICK s, e : s = VnfAt(f, i).dpid /\ e = ChainMod(f, i, k).entry
  OBVIOUS
<1>3. s \in Switch
  <2>1. Bidirectional(f, i) /\ i \in 1..Len(Path1(f))
    BY ServiceAssumption, PathAssumption, LenProperties DEF Ready, Path1
  <2>2. VnfAt(f, i) \in VnfRow
    BY <1>1, <2>1, PathType
  <2> QED
    BY <1>2, <2>2 DEF VnfRow
<1>4. PICK x \in Final(s) : SameEffect(e, x)
  BY <1>2, InPlaceIs
<1>5. ASSUME x \in Final(s)' PROVE InPlace(f, i, k)'
  BY <1>2, <1>4, <1>5, InPlaceIs
<1>6. CASE \A t \in Switch : Final(t)' = Final(t)
  BY <1>3, <1>4, <1>5, <1>6
<1>7. ASSUME NEW c \in Conn, ApplyMod(c) PROVE InPlace(f, i, k)'
  <2>1. CASE s # Dpid(c)
    BY <1>1, <1>3, <1>4, <1>5, <1>7, <2>1, FinalApplied
  <2>2. CASE s = Dpid(c)
    <3>1. PICK m : m = chan[c][1].entry
      OBVIOUS
    <3>2. \/ x \in Final(s)'
          \/ x = m /\ ~ PrereqOK(m.match)
          \/ /\ x.table = m.table /\ x.priority = m.priority /\ x.match = m.match
             /\ m \in Final(s)'
      BY <1>1, <1>3, <1>4, <1>7, <2>2, <3>1, FinalApplied
    <3>3. PrereqOK(x.match)
      BY <1>1, <1>2, <1>4, ChainAccepted DEF SameEffect
    <3>4. ASSUME x.table = m.table, x.priority = m.priority, x.match = m.match,
                 m \in Final(s)'
          PROVE  InPlace(f, i, k)'
      <4>1. m \in Final(s)
        BY <1>1, <1>3, <1>7, <3>4, FinalApplied
      <4>2. /\ e.table = m.table /\ e.priority = m.priority /\ e.match = m.match
            /\ e.priority \in {6, 8} /\ (e.table = 0 => e.priority = 6)
        <5>1. IsProxy(e, f, i, k) \/ IsMiddle(e, f, i, k) \/ IsDecap(e, f, i, k)
          BY <1>1, <1>2, ChainShape
        <5> QED
          BY <1>4, <3>4, <5>1 DEF SameEffect, IsProxy, IsMiddle, IsDecap
      <4>3. m.flow \in Flow
        BY <1>3, <4>1, <4>2, FinalOwn, DefaultFacts DEF OwnEntry
      <4>4. InCatalog(s, m)
        BY <1>3, <4>1, <4>3 DEF CatalogInv
      <4>5. PICK g \in Flow : g = m.flow
        BY <4>3
      <4>6. PICK j \in DOMAIN Path1(g) : \E l \in Turns(g, j) :
               s = VnfAt(g, j).dpid /\ m = ChainMod(g, j, l).entry
        BY <4>2, <4>4, <4>5 DEF InCatalog
      <4>7. PICK l \in Turns(g, j) :
               s = VnfAt(g, j).dpid /\ m = ChainMod(g, j, l).entry
        BY <4>6
      <4>8. SameEffect(e, m)
        BY <1>1, <1>2, <4>2, <4>7, EffectByKey
      <4> QED
        BY <1>2, <3>4, <4>8, InPlaceIs
    <3> QED
      BY <1>5, <3>2, <3>3, <3>4
  <2> QED
    BY <2>1, <2>2
<1> QED
  BY <1>6, <1>7, FinalShrinks

\* Of what the application sends only deletions of the flow take it away.
LEMMA SendChain ==
    ASSUME TypeInv, OneAtATime, CountingDown, RowsApart, Ready, Ready', [Next]_vars,
           NEW f \in Flow, NEW i \in DOMAIN Path1(f), NEW k \in Turns(f, i),
           InPlace(f, i, k),
           NEW c \in Conn, link[c] \in {"config", "main"}, NEW mod \in FlowMod,
           mod.cmd = "delete" => OwnDeletion(mod.entry) /\ mod.entry.flow # f,
           Send(c, mod), UNCHANGED <<link, table>>
    PROVE  InPlace(f, i, k)'
<1>1. TypeOK
  BY DEF TypeInv
<1>2. PICK s, e : s = VnfAt(f, i).dpid /\ e = ChainMod(f, i, k).entry
  OBVIOUS
<1>3. s \in Switch
  <2>1. Bidirectional(f, i) /\ i \in 1..Len(Path1(f))
    BY ServiceAssumption, PathAssumption, LenProperties DEF Ready, Path1
  <2>2. VnfAt(f, i) \in VnfRow
    BY <1>1, <2>1, PathType
  <2> QED
    BY <1>2, <2>2 DEF VnfRow
<1>4. PICK x \in Final(s) : SameEffect(e, x)
  BY <1>2, InPlaceIs
<1>5. mod.cmd = "delete" => ~ Covers(mod.entry, x)
  BY <1>1, <1>2, <1>4, ChainDeleted
<1>6. x \in Final(s)'
  BY <1>1, <1>3, <1>4, <1>5, FinalSent
<1> QED
  BY <1>2, <1>4, <1>6, InPlaceIs

\* What the application sends is one of a few things, to a connection that is up.
LEMMA AppSends ==
    ASSUME TypeInv, MetInv, NoneLost, EntriesFromRows', Ready, ChainInv,
           Loop \/ \E r \in Request : Serve(r)
    PROVE  /\ UNCHANGED <<link, table>>
           /\ \/ chan' = chan
              \/ \E c \in Conn, mod \in FlowMod :
                    /\ link[c] \in {"config", "main"} /\ Send(c, mod)
                    /\ SentTo(c, mod)
<1>1. TypeOK
  BY DEF TypeInv
<1>2. ASSUME NEW c \in Conn, NEW mod, Met(c), Send(c, mod)
      PROVE  link[c] \in {"config", "main"} /\ OwnMod(mod)
  <2>1. link[c] \in {"config", "main"} /\ ~ Ended(c)
    BY <1>1, <1>2, MetIsUp
  <2>2. PICK j \in DOMAIN chan'[c] : chan'[c][j] = mod
    BY <1>1, <1>2, <2>1, SentOn
  <2> QED
    BY <2>1, <2>2 DEF EntriesFromRows, SentOwn, OwnMod, OwnEntry, OwnDeletion,
                      FlowMatch, MiddleFields, EthType, IpProto, Translatable,
                      DefaultEntries
<1>3. CASE SendDefault
  <2>1. /\ Send(task.conn, DefaultMods[task.step]) /\ task.conn \in Conn
        /\ task.step \in 1..6 /\ DefaultMods[task.step] \in FlowMod
        /\ task # NoTask /\ UNCHANGED <<link, table>>
    BY <1>3, DefaultStep
  <2>2. link[task.conn] \in {"config", "main"}
    BY <1>2, <2>1 DEF MetInv, MetTask
  <2>3. /\ DefaultMods[task.step].cmd = "add"
        /\ DefaultMods[task.step].entry \in DefaultEntries
    BY <2>1, DefaultFacts DEF DefaultEntries
  <2> QED
    BY <2>1, <2>2, <2>3 DEF SentTo
<1>4. CASE DeleteCatching
  <2>1. /\ task # NoTask /\ task.pc = "delete" /\ task.flow \in Flow
        /\ task.todo \in Seq(Conn) /\ task.todo # <<>> /\ Head(task.todo) \in Conn
        /\ Send(Head(task.todo), DeleteFlowMod(task.flow))
        /\ UNCHANGED <<link, table>>
    BY <1>4, DeleteStep
  <2>2. Head(task.todo) \in ToSet(task.todo)
    BY <2>1, ElementsOf
  <2>3. PICK mod \in FlowMod :
           mod = DeleteFlowMod(task.flow) /\ mod.cmd = "delete"
           /\ mod.entry.flow = task.flow
    BY <2>1, RequestModTypes DEF DeleteFlowMod, DelMod
  <2>4. link[Head(task.todo)] \in {"config", "main"} /\ OwnMod(mod)
    BY <1>2, <2>1, <2>2, <2>3 DEF MetInv, MetTask
  <2> QED
    BY <1>4, <2>1, <2>3, <2>4 DEF SentTo, OwnMod
<1>5. CASE SendSource
  <2>1. /\ task.flow \in Flow /\ task.conn \in Conn /\ task # NoTask
        /\ task.port \in Port /\ VnfAt(task.flow, 1) \in VnfRow
        /\ Send(task.conn, SourceMod(task.flow, task.port, VnfAt(task.flow, 1)))
        /\ UNCHANGED <<link, table>>
    BY <1>5, SourceStep
  <2>2. PICK mod \in FlowMod :
           /\ mod = SourceMod(task.flow, task.port, VnfAt(task.flow, 1))
           /\ mod.cmd = "add" /\ mod.entry.table = 0 /\ mod.entry.priority = 8
           /\ mod.entry.flow = task.flow
    BY <2>1, SourceModType DEF SourceMod, AddMod
  <2>3. link[task.conn] \in {"config", "main"}
    BY <1>2, <2>1 DEF MetInv, MetTask
  <2> QED
    BY <1>5, <2>1, <2>2, <2>3 DEF SentTo, IsSource
<1>6. CASE AbandonChain \/ SkipVnf \/ SendHop \/ SendEnd
  <2>1. task # NoTask /\ task.pc = "chain" /\ UNCHANGED <<link, table>>
    BY <1>6, ChainStep
  <2>2. PICK f, i, k : f = task.flow /\ i = task.pos /\ k = task.step
    OBVIOUS
  <2>3. /\ ChainMod(f, i, k) \in FlowMod /\ ChainMod(f, i, k).cmd = "add"
        /\ \E d \in Conn : /\ d \in ToSet(datapaths)
                           /\ Dpid(d) = VnfAt(f, i).dpid
                           /\ Send(d, ChainMod(f, i, k))
    BY <1>6, <2>1, <2>2, ReadyTurn DEF ChainInv
  <2>4. PICK d \in Conn : /\ d \in ToSet(datapaths)
                          /\ Dpid(d) = VnfAt(f, i).dpid
                          /\ Send(d, ChainMod(f, i, k))
    BY <2>3
  <2>5. link[d] \in {"config", "main"}
    BY <1>2, <2>4 DEF MetInv
  <2> QED
    BY <1>6, <2>1, <2>2, <2>3, <2>4, <2>5 DEF SentTo
<1>7. ASSUME NEW r \in Request, SendRequest(r)
      PROVE  /\ UNCHANGED <<link, table>>
             /\ \E c \in Conn, mod \in FlowMod :
                    /\ link[c] \in {"config", "main"} /\ Send(c, mod)
                    /\ SentTo(c, mod)
  <2>1. /\ Subject[r] \in Flow /\ RequestMod(r) \in FlowMod
        /\ Last(rest[r].seen) \in Conn
        /\ Last(rest[r].seen) \in ToSet(rest[r].seen)
        /\ Send(Last(rest[r].seen), RequestMod(r)) /\ UNCHANGED <<link, table>>
    BY <1>7, RequestStep
  <2>2. link[Last(rest[r].seen)] \in {"config", "main"} /\ OwnMod(RequestMod(r))
    BY <1>2, <2>1 DEF MetInv
  <2>3. CASE Op[r] = "add"
    <3>1. RequestMod(r) = CatchMod(Subject[r])
      BY <2>3 DEF RequestMod
    <3>2. /\ RequestMod(r).cmd = "add" /\ RequestMod(r).entry.table = 0
          /\ RequestMod(r).entry.priority = 8
      BY <3>1 DEF CatchMod, AddMod
    <3> QED
      BY <2>1, <2>2, <3>1, <3>2, WhatIsSource DEF SentTo
  <2>4. CASE Op[r] # "add"
    <3>1. Op[r] = "delete"
      BY <2>4, RequestAssumption
    <3>2. RequestMod(r).cmd = "delete" /\ RequestMod(r).entry.flow = Subject[r]
      BY <3>1 DEF RequestMod, DeleteFlowMod, DeleteSpiMod, DelMod
    <3> QED
      BY <1>7, <2>1, <2>2, <3>1, <3>2 DEF SentTo, OwnMod
  <2> QED
    BY <2>3, <2>4
<1>8. CASE /\ ~ (SendDefault \/ DeleteCatching \/ SendSource)
           /\ ~ (AbandonChain \/ SkipVnf \/ SendHop \/ SendEnd)
           /\ \A r \in Request : ~ SendRequest(r)
  BY <1>8
     DEF Loop, HandleEvent, RunTask, LoopBlocks, RegisterDatapath,
         UnregisterDatapath, RegisterVnf, HandledAtOnce, StartDefaults,
         StartDetection, Begin, network, Serve, StartRequest, NextDatapath,
         RequestBlocks, SetRest
<1> QED
  BY <1>3, <1>4, <1>5, <1>6, <1>7, <1>8

\* Everything that will be in a table was, or has just been sent.
LEMMA NextCatalog ==
    ASSUME TypeInv, MetInv, OneAtATime, EntriesFromRows, CatalogInv, ChainInv,
           NoneLost, NoneLost', Ready, Ready', [Next]_vars
    PROVE  CatalogInv'
<1>1. TypeOK /\ EntriesFromRows'
  BY NextOwn DEF TypeInv
<1>2. ASSUME NEW s, NEW e, e.flow \in Flow, InCatalog(s, e)
      PROVE  InCatalog(s, e)'
  <2>1. PICK f \in Flow : f = e.flow
    BY <1>2
  <2>2. CASE e.table = 0 /\ e.priority = 8
    BY <2>2 DEF InCatalog
  <2>3. CASE ~ (e.table = 0 /\ e.priority = 8)
    <3>1. PICK i \in DOMAIN Path1(f) : \E k \in Turns(f, i) :
             s = VnfAt(f, i).dpid /\ e = ChainMod(f, i, k).entry
      BY <1>2, <2>1, <2>3 DEF InCatalog
    <3>2. PICK k \in Turns(f, i) :
             s = VnfAt(f, i).dpid /\ e = ChainMod(f, i, k).entry
      BY <3>1
    <3>3. /\ s = (VnfAt(f, i).dpid)' /\ e = (ChainMod(f, i, k).entry)'
          /\ Path1(f)' = Path1(f) /\ Turns(f, i)' = Turns(f, i)
      BY <3>2, ChainKept DEF Path1, Turns
    <3> QED
      BY <2>1, <3>3 DEF InCatalog
  <2> QED
    BY <2>2, <2>3
<1>3. CASE \A s \in Switch : Final(s)' \subseteq Final(s)
  BY <1>2, <1>3 DEF CatalogInv
<1>4. ASSUME NEW c \in Conn, NEW mod \in FlowMod, link[c] \in {"config", "main"},
             Send(c, mod), SentTo(c, mod), UNCHANGED <<link, table>>
      PROVE  CatalogInv'
  <2>1. \A s \in Switch : \A e \in Final(s)' :
           e \in Final(s) \/ (s = Dpid(c) /\ mod.cmd = "add" /\ e = mod.entry)
    BY <1>1, <1>4, FinalSent
  <2>2. ASSUME mod.cmd = "add", mod.entry.flow \in Flow
        PROVE  InCatalog(Dpid(c), mod.entry)
    <3>1. CASE mod.entry \in DefaultEntries
      BY <2>2, <3>1, DefaultFacts, FlowAssumption
    <3>2. CASE mod.entry.table = 0 /\ mod.entry.priority = 8
      BY <3>2 DEF InCatalog
    <3>3. CASE /\ AbandonChain \/ SkipVnf \/ SendHop \/ SendEnd
               /\ Dpid(c) = VnfAt(task.flow, task.pos).dpid
               /\ mod = ChainMod(task.flow, task.pos, task.step)
      <4>1. PICK f, i, k : f = task.flow /\ i = task.pos /\ k = task.step
        OBVIOUS
      <4>2. task # NoTask /\ task.pc = "chain"
        BY <3>3, ChainStep
      <4>3. f \in Flow /\ i \in DOMAIN Path1(f) /\ k \in Turns(f, i)
        BY <3>3, <4>1, <4>2, ReadyTurn DEF ChainInv
      <4>4. mod.entry.flow = f
        BY <1>1, <3>3, <4>1, <4>3, ChainIs DEF ChainEntry
      <4> QED
        BY <3>3, <4>1, <4>3, <4>4 DEF InCatalog
    <3> QED
      BY <1>4, <2>2, <3>1, <3>2, <3>3 DEF SentTo
  <2>3. PICK s, e : s = Dpid(c) /\ e = mod.entry
    OBVIOUS
  <2>4. mod.cmd = "add" /\ e.flow \in Flow => InCatalog(s, e)'
    BY <1>2, <2>2, <2>3
  <2>5. \A t \in Switch : \A x \in Final(t) : x.flow \in Flow => InCatalog(t, x)'
    BY <1>2 DEF CatalogInv
  <2> QED
    BY <2>1, <2>3, <2>4, <2>5 DEF CatalogInv
<1>5. CASE UNCHANGED <<link, table, chan>>
  BY <1>3, <1>5, FinalSame
<1>6. CASE Loop \/ \E r \in Request : Serve(r)
  BY <1>1, <1>4, <1>5, <1>6, AppSends
<1>7. CASE \/ \E c \in Conn : LinkStep(c)
           \/ \E c \in Conn, t \in Traffic : DetectPacket(c, t)
           \/ \E c \in Conn, d \in Datagram : RegisterPacket(c, d)
  BY <1>3, <1>7, FinalShrinks
<1> QED
  BY <1>5, <1>6, <1>7 DEF Next, vars

LEMMA InitCatalog == Init => CatalogInv
<1> SUFFICES ASSUME Init, NEW s \in Switch, NEW e \in Final(s), e.flow \in Flow
             PROVE  FALSE
  BY DEF CatalogInv
<1>1. e \in table[s]
  BY DEF Final, Coming, Init, LiveConn
<1>2. e \in DefaultEntries
  BY <1>1 DEF Init
<1> QED
  BY <1>2, DefaultFacts, FlowAssumption

\* While a request iterates over the registry it stays the same, and what a
\* deletion has been through keeps no source entry of its flow.
LEMMA NextEmptied ==
    ASSUME TypeInv, MetInv, OneAtATime, UpInv, SourceInv, AtomicInv, TurnInv,
           EmptiedInv, NoneLost, NoneLost', [Next]_vars
    PROVE  EmptiedInv'
<1> SUFFICES ASSUME NEW r \in Request, rest'[r].pc \in {"next", "send"}
             PROVE  /\ rest'[r].size = Len(datapaths')
                    /\ rest'[r].seen # <<>> => Translatable(Subject[r])
                    /\ Op[r] = "delete" =>
                       \A c \in ToSet(rest'[r].seen) :
                          rest'[r].pc = "next" \/ rest'[r].step = 2
                             \/ c # Last(rest'[r].seen)
                          => \A e \in Final(Dpid(c))' : ~ IsSource(e, Subject[r])
  <2>1. \A c : Dpid(c)' = Dpid(c)
    BY DEF Dpid
  <2> QED
    BY <2>1 DEF EmptiedInv, IsSource, Translatable
<1>1. TypeOK /\ rest \in [Request -> RestState] /\ datapaths \in Seq(Conn)
  BY DEF TypeInv, TypeOK
<1>2. CASE StartRequest(r)
  <2>1. /\ UNCHANGED datapaths /\ rest'[r].size = Len(datapaths)
        /\ rest'[r].seen = <<>>
    BY <1>2, TurnStep DEF TurnInv, NextDatapath, StartRequest
  <2>2. ToSet(rest'[r].seen) = {}
    BY <2>1 DEF ToSet
  <2> QED
    BY <2>1, <2>2
<1>3. CASE ~ StartRequest(r)
  <2>1. rest[r].pc \in {"next", "send"}
    BY <1>3, OnlyServed, TurnStep, RequestStep
  <2>2. /\ rest[r].size = Len(datapaths)
        /\ rest[r].seen # <<>> => Translatable(Subject[r])
        /\ Op[r] = "delete" =>
              \A c \in ToSet(rest[r].seen) :
                 rest[r].pc = "next" \/ rest[r].step = 2 \/ c # Last(rest[r].seen)
                    => \A e \in Final(Dpid(c)) : ~ IsSource(e, Subject[r])
    BY <2>1 DEF EmptiedInv
  <2>3. task = NoTask /\ ~ Loop /\ \A q \in Request : Serve(q) => q = r
    BY <2>1, OnlyOneRuns
  <2>4. UNCHANGED datapaths
    BY <2>3 DEF Next, vars, LinkStep, Connect, EnterMain, Drop, Notice, ReportDead,
       ApplyMod, DetectPacket, RegisterPacket, Serve, StartRequest, NextDatapath,
       SendRequest, RequestBlocks, SetRest
  <2>5. ASSUME NEW c \in ToSet(rest[r].seen), \A s \in Switch : Final(s)' \subseteq Final(s),
               \A e \in Final(Dpid(c)) : ~ IsSource(e, Subject[r])
        PROVE  \A e \in Final(Dpid(c))' : ~ IsSource(e, Subject[r])
    <3>1. c \in Conn
      BY <1>1, <2>5, ElementsOf DEF RestState
    <3>2. Dpid(c) \in Switch /\ Dpid(c)' = Dpid(c)
      BY <3>1, ConnParts DEF Dpid
    <3> QED
      BY <2>5, <3>2
  <2>6. CASE NextDatapath(r)
    <3>1. PICK j \in Unseen(r) :
             /\ rest[r].pc = "next" /\ rest'[r].pc = "send"
             /\ rest'[r].seen = Append(rest[r].seen, datapaths[j])
             /\ rest'[r].step = rest[r].step
             /\ Translatable(Subject[r])
      BY <1>3, <2>6, TurnStep DEF NextDatapath
    <3>2. rest'[r].size = rest[r].size
      BY <1>1, <2>6 DEF NextDatapath, SetRest, RestState
    <3>3. rest[r].seen \in Seq(Conn) /\ datapaths[j] \in Conn
      BY <1>1 DEF RestState, Unseen
    <3>4. /\ Last(rest'[r].seen) = datapaths[j]
          /\ ToSet(rest'[r].seen) = ToSet(rest[r].seen) \cup {datapaths[j]}
      BY <3>1, <3>3, ElementsOf DEF Last
    <3>5. \A s \in Switch : Final(s)' \subseteq Final(s)
      BY <2>6, FinalSame, TurnStep
    <3>6. ASSUME Op[r] = "delete", NEW c \in ToSet(rest'[r].seen),
                 rest'[r].pc = "next" \/ rest'[r].step = 2 \/ c # Last(rest'[r].seen)
          PROVE  \A e \in Final(Dpid(c))' : ~ IsSource(e, Subject[r])
      <4>1. c # datapaths[j]
        BY <3>1, <3>4, <3>6 DEF TurnInv
      <4>2. c \in ToSet(rest[r].seen)
        BY <3>4, <3>6, <4>1
      <4> QED
        BY <2>2, <2>5, <3>1, <3>5, <3>6, <4>2
    <3> QED
      BY <2>2, <2>4, <3>1, <3>2, <3>6
  <2>7. CASE SendRequest(r)
    <3>1. /\ rest[r].seen \in Seq(Conn) /\ rest[r].seen # <<>>
          /\ rest'[r].seen = rest[r].seen /\ rest[r].pc = "send"
          /\ rest'[r].size = rest[r].size
          /\ Subject[r] \in Flow /\ UNCHANGED <<link, table>>
          /\ Last(rest[r].seen) \in Conn /\ Send(Last(rest[r].seen), RequestMod(r))
          /\ Last(rest[r].seen) \in ToSet(rest[r].seen) /\ RequestMod(r) \in FlowMod
          /\ rest[r].step \in 1..2
      BY <1>1, <2>7, RequestStep DEF RestState
    <3>2. ASSUME Op[r] = "delete", NEW c \in ToSet(rest[r].seen)
          PROVE  \A e \in Final(Dpid(c))' : ~ IsSource(e, Subject[r])
      <4>1. PICK d \in Conn, mod \in FlowMod, f \in Flow :
               /\ d = Last(rest[r].seen) /\ Send(d, mod) /\ mod = RequestMod(r)
               /\ f = Subject[r]
        BY <3>1
      <4>2. link[d] \in {"config", "main"}
        BY <1>1, <3>1, <4>1, MetIsUp DEF MetInv
      <4>3. /\ mod.cmd = "delete"
            /\ rest[r].step = 1 => mod = DeleteFlowMod(f)
        BY <3>2, <4>1 DEF RequestMod, DeleteFlowMod, DeleteSpiMod, DelMod
      <4>4. /\ \A s \in Switch : Final(s)' \subseteq Final(s)
            /\ \A e \in Final(Dpid(d))' : ~ Covers(mod.entry, e)
        BY <1>1, <3>1, <4>1, <4>2, <4>3, DeletionShrinks
      <4>5. CASE rest[r].step = 2 \/ c # d
        BY <2>2, <2>5, <3>2, <4>1, <4>4, <4>5
      <4>6. CASE rest[r].step = 1 /\ c = d
        <5>1. mod.entry.table = 0 /\ mod.entry.match = FlowMatch(f)
          BY <4>3, <4>6 DEF DeleteFlowMod, DelMod
        <5>2. Dpid(d) \in Switch
          BY ConnParts
        <5>3. \A e \in Final(Dpid(d)) : IsSource(e, f) =>
                 FlowMatch(f) \subseteq e.match /\ e.table = 0
          BY <5>2 DEF SourceInv, SourceAt, IsSource
        <5>4. \A e \in Final(Dpid(d))' : ~ IsSource(e, f)
          BY <4>4, <5>1, <5>2, <5>3 DEF Covers
        <5> QED
          BY <4>1, <4>6, <5>4
      <4> QED
        BY <3>1, <4>5, <4>6
    <3> QED
      BY <2>2, <2>4, <3>1, <3>2
  <2>8. CASE ~ NextDatapath(r) /\ ~ SendRequest(r)
    <3>1. rest'[r] = rest[r]
      BY <1>3, <2>8, OnlyServed
    <3>2. \A s \in Switch : Final(s)' \subseteq Final(s)
      <4>1. CASE UNCHANGED <<link, table, chan>>
        BY <4>1, FinalSame
      <4>2. CASE RequestBlocks(r)
        BY <4>1, <4>2 DEF RequestBlocks, network
      <4>3. CASE \/ \E d \in Conn : LinkStep(d)
                 \/ \E d \in Conn, t \in Traffic : DetectPacket(d, t)
                 \/ \E d \in Conn, x \in Datagram : RegisterPacket(d, x)
        BY <4>3, FinalShrinks
      <4> QED
        BY <1>3, <2>3, <2>8, <4>1, <4>2, <4>3 DEF Next, Serve, vars
    <3> QED
      BY <2>2, <2>4, <2>5, <3>1, <3>2
  <2> QED
    BY <2>6, <2>7, <2>8
<1> QED
  BY <1>2, <1>3

LEMMA InitEmptied == Init => EmptiedInv
BY DEF Init, EmptiedInv

\* A flow has source entries where it has one.
LEMMA SourcesAre ==
    ASSUME NEW f
    PROVE  /\ Sources(f) = {} <=> \A s, e : ~ SourceAt(s, e, f)
           /\ Sources(f)' = {} <=> \A s, e : ~ SourceAt(s, e, f)'
<1>1. \A x \in Sources(f) : SourceAt(x[1], x[2], f)
  BY DEF Sources, SourceAt
<1>2. \A s, e : SourceAt(s, e, f) => <<s, e>> \in Sources(f)
  BY DEF Sources, SourceAt
<1>3. \A x \in Sources(f)' : SourceAt(x[1], x[2], f)'
  BY DEF Sources, SourceAt
<1>4. \A s, e : SourceAt(s, e, f)' => <<s, e>> \in Sources(f)'
  BY DEF Sources, SourceAt
<1> QED
  BY <1>1, <1>2, <1>3, <1>4

\* The first comes with the source entry the handler sends.
LEMMA NewSource ==
    ASSUME TypeInv, MetInv, OneAtATime, EntriesFromRows, ChainInv, NoneLost,
           NoneLost', Ready, [Next]_vars, NEW f \in Flow, Sources(f) = {},
           Sources(f)' # {}
    PROVE  SendSource /\ task.flow = f
<1>1. TypeOK /\ EntriesFromRows'
  BY NextOwn DEF TypeInv
<1>2. PICK s, e : SourceAt(s, e, f)'
  BY SourcesAre
<1>3. s \in Switch /\ e \in Final(s)' /\ e \notin Final(s) /\ IsSource(e, f)
  BY <1>2, SourcesAre DEF SourceAt, IsSource
<1>4. ~ UNCHANGED <<link, table, chan>>
  BY <1>3, FinalSame
<1>5. CASE \/ \E c \in Conn : LinkStep(c)
           \/ \E c \in Conn, t \in Traffic : DetectPacket(c, t)
           \/ \E c \in Conn, d \in Datagram : RegisterPacket(c, d)
  BY <1>3, <1>5, FinalShrinks
<1>6. CASE Loop \/ \E r \in Request : Serve(r)
  <2>1. UNCHANGED <<link, table>>
    BY <1>1, <1>6, AppSends
  <2>2. PICK c \in Conn, mod \in FlowMod :
           link[c] \in {"config", "main"} /\ Send(c, mod) /\ SentTo(c, mod)
    BY <1>1, <1>4, <1>6, AppSends
  <2>3. mod.cmd = "add" /\ e = mod.entry
    BY <1>1, <1>3, <2>1, <2>2, FinalSent
  <2>4. ~ (mod.entry \in DefaultEntries)
    BY <1>3, <2>3, DefaultFacts, FlowAssumption DEF IsSource
  <2>5. ASSUME AbandonChain \/ SkipVnf \/ SendHop \/ SendEnd,
               mod = ChainMod(task.flow, task.pos, task.step)
        PROVE  FALSE
    <3>1. PICK g, i, k : g = task.flow /\ i = task.pos /\ k = task.step
      OBVIOUS
    <3>2. task # NoTask /\ task.pc = "chain"
      BY <2>5, ChainStep
    <3>3. g \in Flow /\ i \in DOMAIN Path1(g) /\ k \in Turns(g, i)
      BY <2>5, <3>1, <3>2, ReadyTurn DEF ChainInv
    <3>4. ChainEntry(e, g)
      BY <2>3, <2>5, <3>1, <3>3, ChainIs
    <3> QED
      BY <1>3, <3>4, WhatIsSource
  <2> QED
    BY <1>3, <2>2, <2>3, <2>4, <2>5 DEF SentTo
<1> QED
  BY <1>4, <1>5, <1>6 DEF Next, vars

\* Who moves the event loop on.
LEMMA TaskMoves ==
    ASSUME [Next]_vars, task' # task
    PROVE  \/ StartDefaults \/ StartDetection \/ SendDefault \/ DeleteCatching
           \/ SendSource \/ AbandonChain \/ SkipVnf \/ SendHop \/ SendEnd
BY DEF Next, vars, LinkStep, Connect, EnterMain, Drop, Notice, ReportDead,
       ApplyMod, DetectPacket, RegisterPacket, Loop, HandleEvent, RunTask,
       LoopBlocks, RegisterDatapath, UnregisterDatapath, RegisterVnf, HandledAtOnce,
       Serve, StartRequest, NextDatapath, SendRequest, RequestBlocks, SetRest

\* When a flow is no longer being deleted it has no source entry.
LEMMA DeletingEnds ==
    ASSUME TypeInv, SourceInv, SourceInv', EmptiedInv, Ready, [Next]_vars,
           NEW f \in Flow, Deleting(f), ~ Deleting(f)'
    PROVE  Sources(f)' = {}
<1>1. TypeOK /\ rest \in [Request -> RestState] /\ datapaths \in Seq(Conn)
  BY DEF TypeInv, TypeOK
<1>2. CASE task # NoTask /\ task.pc = "delete" /\ task.flow = f
  <2>1. task' # task
    BY <1>2 DEF Deleting
  <2>2. DeleteCatching
    BY <1>2, <2>1, TaskMoves
       DEF StartDefaults, StartDetection, SendDefault, SendSource, AbandonChain,
           SkipVnf, SendHop, SendEnd, NextEvent, InTurn, InTask
  <2>3. 1 \in DOMAIN Path1(f)
    BY <1>1, PathType, ServiceAssumption, PathAssumption, LenProperties DEF Path1
  <2>4. Bidirectional(f, 1)
    BY <2>3 DEF Ready
  <2>5. task' # NoTask /\ task'.flow = f /\ task'.pc = "source"
    BY <1>2, <2>2, <2>4, DeleteStep DEF Deleting
  <2>6. \A s, e : ~ SourceAt(s, e, f)'
    BY <2>5 DEF SourceInv
  <2> QED
    BY <2>6, SourcesAre
<1>3. ASSUME NEW r \in Asked(f, "delete"), rest[r].pc \in {"next", "send"},
             rest[r].seen # <<>>
      PROVE  Sources(f)' = {}
  <2>1. r \in Request /\ Op[r] = "delete" /\ Subject[r] = f /\ r \in Asked(f, "delete")'
    BY DEF Asked
  <2>2. ~ (rest'[r].pc \in {"next", "send"} /\ rest'[r].seen # <<>>)
    BY <2>1 DEF Deleting
  <2>3. NextDatapath(r)
    BY <1>3, <2>1, <2>2, OnlyServed, RequestStep DEF StartRequest
  <2>4. rest[r].pc = "next" /\ rest[r].size = Len(datapaths) /\ Translatable(f)
    BY <1>3, <2>1, <2>3 DEF EmptiedInv, NextDatapath
  <2>5. rest[r].seen \in Seq(Conn)
    BY <1>1, <2>1 DEF RestState
  <2>6. Unseen(r) = {}
    <3> SUFFICES ASSUME Unseen(r) # {} PROVE FALSE
      OBVIOUS
    <3>1. PICK j \in Unseen(r) :
             SetRest(r, [rest[r] EXCEPT !.pc = "send",
                                        !.seen = Append(@, datapaths[j])])
      BY <2>1, <2>3, <2>4 DEF NextDatapath
    <3>2. rest'[r].pc = "send" /\ rest'[r].seen = Append(rest[r].seen, datapaths[j])
      BY <1>1, <2>1, <3>1 DEF SetRest, RestState
    <3>3. datapaths[j] \in Conn
      BY <1>1 DEF Unseen
    <3>4. Append(rest[r].seen, datapaths[j]) # <<>>
      BY <2>5, <3>3
    <3> QED
      BY <2>2, <3>2, <3>4
  <2>7. \A s \in Switch : Final(s)' = Final(s)
    BY <2>1, <2>3, TurnStep, FinalSame
  <2>8. ASSUME NEW s, NEW e, SourceAt(s, e, f)' PROVE FALSE
    <3>1. SourceAt(s, e, f)
      BY <2>7, <2>8 DEF SourceAt
    <3>2. PICK d \in ToSet(datapaths) : Dpid(d) = s
      BY <3>1 DEF SourceInv, Registered
    <3>3. d \in ToSet(rest[r].seen)
      BY <2>6, <3>2 DEF Unseen, ToSet
    <3> QED
      BY <1>3, <2>1, <2>4, <3>1, <3>2, <3>3 DEF EmptiedInv, SourceAt
  <2> QED
    BY <2>8, SourcesAre
<1> QED
  BY <1>2, <1>3 DEF Deleting

\* An entry of a chain that is in place stays there until the flow is deleted.
LEMMA NextInPlace ==
    ASSUME TypeInv, MetInv, OneAtATime, EntriesFromRows, CatalogInv, ChainInv,
           CountingDown, RowsApart, RowsAccepted, Ready, Ready', NoneLost, NoneLost',
           [Next]_vars, NEW f \in Flow, NEW i \in DOMAIN Path1(f),
           NEW k \in Turns(f, i), InPlace(f, i, k)
    PROVE  \/ InPlace(f, i, k)'
           \/ DeleteCatching /\ task.flow = f
           \/ \E r \in Asked(f, "delete") : SendRequest(r)
<1>1. TypeOK /\ EntriesFromRows'
  BY NextOwn DEF TypeInv
<1>2. CASE UNCHANGED <<link, table, chan>>
  <2>1. PICK s, e : s = VnfAt(f, i).dpid /\ e = ChainMod(f, i, k).entry
    OBVIOUS
  <2>2. Final(s)' = Final(s)
    <3>1. LiveConn(s)' = LiveConn(s)
      BY <1>2 DEF LiveConn
    <3> QED
      BY <1>2, <3>1, FinalElsewhere
  <2> QED
    BY <2>1, <2>2, InPlaceIs
<1>3. CASE \/ \E c \in Conn : LinkStep(c)
           \/ \E c \in Conn, t \in Traffic : DetectPacket(c, t)
           \/ \E c \in Conn, d \in Datagram : RegisterPacket(c, d)
  BY <1>3, NetworkChain
<1>4. CASE /\ Loop \/ \E r \in Request : Serve(r)
           /\ ~ UNCHANGED <<link, table, chan>>
  <2>1. UNCHANGED <<link, table>>
    BY <1>1, <1>4, AppSends
  <2>2. PICK c \in Conn, mod \in FlowMod :
           link[c] \in {"config", "main"} /\ Send(c, mod) /\ SentTo(c, mod)
    BY <1>1, <1>4, AppSends
  <2>3. CASE mod.cmd = "delete" => OwnDeletion(mod.entry) /\ mod.entry.flow # f
    BY <2>1, <2>2, <2>3, SendChain
  <2>4. CASE mod.cmd = "delete" /\ mod.entry.flow = f
    BY <2>2, <2>4 DEF SentTo, Asked
  <2> QED
    BY <2>2, <2>3, <2>4 DEF SentTo
<1> QED
  BY <1>2, <1>3, <1>4 DEF Next, vars

\* The handler has come to no more of a chain, but for the entry it sends now.
LEMMA SentMoves ==
    ASSUME TypeInv, Ready, ChainInv, [Next]_vars, NEW f \in Flow,
           NEW i \in DOMAIN Path1(f), NEW k \in Turns(f, i), Sent(f, i, k)'
    PROVE  \/ Sent(f, i, k)
           \/ /\ AbandonChain \/ SkipVnf \/ SendHop \/ SendEnd
              /\ task.flow = f /\ task.pos = i /\ task.step = k
<1> SUFFICES ASSUME ~ Sent(f, i, k)
             PROVE  /\ AbandonChain \/ SkipVnf \/ SendHop \/ SendEnd
                    /\ task.flow = f /\ task.pos = i /\ task.step = k
  OBVIOUS
<1>1. /\ task # NoTask /\ task.pc = "chain" /\ task.flow = f
      /\ ~ (i < task.pos) /\ ~ (i = task.pos /\ k < task.step)
  BY DEF Sent
<1>2. task' # task
  BY <1>1 DEF Sent
<1>3. AbandonChain \/ SkipVnf \/ SendHop \/ SendEnd
  BY <1>1, <1>2, TaskMoves
     DEF StartDefaults, StartDetection, SendDefault, DeleteCatching, SendSource,
         NextEvent, InTask
<1>4. PICK p, q : p = task.pos /\ q = task.step
  OBVIOUS
<1>5. /\ p \in DOMAIN Path1(f) /\ q \in Turns(f, p)
      /\ \/ task' = NoTask /\ p = Len(Path1(f)) /\ q = 2
         \/ /\ task' # NoTask /\ task'.pc = "chain" /\ task'.flow = f
            /\ \/ task'.pos = p /\ task'.step = q + 1
               \/ /\ task'.pos = p + 1 /\ task'.step = 1 /\ q = 3
                  /\ p # Len(Path1(f))
  BY <1>1, <1>3, <1>4, ReadyTurn DEF ChainInv
<1>6. /\ Len(Path1(f)) \in Nat /\ i \in 1..Len(Path1(f)) /\ p \in 1..Len(Path1(f))
      /\ k \in 1..3 /\ q \in 1..3 /\ (i = Len(Path1(f)) => k \in 1..2)
  BY <1>5, ServiceAssumption, PathAssumption, LenProperties DEF Path1, Turns
<1>7. ~ (i < p) /\ ~ (i = p /\ k < q)
  BY <1>1, <1>4
<1>8. i = p /\ k = q
  <2>1. CASE task' = NoTask /\ p = Len(Path1(f)) /\ q = 2
    BY <1>6, <1>7, <2>1
  <2>2. CASE /\ task' # NoTask /\ task'.pc = "chain" /\ task'.flow = f
             /\ task'.pos = p /\ task'.step = q + 1
    <3>1. i < p \/ (i = p /\ k < q + 1)
      BY <2>2 DEF Sent
    <3> QED
      BY <1>6, <1>7, <3>1
  <2>3. CASE /\ task' # NoTask /\ task'.pc = "chain" /\ task'.flow = f
             /\ task'.pos = p + 1 /\ task'.step = 1 /\ q = 3
    <3>1. i < p + 1 \/ (i = p + 1 /\ k < 1)
      BY <2>3 DEF Sent
    <3> QED
      BY <1>6, <1>7, <2>3, <3>1
  <2> QED
    BY <1>5, <2>1, <2>2, <2>3
<1> QED
  BY <1>1, <1>3, <1>4, <1>8

\* Every step, and the initial state.
LEMMA NextChain ==
    ASSUME TypeInv, MetInv, OneAtATime, EntriesFromRows, UpInv, SourceInv, SourceInv',
           CatalogInv, EmptiedInv, ChainInv, CountingDown, RowsApart, RowsAccepted,
           Ready, Ready', NoneLost, NoneLost', [Next]_vars
    PROVE  ChainInv'
<1>1. TypeOK
  BY DEF TypeInv
<1>2. task' # NoTask /\ task'.pc = "chain" => task'.cur = task'.pos
  <2> SUFFICES ASSUME task' # NoTask, task'.pc = "chain"
               PROVE  task'.cur = task'.pos
    OBVIOUS
  <2>1. CASE task' = task
    BY <2>1 DEF ChainInv
  <2>2. CASE StartDefaults \/ StartDetection \/ SendDefault \/ DeleteCatching
    BY <2>2, SetUpStep, DetectionStep, DefaultStep, DeleteStep
  <2>3. CASE SendSource
    BY <2>3, SourceStep
  <2>4. CASE AbandonChain \/ SkipVnf \/ SendHop \/ SendEnd
    <3>1. PICK g, i, k : g = task.flow /\ i = task.pos /\ k = task.step
      OBVIOUS
    <3>2. task # NoTask /\ task.pc = "chain"
      BY <2>4, ChainStep
    <3> QED
      BY <2>4, <3>1, <3>2, ReadyTurn DEF ChainInv
  <2> QED
    BY <2>1, <2>2, <2>3, <2>4, TaskMoves
<1>3. ASSUME NEW f \in Flow, Sources(f)' # {}, ~ Deleting(f)',
             NEW i \in DOMAIN Path1(f), NEW k \in Turns(f, i), Sent(f, i, k)'
      PROVE  InPlace(f, i, k)'
  <2>1. ~ Deleting(f)
    BY <1>3, DeletingEnds
  <2>2. ~ (SendSource /\ task.flow = f)
    <3> SUFFICES ASSUME SendSource, task.flow = f PROVE FALSE
      OBVIOUS
    <3>1. /\ task' # NoTask /\ task'.pc = "chain" /\ task'.flow = f
          /\ task'.pos = 1 /\ task'.step = 1
      BY SourceStep
    <3>2. i < 1 \/ (i = 1 /\ k < 1)
      BY <1>3, <3>1 DEF Sent
    <3>3. i \in Nat \ {0} /\ k \in 1..3
      BY <1>3, ServiceAssumption, PathAssumption, LenProperties DEF Path1, Turns
    <3> QED
      BY <3>2, <3>3
  <2>3. Sources(f) # {}
    BY <1>3, <2>2, NewSource
  <2>4. CASE Sent(f, i, k)
    <3>1. InPlace(f, i, k)
      BY <1>3, <2>1, <2>3, <2>4 DEF ChainInv
    <3>2. ~ (DeleteCatching /\ task.flow = f)
      BY <2>1, DeleteStep DEF Deleting
    <3>3. ASSUME NEW r \in Asked(f, "delete"), SendRequest(r) PROVE FALSE
      <4>1. r \in Request /\ r \in Asked(f, "delete")'
        BY DEF Asked
      <4>2. rest'[r].pc \in {"next", "send"} /\ rest'[r].seen # <<>>
        BY <3>3, <4>1, RequestStep
      <4> QED
        BY <1>3, <4>1, <4>2 DEF Deleting
    <3> QED
      BY <1>3, <3>1, <3>2, <3>3, NextInPlace
  <2>5. CASE /\ AbandonChain \/ SkipVnf \/ SendHop \/ SendEnd
             /\ task.flow = f /\ task.pos = i /\ task.step = k
    <3>1. task # NoTask /\ task.pc = "chain" /\ UNCHANGED <<link, table>>
      BY <2>5, ChainStep
    <3>2. PICK s, m : s = VnfAt(f, i).dpid /\ m = ChainMod(f, i, k)
      OBVIOUS
    <3>3. PICK d \in Conn : /\ d \in ToSet(datapaths) /\ Dpid(d) = s /\ Send(d, m)
                            /\ m \in FlowMod /\ m.cmd = "add"
      BY <2>5, <3>1, <3>2, ReadyTurn DEF ChainInv
    <3>4. link[d] \in {"config", "main"} /\ s \in Switch
      BY <1>1, <3>3, MetIsUp, ConnParts DEF MetInv
    <3>5. m.entry \in Final(s)'
      BY <1>1, <3>1, <3>3, <3>4, FinalSent
    <3>6. PICK e : e = ChainMod(f, i, k).entry
      OBVIOUS
    <3>7. e \in Final(s)' /\ SameEffect(e, e)
      BY <3>2, <3>5, <3>6 DEF SameEffect
    <3> QED
      BY <1>3, <3>2, <3>6, <3>7, InPlaceIs
  <2> QED
    BY <1>3, <2>4, <2>5, SentMoves
<1>4. ASSUME NEW f \in Flow, Sources(f)' # {} /\ ~ Deleting(f)'
      PROVE  \A i \in DOMAIN Path1(f)' : \A k \in Turns(f, i)' :
                Sent(f, i, k)' => InPlace(f, i, k)'
  <2>1. Path1(f)' = Path1(f) /\ \A i : Turns(f, i)' = Turns(f, i)
    BY DEF Path1, Turns
  <2> QED
    BY <1>3, <1>4, <2>1
<1> QED
  BY <1>2, <1>4 DEF ChainInv

LEMMA InitChain == Init => ChainInv
<1> SUFFICES ASSUME Init, NEW f \in Flow, Sources(f) # {} PROVE FALSE
  BY DEF ChainInv, Init
<1>1. SourceInv
  BY InitSource
<1>2. PICK s, e : SourceAt(s, e, f)
  BY SourcesAre
<1>3. e \in table[s]
  BY <1>2 DEF Final, Coming, Init, LiveConn, SourceAt
<1>4. e \in DefaultEntries
  BY <1>2, <1>3 DEF Init, SourceAt
<1> QED
  BY <1>2, <1>4, DefaultFacts, FlowAssumption DEF IsSource, SourceAt

\* The invariant of the chains, in behaviours of that kind.
LEMMA ChainInvariant ==
    ASSUME CountingDown, RowsApart, RowsAccepted
    PROVE  Spec /\ []Smooth /\ []Ready => []ControlInv
<1>1. Init => ControlInv
  BY InitType, InitMet, InitOneAtATime, InitUp, InitOwn, InitSource, InitAtomic,
     InitTurn, InitCatalog, InitEmptied, InitChain DEF ControlInv
<1>2. ControlInv /\ Smooth /\ Smooth' /\ Ready /\ Ready' /\ [Next]_vars => ControlInv'
  <2> SUFFICES ASSUME ControlInv, Smooth, Smooth', Ready, Ready', [Next]_vars
               PROVE  ControlInv'
    OBVIOUS
  <2> USE DEF ControlInv
  <2>1. /\ TypeInv' /\ MetInv' /\ OneAtATime' /\ UpInv' /\ EntriesFromRows'
        /\ SourceInv' /\ AtomicInv' /\ TurnInv'
    BY NextType, NextMet, NextOneAtATime, NextUp, NextOwn, NextSource, NextAtomic,
       NextTurn DEF Smooth
  <2>2. CatalogInv'
    BY NextCatalog DEF Smooth
  <2>3. EmptiedInv'
    BY NextEmptied DEF Smooth
  <2>4. ChainInv'
    BY <2>1, NextChain DEF Smooth
  <2> QED
    BY <2>1, <2>2, <2>3, <2>4
<1> QED
  BY <1>1, <1>2, PTL DEF Spec

\* As long as no connection is lost and no queue is full, and every function of
\* every service stays registered, as bidirectional, on registered switches and
\* on ports of their own; when service indices count down to 1, no row is a part
\* of another and switches accept all of them: between two events a flow that has
\* a source entry has the entries of every hop and of the end of its service
\* (sfc_nfv.py:316-395).
THEOREM ChainsComplete ==
    ASSUME CountingDown, RowsApart, RowsAccepted
    PROVE  Spec /\ []Smooth /\ []Ready => []ChainComplete
<1>1. TypeInv /\ AtomicInv /\ ChainInv => ChainComplete
  <2> SUFFICES ASSUME TypeInv, AtomicInv, ChainInv, task = NoTask, running = "none", NEW f \in Flow,
                      Sources(f) # {}
               PROVE  LET n == Len(Path1(f)) IN
                      /\ \A i \in 1..(n - 1) : \A e \in HopsAt(f, i) :
                            \E x \in Final(VnfAt(f, i).dpid) : SameEffect(e, x)
                      /\ \A step \in 1..2 :
                            \E x \in Final(VnfAt(f, n).dpid) :
                               SameEffect(EndMod(step, f, VnfAt(f, n)).entry, x)
    BY DEF ChainComplete
  <2> DEFINE n == Len(Path1(f))
  <2>1. n \in Nat \ {0} /\ DOMAIN Path1(f) = 1..n
    BY PathType, ServiceAssumption, PathAssumption, LenProperties DEF Path1, TypeInv
  <2>2. ~ Deleting(f)
    <3>1. \A r \in Asked(f, "delete") : r \in Request
      BY DEF Asked
    <3> QED
      BY <3>1, RequestAssumption DEF Deleting, AtomicInv
  <2>3. \A i \in 1..n : \A k \in Turns(f, i) : InPlace(f, i, k)
    BY <2>1, <2>2 DEF ChainInv, Sent
  <2>4. ASSUME NEW i \in 1..(n - 1), NEW e \in HopsAt(f, i)
        PROVE  \E x \in Final(VnfAt(f, i).dpid) : SameEffect(e, x)
    <3>1. i \in 1..n /\ i # n
      <4> HIDE DEF n
      <4> QED
        BY <2>1, <2>4
    <3>2. PICK k \in 1..3 : e = ChainMod(f, i, k).entry
      BY <3>1 DEF HopsAt, ChainMod
    <3>3. InPlace(f, i, k)
      BY <2>3, <3>1 DEF Turns
    <3> QED
      BY <3>2, <3>3 DEF InPlace
  <2>5. ASSUME NEW step \in 1..2
        PROVE  \E x \in Final(VnfAt(f, n).dpid) :
                  SameEffect(EndMod(step, f, VnfAt(f, n)).entry, x)
    <3>1. n \in 1..n
      <4> HIDE DEF n
      <4> QED
        BY <2>1
    <3>2. step \in Turns(f, n)
      BY DEF Turns
    <3>3. InPlace(f, n, step)
      BY <2>3, <3>1, <3>2
    <3> QED
      BY <3>3 DEF InPlace, ChainMod
  <2> QED
    BY <2>4, <2>5
<1>2. ControlInv => TypeInv /\ AtomicInv /\ ChainInv
  BY DEF ControlInv
<1> QED
  BY <1>1, <1>2, ChainInvariant, PTL
=============================================================================
