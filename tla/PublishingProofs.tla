--------------------------- MODULE PublishingProofs ---------------------------
(* Theorems about marts, exports and retention, for all sets of requests. *)
EXTENDS Publishing, TLAPS

\* A build that has seen no row has stored its file; one that goes on has
\* found or inserted its row.
BuildInv ==
    \A b \in Builds : /\ req[b].pc \in {"file", "missing"} => Mart[b] \in martFiles
                      /\ req[b].pc \in {"row", "ok"} => Mart[b] \in marts

\* From reading the mart on the mart has a row; a publication works with a
\* definition of its own version, and a row of its own is made of the two.
PublishInv ==
    \A q \in Publications :
        /\ req[q].pc \in {"records", "stored", "described", "defined", "chosen"} =>
               Mart[q] \in marts
        /\ req[q].pc \in {"defined", "chosen"} =>
               /\ req[q].definition \in Publications
               /\ Version[req[q].definition] = Version[q]
        /\ req[q].pc = "chosen" =>
               /\ req[q].row \in Export
               /\ req[q].row.id = q =>
                      /\ req[q].row.definition = req[q].definition
                      /\ req[q].row.digest = Digest(q)

\* What a retention is about to remove had expired when it was selected, and
\* time only goes on.
SweepInv ==
    \A t \in Retentions : \A x \in sweep[t].todo \cup sweep[t].gone :
        x.at + ExportDays < now

IInv == TypeOK /\ MartsBacked /\ BuildInv /\ PublishInv /\ ExportsTraceable /\ SweepInv

-----------------------------------------------------------------------------
\* The initial states satisfy the invariant: nothing is stored or recorded.
LEMMA InitIInv == Init => IInv
<1> SUFFICES ASSUME Init PROVE IInv
  OBVIOUS
<1> USE PublishingAssumption DEF Init
<1>1. req \in [Builds \cup Publications -> Request]
  BY DEF Request, Places
<1>2. sweep \in [Retentions -> Sweep]
  BY DEF Sweep, Idle
<1>3. dictionary \in [Digests -> Dictionary \cup {None}]
  OBVIOUS
<1>4. TypeOK
  <2>1. policy \in BOOLEAN
    BY Zenon
  <2>3. now \in 0..MaxTime
    OBVIOUS
  <2>2. /\ martFiles \subseteq Marts /\ marts \subseteq Marts /\ files \subseteq Digests
        /\ definitions \subseteq Publications /\ exports \subseteq Export
        /\ derived \subseteq Marts \X Publications
        /\ audit \subseteq Builds \cup Publications \cup Retentions
    OBVIOUS
  <2> QED
    BY <1>1, <1>2, <1>3, <2>1, <2>2, <2>3, Zenon DEF TypeOK
<1>5. \A q \in Builds \cup Publications : req[q].pc = "free"
  OBVIOUS
<1>6. BuildInv /\ PublishInv
  BY <1>5 DEF BuildInv, PublishInv
<1>7. SweepInv
  BY DEF SweepInv, Idle
<1>8. MartsBacked /\ ExportsTraceable
  BY DEF MartsBacked, ExportsTraceable
<1> QED
  BY <1>4, <1>6, <1>7, <1>8 DEF IInv

\* A request that goes on stays well typed.
LEMMA GotoType ==
    ASSUME TypeOK, NEW q \in Builds \cup Publications, NEW pc \in Places, Goto(q, pc)
    PROVE  req' \in [Builds \cup Publications -> Request]
  BY DEF TypeOK, Goto, Request

\* Every step keeps the types; a commit needs to know what row it commits.
LEMMA TypeStep == TypeOK /\ PublishInv /\ [Next]_vars => TypeOK'
<1> SUFFICES ASSUME TypeOK, PublishInv, [Next]_vars PROVE TypeOK'
  OBVIOUS
<1> USE PublishingAssumption DEF tables
<1>1. CASE UNCHANGED vars
  BY <1>1 DEF vars, TypeOK
<1>2. CASE Tick
  BY <1>2 DEF Tick, TypeOK
<1>3. ASSUME NEW b \in Builds, StoreMart(b) PROVE TypeOK'
  <2>1. req' \in [Builds \cup Publications -> Request]
    <3>1. "file" \in Places
      BY DEF Places, Working
    <3> QED
      BY <1>3, <3>1, GotoType DEF StoreMart
  <2>2. martFiles' \subseteq Marts
    BY <1>3 DEF StoreMart, TypeOK
  <2> QED
    BY <1>3, <2>1, <2>2 DEF StoreMart, TypeOK
<1>4. ASSUME NEW b \in Builds, SelectMart(b) PROVE TypeOK'
  <2>1. req' \in [Builds \cup Publications -> Request]
    <3>1. (IF Mart[b] \in marts THEN "row" ELSE "missing") \in Places
      BY DEF Places, Working
    <3> QED
      BY <1>4, <3>1, GotoType DEF SelectMart
  <2> QED
    BY <1>4, <2>1 DEF SelectMart, TypeOK
<1>5. ASSUME NEW b \in Builds, InsertMart(b) PROVE TypeOK'
  <2>1. req' \in [Builds \cup Publications -> Request]
    <3>1. "row" \in Places
      BY DEF Places, Working
    <3> QED
      BY <1>5, <3>1, GotoType DEF InsertMart
  <2> QED
    BY <1>5, <2>1 DEF InsertMart, TypeOK
<1>6. ASSUME NEW b \in Builds, InsertMartFails(b) PROVE TypeOK'
  <2>1. req' \in [Builds \cup Publications -> Request]
    <3>1. "error" \in Places
      BY DEF Places, Working
    <3> QED
      BY <1>6, <3>1, GotoType DEF InsertMartFails
  <2> QED
    BY <1>6, <2>1 DEF InsertMartFails, TypeOK
<1>7. ASSUME NEW b \in Builds, AuditMart(b) PROVE TypeOK'
  <2>1. req' \in [Builds \cup Publications -> Request]
    <3>1. "ok" \in Places
      BY DEF Places, Working
    <3> QED
      BY <1>7, <3>1, GotoType DEF AuditMart
  <2> QED
    BY <1>7, <2>1 DEF AuditMart, TypeOK
<1>8. ASSUME NEW q \in Publications, Refuse(q) PROVE TypeOK'
  <2>1. req' \in [Builds \cup Publications -> Request]
    <3>1. "refused" \in Places
      BY DEF Places, Working
    <3> QED
      BY <1>8, <3>1, GotoType DEF Refuse
  <2> QED
    BY <1>8, <2>1 DEF Refuse, TypeOK
<1>9. ASSUME NEW q \in Publications, ReadMart(q) PROVE TypeOK'
  <2>1. req' \in [Builds \cup Publications -> Request]
    <3>1. "records" \in Places
      BY DEF Places, Working
    <3> QED
      BY <1>9, <3>1, GotoType DEF ReadMart
  <2> QED
    BY <1>9, <2>1 DEF ReadMart, TypeOK
<1>10. ASSUME NEW q \in Publications, StoreExport(q) PROVE TypeOK'
  <2>1. req' \in [Builds \cup Publications -> Request]
    <3>1. "stored" \in Places
      BY DEF Places, Working
    <3> QED
      BY <1>10, <3>1, GotoType DEF StoreExport
  <2>2. files' \subseteq Digests
    BY <1>10 DEF StoreExport, Digest, TypeOK
  <2> QED
    BY <1>10, <2>1, <2>2 DEF StoreExport, TypeOK
<1>11. ASSUME NEW q \in Publications, WriteDictionary(q) PROVE TypeOK'
  <2>1. req' \in [Builds \cup Publications -> Request]
    <3>1. "described" \in Places
      BY DEF Places, Working
    <3> QED
      BY <1>11, <3>1, GotoType DEF WriteDictionary
  <2>2. dictionary' \in [Digests -> Dictionary \cup {None}]
    BY <1>11 DEF WriteDictionary, Dictionary, Digest, TypeOK
  <2> QED
    BY <1>11, <2>1, <2>2 DEF WriteDictionary, TypeOK
<1>12. ASSUME NEW q \in Publications, SelectDefinition(q) PROVE TypeOK'
  <2>1. req' \in [Builds \cup Publications -> Request]
    BY <1>12 DEF SelectDefinition, DefinitionsOf, TypeOK, Request, Places, Working
  <2> QED
    BY <1>12, <2>1 DEF SelectDefinition, TypeOK
<1>13. ASSUME NEW q \in Publications, SelectExport(q) PROVE TypeOK'
  <2>1. PICK x : /\ x \in IF Existing(q) = {} THEN {NewExport(q)} ELSE Existing(q)
                 /\ req' = [req EXCEPT ![q] = [pc |-> "chosen", row |-> x,
                                      definition |-> req[q].definition]]
    BY <1>13 DEF SelectExport
  <2>2. req[q].definition \in Publications
    BY <1>13 DEF SelectExport, PublishInv
  <2>3. Digest(q) \in Digests
    BY DEF Digest
  <2>4. x \in Export
    BY <2>1, <2>2, <2>3 DEF Existing, NewExport, Export, TypeOK
  <2>5. req' \in [Builds \cup Publications -> Request]
    BY <2>1, <2>2, <2>4 DEF TypeOK, Request, Places, Working
  <2> QED
    BY <1>13, <2>5 DEF SelectExport, TypeOK
<1>14. ASSUME NEW q \in Publications, CommitExport(q) PROVE TypeOK'
  <2>1. req' \in [Builds \cup Publications -> Request]
    <3>1. "committed" \in Places
      BY DEF Places, Working
    <3> QED
      BY <1>14, <3>1, GotoType DEF CommitExport
  <2>2. /\ definitions' \subseteq Publications /\ exports' \subseteq Export
        /\ derived' \subseteq Marts \X Publications
    BY <1>14 DEF CommitExport, TypeOK, PublishInv
  <2> QED
    BY <1>14, <2>1, <2>2 DEF CommitExport, TypeOK
<1>15. ASSUME NEW q \in Publications, AuditExport(q) PROVE TypeOK'
  <2>1. req' \in [Builds \cup Publications -> Request]
    <3>1. "ok" \in Places
      BY DEF Places, Working
    <3> QED
      BY <1>15, <3>1, GotoType DEF AuditExport
  <2> QED
    BY <1>15, <2>1 DEF AuditExport, TypeOK
<1>16. ASSUME NEW q \in Builds \cup Publications, Die(q) PROVE TypeOK'
  <2>1. req' \in [Builds \cup Publications -> Request]
    <3>1. "dead" \in Places
      BY DEF Places, Working
    <3> QED
      BY <1>16, <3>1, GotoType DEF Die
  <2> QED
    BY <1>16, <2>1 DEF Die, TypeOK
<1>17. ASSUME NEW t \in Retentions, NEW dry_run \in BOOLEAN, SelectPolicy(t, dry_run)
      PROVE TypeOK'
  BY <1>17 DEF SelectPolicy, Sweep, Idle, TypeOK
<1>18. ASSUME NEW t \in Retentions, SavePolicy(t) PROVE TypeOK'
  BY <1>18, ZenonT(60) DEF SavePolicy, Sweep, Idle, TypeOK
<1>19. ASSUME NEW t \in Retentions, SavePolicyFails(t) PROVE TypeOK'
  BY <1>19 DEF SavePolicyFails, Sweep, Idle, TypeOK
<1>20. ASSUME NEW t \in Retentions, SelectExpired(t) PROVE TypeOK'
  BY <1>20 DEF SelectExpired, Sweep, Idle, TypeOK
<1>21. ASSUME NEW t \in Retentions, CommitRetention(t) PROVE TypeOK'
  BY <1>21 DEF CommitRetention, Sweep, Idle, TypeOK
<1>22. ASSUME NEW t \in Retentions, AuditRetention(t) PROVE TypeOK'
  BY <1>22 DEF AuditRetention, Sweep, Idle, TypeOK
<1>23. ASSUME NEW t \in Retentions, DieInRetention(t) PROVE TypeOK'
  BY <1>23 DEF DieInRetention, Sweep, Idle, TypeOK
<1>24. ASSUME NEW t \in Retentions, NEW x, Unlink(t, x) PROVE TypeOK'
  BY <1>24 DEF Unlink, Sweep, Idle, TypeOK
<1>25. ASSUME NEW t \in Retentions, NEW x, UnlinkFails(t, x) PROVE TypeOK'
  BY <1>25 DEF UnlinkFails, Sweep, Idle, TypeOK
<1> QED
  BY <1>1, <1>2, <1>3, <1>4, <1>5, <1>6, <1>7, <1>8, <1>9, <1>10, <1>11, <1>12, <1>13, <1>14, <1>15, <1>16, <1>17, <1>18, <1>19, <1>20, <1>21, <1>22, <1>23, <1>24, <1>25, Zenon
     DEF Next, Build, Publish, ApplyRetention

\* It changes its own place and nothing else.
LEMMA GotoEffect ==
    ASSUME TypeOK, NEW q \in Builds \cup Publications, NEW pc, Goto(q, pc)
    PROVE  /\ \A p \in Builds \cup Publications : p # q => req'[p] = req[p]
           /\ req'[q].pc = pc
           /\ req'[q].definition = req[q].definition
           /\ req'[q].row = req[q].row
  BY DEF TypeOK, Goto, Request

-----------------------------------------------------------------------------
\* Marts: the file of a row is stored before the row, and no file is removed.
LEMMA MartStep ==
    TypeOK /\ MartsBacked /\ BuildInv /\ [Next]_vars => MartsBacked' /\ BuildInv'
<1> SUFFICES ASSUME TypeOK, MartsBacked, BuildInv, [Next]_vars
             PROVE  MartsBacked' /\ BuildInv'
  OBVIOUS
<1> USE PublishingAssumption DEF tables, MartsBacked, BuildInv
<1>1. CASE UNCHANGED <<martFiles, marts, req>>
  BY <1>1
<1>2. ASSUME NEW b \in Builds, StoreMart(b) PROVE MartsBacked' /\ BuildInv'
  <2>1. Goto(b, "file")
    BY <1>2 DEF StoreMart
  <2>2. /\ \A p \in Builds \cup Publications : p # b => req'[p] = req[p]
        /\ req'[b].pc = "file"
    BY <2>1, GotoEffect
  <2> QED
    BY <1>2, <2>2 DEF StoreMart
<1>3. ASSUME NEW b \in Builds, SelectMart(b) PROVE MartsBacked' /\ BuildInv'
  <2>1. Goto(b, IF Mart[b] \in marts THEN "row" ELSE "missing")
    BY <1>3 DEF SelectMart
  <2>2. /\ \A p \in Builds \cup Publications : p # b => req'[p] = req[p]
        /\ req'[b].pc = IF Mart[b] \in marts THEN "row" ELSE "missing"
    BY <2>1, GotoEffect
  <2> QED
    BY <1>3, <2>2 DEF SelectMart
<1>4. ASSUME NEW b \in Builds, InsertMart(b) PROVE MartsBacked' /\ BuildInv'
  <2>1. Goto(b, "row")
    BY <1>4 DEF InsertMart
  <2>2. /\ \A p \in Builds \cup Publications : p # b => req'[p] = req[p]
        /\ req'[b].pc = "row"
    BY <2>1, GotoEffect
  <2> QED
    BY <1>4, <2>2 DEF InsertMart
<1>5. ASSUME NEW b \in Builds, InsertMartFails(b) PROVE MartsBacked' /\ BuildInv'
  <2>1. Goto(b, "error")
    BY <1>5 DEF InsertMartFails
  <2>2. /\ \A p \in Builds \cup Publications : p # b => req'[p] = req[p]
        /\ req'[b].pc = "error"
    BY <2>1, GotoEffect
  <2> QED
    BY <1>5, <2>2 DEF InsertMartFails
<1>6. ASSUME NEW b \in Builds, AuditMart(b) PROVE MartsBacked' /\ BuildInv'
  <2>1. Goto(b, "ok")
    BY <1>6 DEF AuditMart
  <2>2. /\ \A p \in Builds \cup Publications : p # b => req'[p] = req[p]
        /\ req'[b].pc = "ok"
    BY <2>1, GotoEffect
  <2> QED
    BY <1>6, <2>2 DEF AuditMart
<1>7. ASSUME NEW q \in Publications, Publish(q) PROVE MartsBacked' /\ BuildInv'
  <2>1. UNCHANGED <<martFiles, marts>>
    BY <1>7 DEF Publish, Refuse, ReadMart, StoreExport, WriteDictionary,
              SelectDefinition, SelectExport, CommitExport, AuditExport
  <2>2. \A p \in Builds : req'[p] = req[p]
    BY <1>7, ZenonT(60)
       DEF Publish, Refuse, ReadMart, StoreExport, WriteDictionary,
           SelectDefinition, SelectExport, CommitExport, AuditExport, Goto, TypeOK
  <2> QED
    BY <2>1, <2>2
<1>8. ASSUME NEW q \in Builds \cup Publications, Die(q) PROVE MartsBacked' /\ BuildInv'
  <2>1. Goto(q, "dead")
    BY <1>8 DEF Die
  <2>2. /\ \A p \in Builds \cup Publications : p # q => req'[p] = req[p]
        /\ req'[q].pc = "dead"
    BY <2>1, GotoEffect
  <2> QED
    BY <1>8, <2>2 DEF Die
<1>9. ASSUME NEW t \in Retentions, \/ \E d \in BOOLEAN : SelectPolicy(t, d)
                                    \/ ApplyRetention(t) \/ DieInRetention(t)
      PROVE UNCHANGED <<martFiles, marts, req>>
  BY <1>9 DEF ApplyRetention, SelectPolicy, SavePolicy, SavePolicyFails, SelectExpired,
            Unlink, UnlinkFails, CommitRetention, AuditRetention, DieInRetention
<1>10. CASE Tick \/ UNCHANGED vars
  BY <1>1, <1>10 DEF Tick, vars
<1> QED
  BY <1>1, <1>2, <1>3, <1>4, <1>5, <1>6, <1>7, <1>8, <1>9, <1>10, Zenon DEF Next, Build

-----------------------------------------------------------------------------
\* Publications: marts are only added, and a request changes only itself.
LEMMA PublishStep == TypeOK /\ PublishInv /\ [Next]_vars => PublishInv'
<1> SUFFICES ASSUME TypeOK, PublishInv, [Next]_vars PROVE PublishInv'
  OBVIOUS
<1> USE PublishingAssumption DEF tables, PublishInv, Digest
<1>1. ASSUME UNCHANGED req, marts \subseteq marts' PROVE PublishInv'
  BY <1>1
<1>2. ASSUME NEW b \in Builds, Build(b) PROVE PublishInv'
  <2>1. marts \subseteq marts'
    BY <1>2 DEF Build, StoreMart, SelectMart, InsertMart, InsertMartFails, AuditMart
  <2>2. \A p \in Publications : req'[p] = req[p]
    BY <1>2, ZenonT(60) DEF Build, StoreMart, SelectMart, InsertMart, InsertMartFails,
                       AuditMart, Goto, TypeOK
  <2> QED
    BY <2>1, <2>2
<1>3. ASSUME NEW q \in Publications, Refuse(q) PROVE PublishInv'
  <2>1. Goto(q, "refused") /\ UNCHANGED marts
    BY <1>3 DEF Refuse
  <2>2. /\ \A p \in Publications : p # q => req'[p] = req[p]
        /\ req'[q].pc = "refused"
    BY <2>1, GotoEffect
  <2> QED
    BY <1>3, <2>1, <2>2, ZenonT(60) DEF Refuse
<1>4. ASSUME NEW q \in Publications, ReadMart(q) PROVE PublishInv'
  <2>1. Goto(q, "records") /\ UNCHANGED marts
    BY <1>4 DEF ReadMart
  <2>2. /\ \A p \in Publications : p # q => req'[p] = req[p]
        /\ req'[q].pc = "records"
    BY <2>1, GotoEffect
  <2> QED
    BY <1>4, <2>1, <2>2 DEF ReadMart
<1>5. ASSUME NEW q \in Publications, StoreExport(q) PROVE PublishInv'
  <2>1. Goto(q, "stored") /\ UNCHANGED marts
    BY <1>5 DEF StoreExport
  <2>2. /\ \A p \in Publications : p # q => req'[p] = req[p]
        /\ req'[q].pc = "stored"
    BY <2>1, GotoEffect
  <2> QED
    BY <1>5, <2>1, <2>2 DEF StoreExport
<1>6. ASSUME NEW q \in Publications, WriteDictionary(q) PROVE PublishInv'
  <2>1. Goto(q, "described") /\ UNCHANGED marts
    BY <1>6 DEF WriteDictionary
  <2>2. /\ \A p \in Publications : p # q => req'[p] = req[p]
        /\ req'[q].pc = "described"
    BY <2>1, GotoEffect
  <2> QED
    BY <1>6, <2>1, <2>2 DEF WriteDictionary
<1>7. ASSUME NEW q \in Publications, CommitExport(q) PROVE PublishInv'
  <2>1. Goto(q, "committed") /\ UNCHANGED marts
    BY <1>7 DEF CommitExport
  <2>2. /\ \A p \in Publications : p # q => req'[p] = req[p]
        /\ req'[q].pc = "committed"
    BY <2>1, GotoEffect
  <2> QED
    BY <1>7, <2>1, <2>2 DEF CommitExport
<1>8. ASSUME NEW q \in Publications, AuditExport(q) PROVE PublishInv'
  <2>1. Goto(q, "ok") /\ UNCHANGED marts
    BY <1>8 DEF AuditExport
  <2>2. /\ \A p \in Publications : p # q => req'[p] = req[p]
        /\ req'[q].pc = "ok"
    BY <2>1, GotoEffect
  <2> QED
    BY <1>8, <2>1, <2>2, ZenonT(60) DEF AuditExport
<1>9. ASSUME NEW q \in Builds \cup Publications, Die(q) PROVE PublishInv'
  <2>1. Goto(q, "dead") /\ UNCHANGED marts
    BY <1>9 DEF Die
  <2>2. /\ \A p \in Builds \cup Publications : p # q => req'[p] = req[p]
        /\ req'[q].pc = "dead"
    BY <2>1, GotoEffect
  <2> QED
    BY <2>1, <2>2
<1>10. ASSUME NEW q \in Publications, SelectDefinition(q) PROVE PublishInv'
  <2>1. PICK d \in IF DefinitionsOf(q) = {} THEN {q} ELSE DefinitionsOf(q) :
             req' = [req EXCEPT ![q] = [pc |-> "defined", definition |-> d,
                                        row |-> None]]
    BY <1>10 DEF SelectDefinition
  <2>2. d \in Publications /\ Version[d] = Version[q]
    BY DEF DefinitionsOf, TypeOK
  <2>3. /\ \A p \in Publications : p # q => req'[p] = req[p]
        /\ req'[q].pc = "defined" /\ req'[q].definition = d
    BY <2>1 DEF TypeOK
  <2>4. Mart[q] \in marts /\ UNCHANGED marts
    BY <1>10 DEF SelectDefinition
  <2> QED
    BY <2>2, <2>3, <2>4
<1>11. ASSUME NEW q \in Publications, SelectExport(q) PROVE PublishInv'
  <2>1. PICK x \in IF Existing(q) = {} THEN {NewExport(q)} ELSE Existing(q) :
             req' = [req EXCEPT ![q] = [pc |-> "chosen", row |-> x,
                                        definition |-> req[q].definition]]
    BY <1>11 DEF SelectExport
  <2>2. /\ Mart[q] \in marts /\ UNCHANGED marts
        /\ req[q].definition \in Publications
        /\ Version[req[q].definition] = Version[q]
    BY <1>11 DEF SelectExport
  <2>3. x \in Export /\ x.definition = req[q].definition /\ x.digest = Digest(q)
    BY <2>2 DEF Existing, NewExport, Export, TypeOK
  <2>4. /\ \A p \in Publications : p # q => req'[p] = req[p]
        /\ req'[q].pc = "chosen" /\ req'[q].row = x
        /\ req'[q].definition = req[q].definition
    BY <2>1 DEF TypeOK
  <2> QED
    BY <2>2, <2>3, <2>4
<1>12. ASSUME NEW t \in Retentions, \/ \E d \in BOOLEAN : SelectPolicy(t, d)
                                     \/ ApplyRetention(t) \/ DieInRetention(t)
      PROVE UNCHANGED <<marts, req>>
  BY <1>12 DEF ApplyRetention, SelectPolicy, SavePolicy, SavePolicyFails, SelectExpired,
            Unlink, UnlinkFails, CommitRetention, AuditRetention, DieInRetention
<1>13. ASSUME Tick \/ UNCHANGED vars PROVE UNCHANGED <<marts, req>>
  BY <1>13 DEF Tick, vars
<1>14. ASSUME UNCHANGED <<marts, req>> PROVE PublishInv'
  BY <1>1, <1>14
<1> HIDE DEF PublishInv, Digest
<1> QED
  BY <1>2, <1>3, <1>4, <1>5, <1>6, <1>7, <1>8, <1>9, <1>10, <1>11, <1>12, <1>13, <1>14, Zenon DEF Next, Publish

-----------------------------------------------------------------------------
\* Exports: a new row comes with its lineage, and lineage and marts stay.
LEMMA ExportsStep ==
    TypeOK /\ PublishInv /\ ExportsTraceable /\ [Next]_vars => ExportsTraceable'
<1> SUFFICES ASSUME TypeOK, PublishInv, ExportsTraceable, [Next]_vars
             PROVE  ExportsTraceable'
  OBVIOUS
<1> USE PublishingAssumption DEF tables, ExportsTraceable, Traceable
<1>1. ASSUME marts \subseteq marts', derived \subseteq derived', exports' \subseteq exports
      PROVE  ExportsTraceable'
  BY <1>1
<1>2. ASSUME NEW q \in Publications, CommitExport(q) PROVE ExportsTraceable'
  <2>1. CASE req[q].row.id # q
    BY <1>1, <1>2, <2>1 DEF CommitExport
  <2>2. CASE req[q].row.id = q
    <3>1. /\ Mart[q] \in marts /\ Version[req[q].row.definition] = Version[q]
          /\ req[q].row.digest = Rendered[Mart[q]][Version[q]]
      BY <1>2, <2>2 DEF CommitExport, PublishInv, Digest
    <3>2. /\ exports' = exports \cup {req[q].row} /\ UNCHANGED marts
          /\ derived' = derived \cup {<<Mart[q], q>>}
      BY <1>2, <2>2 DEF CommitExport
    <3> QED
      BY <2>2, <3>1, <3>2
  <2> QED
    BY <2>1, <2>2
<1>3. ASSUME NEW b \in Builds, Build(b) PROVE ExportsTraceable'
  BY <1>1, <1>3 DEF Build, StoreMart, SelectMart, InsertMart, InsertMartFails, AuditMart
<1>4. ASSUME NEW q \in Publications,
             \/ Refuse(q) \/ ReadMart(q) \/ StoreExport(q) \/ WriteDictionary(q)
             \/ SelectDefinition(q) \/ SelectExport(q) \/ AuditExport(q)
      PROVE  ExportsTraceable'
  BY <1>1, <1>4 DEF Refuse, ReadMart, StoreExport, WriteDictionary, SelectDefinition,
                    SelectExport, AuditExport
<1>5. ASSUME NEW q \in Builds \cup Publications, Die(q) PROVE ExportsTraceable'
  BY <1>1, <1>5 DEF Die
<1>6. ASSUME NEW t \in Retentions, \/ \E d \in BOOLEAN : SelectPolicy(t, d)
                                    \/ ApplyRetention(t) \/ DieInRetention(t)
      PROVE ExportsTraceable'
  <2>1. UNCHANGED <<marts, derived>> /\ exports' \subseteq exports
    BY <1>6 DEF ApplyRetention, SelectPolicy, SavePolicy, SavePolicyFails, SelectExpired,
              Unlink, UnlinkFails, CommitRetention, AuditRetention, DieInRetention
  <2> QED
    BY <1>1, <2>1
<1>7. CASE Tick \/ UNCHANGED vars
  BY <1>1, <1>7 DEF Tick, vars
<1> QED
  BY <1>2, <1>3, <1>4, <1>5, <1>6, <1>7, Zenon DEF Next, Publish

-----------------------------------------------------------------------------
\* Retention: only SelectExpired adds to what is to go, and time goes on.
LEMMA SweepStep == TypeOK /\ SweepInv /\ [Next]_vars => SweepInv'
<1> SUFFICES ASSUME TypeOK, SweepInv, [Next]_vars PROVE SweepInv'
  OBVIOUS
<1> USE PublishingAssumption DEF tables, SweepInv
<1>1. CASE UNCHANGED <<now, sweep>>
  BY <1>1
<1>2. CASE Tick
  <2>1. UNCHANGED sweep /\ now' = now + 1
    BY <1>2 DEF Tick
  <2> SUFFICES ASSUME NEW t \in Retentions, NEW x \in sweep[t].todo \cup sweep[t].gone
               PROVE  x.at + ExportDays < now'
    BY <2>1
  <2>2. x.at + ExportDays < now
    OBVIOUS
  <2>3. x.at \in Nat /\ ExportDays \in Nat /\ now \in Nat
    BY DEF TypeOK, Sweep, Export
  <2> QED
    BY <2>1, <2>2, <2>3
<1>3. ASSUME NEW t \in Retentions, UNCHANGED now, NEW new,
             sweep' = [sweep EXCEPT ![t] = new],
             \A x \in new.todo \cup new.gone : x.at + ExportDays < now
      PROVE  SweepInv'
  <2>1. sweep'[t] = new /\ \A u \in Retentions : u # t => sweep'[u] = sweep[u]
    BY <1>3 DEF TypeOK
  <2> QED
    BY <1>3, <2>1
<1>4. Idle.todo = {} /\ Idle.gone = {}
  BY DEF Idle
<1>5. ASSUME NEW t \in Retentions, NEW d \in BOOLEAN, SelectPolicy(t, d) PROVE SweepInv'
  <2> DEFINE new == [Idle EXCEPT !.pc = IF policy THEN "present" ELSE "absent",
                                 !.dry_run = d]
  <2>1. new.todo = {} /\ new.gone = {}
    BY DEF Idle
  <2>2. sweep' = [sweep EXCEPT ![t] = new] /\ UNCHANGED now
    BY <1>5 DEF SelectPolicy
  <2> QED
    BY <1>3, <2>1, <2>2
<1>6. ASSUME NEW t \in Retentions, SavePolicy(t) PROVE SweepInv'
  <2>1. \A u \in Retentions : sweep'[u].todo = sweep[u].todo /\ sweep'[u].gone = sweep[u].gone
    BY <1>6 DEF SavePolicy, TypeOK, Sweep
  <2> QED
    BY <1>6, <2>1 DEF SavePolicy
<1>7. ASSUME NEW t \in Retentions, SavePolicyFails(t) \/ AuditRetention(t) \/ DieInRetention(t)
      PROVE  SweepInv'
  <2>1. sweep' = [sweep EXCEPT ![t] = Idle] /\ UNCHANGED now
    BY <1>7 DEF SavePolicyFails, AuditRetention, DieInRetention
  <2> QED
    BY <1>3, <1>4, <2>1
<1>8. ASSUME NEW t \in Retentions, NEW x, UnlinkFails(t, x) PROVE SweepInv'
  <2>1. sweep' = [sweep EXCEPT ![t] = Idle] /\ UNCHANGED now
    BY <1>8 DEF UnlinkFails
  <2> QED
    BY <1>3, <1>4, <2>1
<1>9. ASSUME NEW t \in Retentions, CommitRetention(t) PROVE SweepInv'
  <2> DEFINE new == [Idle EXCEPT !.pc = "audit"]
  <2>1. new.todo = {} /\ new.gone = {}
    BY DEF Idle
  <2>2. sweep' = [sweep EXCEPT ![t] = new] /\ UNCHANGED now
    BY <1>9 DEF CommitRetention
  <2> QED
    BY <1>3, <2>1, <2>2
<1>10. ASSUME NEW t \in Retentions, SelectExpired(t) PROVE SweepInv'
  <2> DEFINE none == [Idle EXCEPT !.pc = "audit"]
             some == [pc |-> "unlink", dry_run |-> FALSE, gone |-> {},
                      todo |-> {x \in exports : Expired(x)}]
  <2>1. none.todo = {} /\ none.gone = {}
    BY DEF Idle
  <2>2. \A x \in some.todo \cup some.gone : x.at + ExportDays < now
    BY DEF Expired
  <2>3. /\ UNCHANGED now
        /\ sweep' = [sweep EXCEPT ![t] = none] \/ sweep' = [sweep EXCEPT ![t] = some]
    BY <1>10 DEF SelectExpired
  <2> HIDE DEF none, some
  <2> QED
    BY <1>3, <2>1, <2>2, <2>3
<1>11. ASSUME NEW t \in Retentions, NEW x, Unlink(t, x) PROVE SweepInv'
  <2> DEFINE new == [pc |-> "unlink", dry_run |-> FALSE,
                     todo |-> sweep[t].todo \ {x}, gone |-> sweep[t].gone \cup {x}]
  <2>1. \A y \in new.todo \cup new.gone : y.at + ExportDays < now
    BY <1>11 DEF Unlink
  <2>2. sweep' = [sweep EXCEPT ![t] = new] /\ UNCHANGED now
    BY <1>11 DEF Unlink
  <2> HIDE DEF new
  <2> QED
    BY <1>3, <2>1, <2>2
<1>12. ASSUME NEW b \in Builds, Build(b) PROVE UNCHANGED <<now, sweep>>
  BY <1>12 DEF Build, StoreMart, SelectMart, InsertMart, InsertMartFails, AuditMart
<1>13. ASSUME NEW q \in Publications, Publish(q) PROVE UNCHANGED <<now, sweep>>
  BY <1>13 DEF Publish, Refuse, ReadMart, StoreExport, WriteDictionary,
              SelectDefinition, SelectExport, CommitExport, AuditExport
<1>14. ASSUME NEW q \in Builds \cup Publications, Die(q) PROVE UNCHANGED <<now, sweep>>
  BY <1>14 DEF Die
<1>15. CASE UNCHANGED vars
  BY <1>1, <1>15 DEF vars
<1> QED
  BY <1>1, <1>2, <1>5, <1>6, <1>7, <1>8, <1>9, <1>10, <1>11, <1>12, <1>13, <1>14, <1>15,
     Zenon DEF Next, ApplyRetention

-----------------------------------------------------------------------------
\* The invariant is inductive.
LEMMA NextIInv == IInv /\ [Next]_vars => IInv'
  BY TypeStep, MartStep, PublishStep, ExportsStep, SweepStep, Zenon DEF IInv

\* Every reachable state satisfies it.
LEMMA AlwaysIInv == Spec => []IInv
  BY InitIInv, NextIInv, PTL DEF Spec

\* The tables, files and requests keep their types whatever the handlers
\* (build_mart, publish_export, apply_retention) do next to each other.
THEOREM TypeCorrect == Spec => []TypeOK
<1>1. IInv => TypeOK
  BY DEF IInv
<1> QED
  BY <1>1, AlwaysIInv, PTL

\* A mart row has its file, for any number of concurrent builds that may die
\* anywhere: MartService.build renames the file into place before it selects.
THEOREM MartsAreBacked == Spec => []MartsBacked
<1>1. IInv => MartsBacked
  BY DEF IInv
<1> QED
  BY <1>1, AlwaysIInv, PTL

\* Every export snapshot can be traced to a mart that renders to its bytes, for
\* any number of publications although ExportService.publish selects and inserts
\* definitions and snapshots without constraints.
THEOREM ExportsAreTraceable == Spec => []ExportsTraceable
<1>1. IInv => ExportsTraceable
  BY DEF IInv
<1> QED
  BY <1>1, AlwaysIInv, PTL

\* apply_export_retention deletes only rows that have expired, whatever time
\* passes and whoever publishes between its select and its commit, and no other
\* handler deletes one.
THEOREM RetentionRemovesOnlyExpired == Spec => OnlyExpiredRemoved
<1>1. IInv /\ [Next]_vars => [\A x \in exports \ exports' : x.at + ExportDays < now]_vars
  <2> SUFFICES ASSUME IInv, Next
               PROVE  \A x \in exports \ exports' : x.at + ExportDays < now
    BY DEF vars
  <2> USE DEF tables
  <2>1. ASSUME exports \subseteq exports'
        PROVE  \A x \in exports \ exports' : x.at + ExportDays < now
    BY <2>1
  <2>2. ASSUME NEW t \in Retentions, CommitRetention(t)
        PROVE  \A x \in exports \ exports' : x.at + ExportDays < now
    BY <2>2 DEF CommitRetention, IInv, SweepInv
  <2>3. ASSUME NEW t \in Retentions, ApplyRetention(t), ~CommitRetention(t)
        PROVE  exports \subseteq exports'
    BY <2>3 DEF ApplyRetention, SavePolicy, SavePolicyFails, SelectExpired, Unlink,
              UnlinkFails, AuditRetention
  <2>4. ASSUME NEW t \in Retentions, DieInRetention(t) \/ \E d \in BOOLEAN : SelectPolicy(t, d)
        PROVE  exports \subseteq exports'
    BY <2>4 DEF DieInRetention, SelectPolicy
  <2>5. ASSUME NEW b \in Builds, Build(b) PROVE exports \subseteq exports'
    BY <2>5 DEF Build, StoreMart, SelectMart, InsertMart, InsertMartFails, AuditMart
  <2>6. ASSUME NEW q \in Publications, Publish(q) PROVE exports \subseteq exports'
    BY <2>6 DEF Publish, Refuse, ReadMart, StoreExport, WriteDictionary,
              SelectDefinition, SelectExport, CommitExport, AuditExport
  <2>7. ASSUME NEW q \in Builds \cup Publications, Die(q) PROVE exports \subseteq exports'
    BY <2>7 DEF Die
  <2>8. CASE Tick
    BY <2>1, <2>8 DEF Tick
  <2> QED
    BY <2>1, <2>2, <2>3, <2>4, <2>5, <2>6, <2>7, <2>8, Zenon DEF Next
<1> QED
  BY <1>1, AlwaysIInv, PTL DEF Spec, OnlyExpiredRemoved

-----------------------------------------------------------------------------
(* What publications and rows stand for, although several share bytes. *)

\* Places of a publication that has stored its file, written its dictionary,
\* and chosen its row.
HasRow == {"chosen", "committed", "ok"}
HasDictionary == {"described", "defined"} \cup HasRow
HasFile == {"stored"} \cup HasDictionary

\* The row is the one its publication made, with its bytes.
Made(x) == /\ <<Mart[x.id], x.id>> \in derived
           /\ req[x.id].row = x /\ x.digest = Digest(x.id)

\* A publication makes one row at most, when it commits; the row it works on
\* is what was asked for, a new one or one that is traceable.
ChoiceInv(q) ==
    /\ <<Mart[q], q>> \in derived => /\ req[q].pc \in {"committed", "ok", "dead"}
                                     /\ req[q].row \in Export
    /\ req[q].pc \in HasRow =>
           /\ req[q].row \in Export /\ req[q].row.digest = Digest(q)
           /\ Version[req[q].row.definition] = Version[q]
           /\ (req[q].pc = "chosen" /\ req[q].row.id = q) \/ Traceable(req[q].row)

\* Its file is there, unless a row with the same bytes has outlived its time,
\* and so is its dictionary.
HeldInv(q) ==
    /\ req[q].pc \in HasFile => Digest(q) \in files \/ Outlived(Digest(q))
    /\ req[q].pc \in HasDictionary => Described(Digest(q))

RowInv(x) == /\ Made(x)
             /\ x.digest \in files \/ Outlived(x.digest)
             /\ Described(x.digest)

HInv ==
    /\ \A q \in Publications : ChoiceInv(q) /\ HeldInv(q)
    /\ \A x \in exports : RowInv(x)
    /\ \A t \in Retentions : \A x \in sweep[t].todo \cup sweep[t].gone : Made(x)

\* What a step may do to the world of a publication: marts and lineage are only
\* added, time goes on, and a file goes only when a row with its bytes has
\* outlived its time.
Grows ==
    /\ marts \subseteq marts' /\ derived \subseteq derived'
    /\ \A d \in Digests : /\ Outlived(d) => Outlived(d)'
                          /\ Described(d) => Described(d)'
                          /\ d \in files => d \in files' \/ Outlived(d)'

\* A publication that goes no step that matters: it stays, is refused, reads
\* its mart, audits or dies.
Quiet(q) ==
    /\ req'[q].row = req[q].row
    /\ \/ req'[q].pc = req[q].pc
       \/ req[q].pc = "free" /\ req'[q].pc \in {"refused", "records"}
       \/ req[q].pc = "committed" /\ req'[q].pc = "ok"
       \/ req'[q].pc = "dead"

\* Rows that were made stay so and outlived bytes stay outlived when no
\* publication that has made a row chooses another.
LEMMA MadeStays ==
    ASSUME TypeOK, TypeOK', HInv, derived \subseteq derived', now <= now',
           \A q \in Publications : req'[q].row = req[q].row \/ <<Mart[q], q>> \notin derived
    PROVE  /\ \A x \in Export : Made(x) => Made(x)'
           /\ \A d \in Digests : Outlived(d) => Outlived(d)'
<1>1. \A x \in Export : Made(x) => Made(x)'
  BY DEF Made, Export, Digest
<1>2. ASSUME NEW d \in Digests, Outlived(d) PROVE Outlived(d)'
  <2>1. PICK q \in Publications : /\ <<Mart[q], q>> \in derived /\ Digest(q) = d
                                  /\ req[q].row.at + ExportDays < now
    BY <1>2 DEF Outlived
  <2>2. req[q].row \in Export
    BY <2>1 DEF HInv, ChoiceInv
  <2>3. req'[q].row = req[q].row
    BY <2>1
  <2>4. req[q].row.at \in Nat /\ ExportDays \in Nat /\ now \in Nat /\ now' \in Nat
    BY <2>2, PublishingAssumption DEF Export, TypeOK
  <2>5. req'[q].row.at + ExportDays < now'
    BY <2>1, <2>3, <2>4
  <2>6. <<Mart[q], q>> \in derived' /\ Digest(q)' = d
    BY <2>1 DEF Digest
  <2> QED
    BY <2>5, <2>6 DEF Outlived
<1> QED
  BY <1>1, <1>2

\* A quiet publication keeps its part of the invariant.
LEMMA QuietKeeps ==
    ASSUME NEW q \in Publications, ChoiceInv(q), HeldInv(q), Grows, Quiet(q),
           <<Mart[q], q>> \in derived' => <<Mart[q], q>> \in derived
    PROVE  ChoiceInv(q)' /\ HeldInv(q)'
<1> USE DEF HasRow, HasDictionary, HasFile
<1>1. Digest(q) \in Digests /\ Digest(q)' = Digest(q)
  BY PublishingAssumption DEF Digest
<1>2. Traceable(req[q].row) => Traceable(req[q].row)'
  BY DEF Traceable, Grows, Quiet
<1>3. ChoiceInv(q)'
  BY <1>1, <1>2 DEF ChoiceInv, Quiet
<1>4. HeldInv(q)'
  BY <1>1 DEF HeldInv, Quiet, Grows
<1> QED
  BY <1>3, <1>4

\* A row keeps its part as long as it is there.
LEMMA RowKeeps ==
    ASSUME NEW x \in Export, RowInv(x), Grows, Made(x)'
    PROVE  RowInv(x)'
<1>1. x.digest \in Digests
  BY DEF Export
<1> QED
  BY <1>1 DEF RowInv, Grows

\* A step of which every publication is a quiet spectator, that adds no row and
\* that lets retention look at rows only, keeps the invariant.
LEMMA SpectatorsKeep ==
    ASSUME TypeOK, TypeOK', HInv, Grows, now <= now',
           \A q \in Publications : Quiet(q),
           derived' = derived, exports' \subseteq exports,
           \A t \in Retentions : sweep'[t].todo \cup sweep'[t].gone
                                     \subseteq sweep[t].todo \cup sweep[t].gone \cup exports
    PROVE  HInv'
<1>1. \A q \in Publications : ChoiceInv(q)' /\ HeldInv(q)'
  BY QuietKeeps DEF HInv
<1>2. \A x \in Export : Made(x) => Made(x)'
  BY MadeStays DEF Quiet
<1>3. \A x \in exports' : RowInv(x)'
  <2> SUFFICES ASSUME NEW x \in exports' PROVE RowInv(x)'
    OBVIOUS
  <2>1. x \in exports /\ x \in Export
    BY DEF TypeOK
  <2>2. RowInv(x) /\ Made(x)'
    BY <1>2, <2>1 DEF HInv, RowInv
  <2> QED
    BY <2>1, <2>2, RowKeeps
<1>4. ASSUME NEW t \in Retentions, NEW x \in sweep'[t].todo \cup sweep'[t].gone
      PROVE  Made(x)'
  <2>1. x \in Export
    BY <1>4 DEF TypeOK, Sweep
  <2>2. Made(x)
    BY <1>4 DEF HInv, RowInv
  <2> QED
    BY <1>2, <2>1, <2>2
<1> QED
  BY <1>1, <1>3, <1>4 DEF HInv

\* A step of one publication that removes nothing keeps the invariant if it
\* keeps the publication's own part, and makes a row that has its part.
LEMMA OwnStepKeeps ==
    ASSUME TypeOK, TypeOK', HInv, Grows, UNCHANGED <<now, sweep>>,
           NEW q \in Publications,
           \A p \in Publications : p # q => req'[p] = req[p],
           req'[q].row = req[q].row \/ <<Mart[q], q>> \notin derived,
           \A p \in Publications : p # q =>
               (<<Mart[p], p>> \in derived' => <<Mart[p], p>> \in derived),
           ChoiceInv(q)', HeldInv(q)',
           \A x \in exports' \ exports : RowInv(x)'
    PROVE  HInv'
<1>0. now <= now'
  BY DEF TypeOK
<1>1. \A x \in Export : Made(x) => Made(x)'
  <2>1. \A p \in Publications : req'[p].row = req[p].row \/ <<Mart[p], p>> \notin derived
    OBVIOUS
  <2> QED
    BY <1>0, <2>1, MadeStays DEF Grows
<1>2. \A p \in Publications : ChoiceInv(p)' /\ HeldInv(p)'
  <2> SUFFICES ASSUME NEW p \in Publications, p # q PROVE ChoiceInv(p)' /\ HeldInv(p)'
    OBVIOUS
  <2>1. Quiet(p)
    BY DEF Quiet
  <2> QED
    BY <2>1, QuietKeeps DEF HInv
<1>3. ASSUME NEW x \in exports' PROVE RowInv(x)'
  <2>1. CASE x \in exports
    <3>1. x \in Export
      BY <2>1 DEF TypeOK
    <3>2. RowInv(x) /\ Made(x)'
      BY <1>1, <2>1, <3>1 DEF HInv, RowInv
    <3> QED
      BY <3>1, <3>2, RowKeeps
  <2>2. CASE x \notin exports
    BY <1>3, <2>2
  <2> QED
    BY <2>1, <2>2
<1>4. ASSUME NEW t \in Retentions, NEW x \in sweep'[t].todo \cup sweep'[t].gone
      PROVE  Made(x)'
  <2>1. x \in Export
    BY <1>4 DEF TypeOK, Sweep
  <2>2. Made(x)
    BY <1>4 DEF HInv
  <2> QED
    BY <1>1, <2>1, <2>2
<1> QED
  BY <1>2, <1>3, <1>4 DEF HInv

\* The initial states: nothing is published.
LEMMA InitHInv == Init => HInv
<1> SUFFICES ASSUME Init PROVE HInv
  OBVIOUS
<1>1. \A q \in Publications : req[q].pc = "free"
  BY DEF Init
<1>2. \A q \in Publications : ChoiceInv(q) /\ HeldInv(q)
  BY <1>1 DEF Init, ChoiceInv, HeldInv, HasRow, HasDictionary, HasFile
<1> QED
  BY <1>2 DEF Init, HInv, Idle

\* Marts and lineage are only added and time goes on, whatever the step.
LEMMA OnlyAdded ==
    TypeOK /\ [Next]_vars => /\ marts \subseteq marts' /\ derived \subseteq derived'
                             /\ now <= now'
<1> SUFFICES ASSUME TypeOK, [Next]_vars
             PROVE  marts \subseteq marts' /\ derived \subseteq derived' /\ now <= now'
  OBVIOUS
<1> USE DEF tables
<1>0. now <= now /\ now <= now + 1
  BY DEF TypeOK
<1>1. CASE Tick \/ UNCHANGED vars
  BY <1>0, <1>1 DEF Tick, vars
<1>2. ASSUME NEW b \in Builds, Build(b)
      PROVE  marts \subseteq marts' /\ UNCHANGED <<derived, now>>
  BY <1>2 DEF Build, StoreMart, SelectMart, InsertMart, InsertMartFails, AuditMart
<1>3. ASSUME NEW q \in Publications, Publish(q)
      PROVE  derived \subseteq derived' /\ UNCHANGED <<marts, now>>
  BY <1>3 DEF Publish, Refuse, ReadMart, StoreExport, WriteDictionary,
            SelectDefinition, SelectExport, CommitExport, AuditExport
<1>4. ASSUME NEW q \in Builds \cup Publications, Die(q)
      PROVE  UNCHANGED <<marts, derived, now>>
  BY <1>4 DEF Die
<1>5. ASSUME NEW t \in Retentions, \/ \E d \in BOOLEAN : SelectPolicy(t, d)
                                    \/ ApplyRetention(t) \/ DieInRetention(t)
      PROVE  UNCHANGED <<marts, derived, now>>
  BY <1>5 DEF ApplyRetention, SelectPolicy, SavePolicy, SavePolicyFails, SelectExpired,
            Unlink, UnlinkFails, CommitRetention, AuditRetention, DieInRetention
<1> QED
  BY <1>0, <1>1, <1>2, <1>3, <1>4, <1>5 DEF Next

\* A step that keeps the made rows, the files and the dictionaries only adds.
LEMMA KeepingGrows ==
    ASSUME TypeOK, TypeOK', HInv, [Next]_vars, UNCHANGED dictionary, files \subseteq files',
           \A q \in Publications : req'[q].row = req[q].row \/ <<Mart[q], q>> \notin derived
    PROVE  Grows
<1>1. marts \subseteq marts' /\ derived \subseteq derived' /\ now <= now'
  BY OnlyAdded
<1>2. \A d \in Digests : Outlived(d) => Outlived(d)'
  BY <1>1, MadeStays
<1>3. \A d \in Digests : Described(d) => Described(d)'
  BY <1>1 DEF Described
<1> QED
  BY <1>1, <1>2, <1>3 DEF Grows

\* Every step of a publication keeps the invariant.
LEMMA PublicationKeeps ==
    ASSUME IInv, TypeOK', HInv, NEW q \in Publications, Publish(q)
    PROVE  HInv'
<1> USE PublishingAssumption
<1>0. /\ TypeOK /\ PublishInv /\ ExportsTraceable /\ [Next]_vars
      /\ ChoiceInv(q) /\ HeldInv(q)
  BY DEF IInv, HInv, Next
<1>d. Digest(q) \in Digests /\ Digest(q)' = Digest(q)
  BY DEF Digest
<1>1. ASSUME Refuse(q) \/ ReadMart(q) \/ AuditExport(q) PROVE HInv'
  <2>1. /\ UNCHANGED <<derived, exports, files, dictionary, sweep, now>>
        /\ \/ req[q].pc = "free" /\ (Goto(q, "refused") \/ Goto(q, "records"))
           \/ req[q].pc = "committed" /\ Goto(q, "ok")
    BY <1>1 DEF Refuse, ReadMart, AuditExport, tables
  <2>2. \A p \in Publications : Quiet(p)
    BY <1>0, <2>1, GotoEffect DEF Quiet
  <2>3. Grows
    BY <1>0, <2>1, <2>2, KeepingGrows DEF Quiet
  <2>4. now <= now'
    BY <1>0, OnlyAdded
  <2> QED
    BY <1>0, <2>1, <2>2, <2>3, <2>4, SpectatorsKeep
<1>2. ASSUME StoreExport(q) PROVE HInv'
  <2>1. /\ UNCHANGED <<derived, exports, dictionary, sweep, now>> /\ Goto(q, "stored")
        /\ files' = files \cup {Digest(q)} /\ req[q].pc = "records"
    BY <1>2 DEF StoreExport, tables
  <2>2. /\ \A p \in Publications : p # q => req'[p] = req[p]
        /\ req'[q].pc = "stored" /\ req'[q].row = req[q].row
    BY <1>0, <2>1, GotoEffect
  <2>3. Grows
    BY <1>0, <2>1, <2>2, KeepingGrows
  <2>4. ChoiceInv(q)' /\ HeldInv(q)'
    BY <1>0, <1>d, <2>1, <2>2 DEF ChoiceInv, HeldInv, HasRow, HasDictionary, HasFile
  <2> QED
    BY <1>0, <2>1, <2>2, <2>3, <2>4, OwnStepKeeps
<1>3. ASSUME WriteDictionary(q) PROVE HInv'
  <2>1. /\ UNCHANGED <<derived, exports, marts, files, sweep, now>> /\ Goto(q, "described")
        /\ dictionary' = [dictionary EXCEPT ![Digest(q)] =
                             [version |-> Version[q], mart |-> Mart[q]]]
        /\ req[q].pc = "stored"
    BY <1>3 DEF WriteDictionary, tables
  <2>2. /\ \A p \in Publications : p # q => req'[p] = req[p]
        /\ req'[q].pc = "described" /\ req'[q].row = req[q].row
    BY <1>0, <2>1, GotoEffect
  <2>3. \A d \in Digests : Outlived(d) => Outlived(d)'
    <3>1. \A p \in Publications : req'[p].row = req[p].row
      BY <2>2
    <3> QED
      BY <2>1, <3>1 DEF Outlived, Digest
  <2>4. Described(Digest(q))'
    <3>1. Mart[q] \in marts
      BY <1>0, <2>1 DEF PublishInv
    <3>2. dictionary'[Digest(q)] = [version |-> Version[q], mart |-> Mart[q]]
      BY <1>0, <1>d, <2>1 DEF TypeOK
    <3>3. dictionary'[Digest(q)] \in Dictionary
      BY <3>2 DEF Dictionary
    <3> QED
      BY <1>d, <2>1, <3>1, <3>2, <3>3 DEF Described, Digest
  <2>5. \A d \in Digests : Described(d) => Described(d)'
    <3>1. \A d \in Digests : d # Digest(q) => dictionary'[d] = dictionary[d]
      BY <1>0, <2>1 DEF TypeOK
    <3> QED
      BY <1>d, <2>1, <2>4, <3>1 DEF Described
  <2>6. Grows
    BY <2>1, <2>3, <2>5 DEF Grows
  <2>7. ChoiceInv(q)' /\ HeldInv(q)'
    <3>1. Digest(q) \in files' \/ Outlived(Digest(q))'
      BY <1>0, <1>d, <2>1, <2>3 DEF HeldInv, HasFile
    <3> QED
      BY <1>0, <1>d, <2>1, <2>2, <2>4, <3>1 DEF ChoiceInv, HeldInv, HasRow, HasDictionary, HasFile
  <2> QED
    BY <1>0, <2>1, <2>2, <2>6, <2>7, OwnStepKeeps
<1>4. ASSUME SelectDefinition(q) \/ SelectExport(q),
             req'[q].pc \in {"defined", "chosen"}, req[q].pc \in {"described", "defined"},
             \A p \in Publications : p # q => req'[p] = req[p],
             req'[q].pc = "chosen" =>
                 /\ req'[q].row \in Export /\ req'[q].row.digest = Digest(q)
                 /\ Version[req'[q].row.definition] = Version[q]
                 /\ req'[q].row.id = q \/ Traceable(req'[q].row)
      PROVE  HInv'
  <2>1. UNCHANGED <<derived, marts, exports, files, dictionary, sweep, now>>
    BY <1>4 DEF SelectDefinition, SelectExport, tables
  <2>2. <<Mart[q], q>> \notin derived
    BY <1>0, <1>4 DEF ChoiceInv
  <2>3. Grows
    BY <1>0, <1>4, <2>1, <2>2, KeepingGrows
  <2>4. HeldInv(q)'
    BY <1>0, <1>4, <1>d, <2>3 DEF HeldInv, HasFile, HasDictionary, HasRow, Grows
  <2>5. ChoiceInv(q)'
    <3>1. Traceable(req'[q].row) => Traceable(req[q].row)'
      BY <2>1 DEF Traceable
    <3> QED
      BY <1>4, <1>d, <2>1, <2>2, <3>1 DEF ChoiceInv, HasRow
  <2> QED
    BY <1>0, <1>4, <2>1, <2>2, <2>3, <2>4, <2>5, OwnStepKeeps
<1>5. ASSUME SelectDefinition(q) PROVE HInv'
  <2>1. PICK d : req' = [req EXCEPT ![q] = [pc |-> "defined", definition |-> d, row |-> None]]
    BY <1>5 DEF SelectDefinition
  <2>2. req'[q].pc = "defined" /\ \A p \in Publications : p # q => req'[p] = req[p]
    BY <1>0, <2>1 DEF TypeOK
  <2>3. req[q].pc = "described"
    BY <1>5 DEF SelectDefinition
  <2> QED
    BY <1>4, <1>5, <2>2, <2>3
<1>6. ASSUME SelectExport(q) PROVE HInv'
  <2>1. PICK x \in IF Existing(q) = {} THEN {NewExport(q)} ELSE Existing(q) :
            req' = [req EXCEPT ![q] = [pc |-> "chosen", row |-> x,
                                       definition |-> req[q].definition]]
    BY <1>6 DEF SelectExport
  <2>2. /\ req'[q].pc = "chosen" /\ req'[q].row = x
        /\ \A p \in Publications : p # q => req'[p] = req[p]
    BY <1>0, <2>1 DEF TypeOK
  <2>3. /\ req[q].pc = "defined" /\ req[q].definition \in Publications
        /\ Version[req[q].definition] = Version[q]
    BY <1>0, <1>6 DEF SelectExport, PublishInv
  <2>4. CASE x \in Existing(q)
    <3>1. x \in exports /\ x.definition = req[q].definition /\ x.digest = Digest(q)
      BY <2>4 DEF Existing
    <3>2. x \in Export /\ Traceable(x)
      BY <1>0, <3>1 DEF TypeOK, ExportsTraceable
    <3> QED
      BY <1>4, <1>6, <2>2, <2>3, <3>1, <3>2
  <2>5. CASE x = NewExport(q)
    <3>1. /\ x \in Export /\ x.id = q /\ x.digest = Digest(q)
          /\ x.definition = req[q].definition
      BY <1>0, <1>d, <2>3, <2>5 DEF NewExport, Export, TypeOK
    <3> QED
      BY <1>4, <1>6, <2>2, <2>3, <3>1
  <2> QED
    BY <2>1, <2>4, <2>5
<1>7. ASSUME CommitExport(q) PROVE HInv'
  <2> DEFINE x == req[q].row
  <2>1. /\ req[q].pc = "chosen" /\ Goto(q, "committed")
        /\ UNCHANGED <<marts, files, dictionary, sweep, now>>
        /\ \/ x.id = q /\ exports' = exports \cup {x}
              /\ derived' = derived \cup {<<Mart[q], q>>}
           \/ x.id # q /\ UNCHANGED <<exports, derived>>
    BY <1>7 DEF CommitExport
  <2>2. /\ \A p \in Publications : p # q => req'[p] = req[p]
        /\ req'[q].pc = "committed" /\ req'[q].row = x
    BY <1>0, <2>1, GotoEffect
  <2>3. Grows
    BY <1>0, <2>1, <2>2, KeepingGrows
  <2>4. /\ x \in Export /\ x.digest = Digest(q) /\ Version[x.definition] = Version[q]
        /\ x.id = q \/ Traceable(x)
    BY <1>0, <2>1 DEF ChoiceInv, HasRow
  <2>5. Traceable(x)'
    <3>1. CASE x.id = q
      <4>1. Mart[q] \in marts /\ <<Mart[q], q>> \in derived'
        BY <1>0, <2>1, <3>1 DEF PublishInv
      <4> QED
        BY <2>1, <2>2, <2>4, <3>1, <4>1 DEF Traceable, Digest
    <3>2. CASE x.id # q
      BY <2>2, <2>3, <2>4, <3>2 DEF Traceable, Grows
    <3> QED
      BY <3>1, <3>2
  <2>6. ChoiceInv(q)'
    BY <1>d, <2>2, <2>4, <2>5 DEF ChoiceInv, HasRow
  <2>7. HeldInv(q)'
    BY <1>0, <1>d, <2>1, <2>2, <2>3 DEF HeldInv, HasFile, HasDictionary, HasRow, Grows
  <2>8. ASSUME NEW y \in exports' \ exports PROVE RowInv(y)'
    <3>1. y = x /\ x.id = q /\ <<Mart[q], q>> \in derived'
      BY <2>1, <2>8
    <3>2. Made(y)'
      BY <1>d, <2>2, <2>4, <3>1 DEF Made
    <3>3. y.digest = Digest(q)
      BY <2>4, <3>1
    <3> QED
      BY <1>d, <2>2, <2>7, <3>2, <3>3 DEF RowInv, HeldInv, HasFile, HasDictionary, HasRow
  <2>9. \A p \in Publications : p # q =>
            (<<Mart[p], p>> \in derived' => <<Mart[p], p>> \in derived)
    BY <2>1
  <2> HIDE DEF x
  <2>10. req'[q].row = req[q].row
    BY <2>2 DEF x
  <2> QED
    BY <1>0, <2>1, <2>2, <2>3, <2>6, <2>7, <2>8, <2>9, <2>10, OwnStepKeeps
<1> QED
  BY <1>1, <1>2, <1>3, <1>5, <1>6, <1>7 DEF Publish

\* Every step of a build, of a retention, of the clock and every death keeps it:
\* retention unlinks the files of rows that were made and have expired.
LEMMA OthersKeep ==
    ASSUME IInv, TypeOK', HInv, [Next]_vars,
           \A q \in Publications : ~Publish(q)
    PROVE  HInv'
<1> USE PublishingAssumption DEF tables
<1>0. TypeOK /\ SweepInv /\ now <= now'
  BY OnlyAdded DEF IInv
<1>1. ASSUME \A q \in Publications : Quiet(q),
             UNCHANGED <<derived, dictionary, exports, sweep>>, files \subseteq files'
      PROVE  HInv'
  <2>1. Grows
    BY <1>0, <1>1, KeepingGrows DEF Quiet
  <2> QED
    BY <1>0, <1>1, <2>1, SpectatorsKeep
<1>2. CASE Tick \/ UNCHANGED vars
  BY <1>1, <1>2 DEF Tick, vars, Quiet
<1>3. ASSUME NEW b \in Builds, Build(b) PROVE HInv'
  <2>1. UNCHANGED <<derived, dictionary, exports, sweep, files>>
    BY <1>3 DEF Build, StoreMart, SelectMart, InsertMart, InsertMartFails, AuditMart
  <2>2. \A p \in Publications : req'[p] = req[p]
    BY <1>0, <1>3, ZenonT(60) DEF Build, StoreMart, SelectMart, InsertMart, InsertMartFails,
                       AuditMart, Goto, TypeOK
  <2> QED
    BY <1>1, <2>1, <2>2 DEF Quiet
<1>4. ASSUME NEW q \in Builds \cup Publications, Die(q) PROVE HInv'
  <2>1. Goto(q, "dead") /\ UNCHANGED <<derived, dictionary, exports, sweep, files>>
    BY <1>4 DEF Die
  <2>2. \A p \in Publications : Quiet(p)
    BY <1>0, <2>1, GotoEffect DEF Quiet
  <2> QED
    BY <1>1, <2>1, <2>2
<1>5. ASSUME NEW t \in Retentions, NEW new, sweep' = [sweep EXCEPT ![t] = new],
             UNCHANGED <<req, derived, dictionary, files>>, exports' \subseteq exports,
             new.todo \cup new.gone \subseteq sweep[t].todo \cup sweep[t].gone \cup exports
      PROVE  HInv'
  <2>1. \A q \in Publications : Quiet(q)
    BY <1>5 DEF Quiet
  <2>2. Grows
    BY <1>0, <1>5, KeepingGrows
  <2>3. sweep'[t] = new /\ \A u \in Retentions : u # t => sweep'[u] = sweep[u]
    BY <1>0, <1>5 DEF TypeOK
  <2> QED
    BY <1>0, <1>5, <2>1, <2>2, <2>3, SpectatorsKeep
<1>6. Idle.todo = {} /\ Idle.gone = {}
  BY DEF Idle
<1>7. ASSUME NEW t \in Retentions, NEW d \in BOOLEAN, SelectPolicy(t, d) PROVE HInv'
  <2> DEFINE new == [Idle EXCEPT !.pc = IF policy THEN "present" ELSE "absent",
                                 !.dry_run = d]
  <2>1. new.todo = {} /\ new.gone = {}
    BY DEF Idle
  <2>2. sweep' = [sweep EXCEPT ![t] = new] /\ UNCHANGED <<req, derived, dictionary, files, exports>>
    BY <1>7 DEF SelectPolicy
  <2> HIDE DEF new
  <2> QED
    BY <1>5, <2>1, <2>2
<1>8. ASSUME NEW t \in Retentions, SavePolicy(t) PROVE HInv'
  <2> DEFINE new == [sweep[t] EXCEPT !.pc = "select"]
  <2>1. sweep' = [sweep EXCEPT ![t] = new] /\ UNCHANGED <<req, derived, dictionary, files, exports>>
    BY <1>8 DEF SavePolicy
  <2>2. new.todo = sweep[t].todo /\ new.gone = sweep[t].gone
    BY <1>0 DEF TypeOK, Sweep
  <2> HIDE DEF new
  <2> QED
    BY <1>5, <2>1, <2>2
<1>9. ASSUME NEW t \in Retentions, \/ SavePolicyFails(t) \/ AuditRetention(t)
                                    \/ DieInRetention(t) \/ \E x : UnlinkFails(t, x)
      PROVE  HInv'
  <2>1. sweep' = [sweep EXCEPT ![t] = Idle] /\ UNCHANGED <<req, derived, dictionary, files, exports>>
    BY <1>9 DEF SavePolicyFails, AuditRetention, DieInRetention, UnlinkFails
  <2> QED
    BY <1>5, <1>6, <2>1
<1>10. ASSUME NEW t \in Retentions, SelectExpired(t) PROVE HInv'
  <2> DEFINE none == [Idle EXCEPT !.pc = "audit"]
             some == [pc |-> "unlink", dry_run |-> FALSE, gone |-> {},
                      todo |-> {x \in exports : Expired(x)}]
  <2>1. /\ none.todo = {} /\ none.gone = {}
        /\ some.todo \cup some.gone \subseteq exports
    BY DEF Idle
  <2>2. /\ UNCHANGED <<req, derived, dictionary, files, exports>>
        /\ sweep' = [sweep EXCEPT ![t] = none] \/ sweep' = [sweep EXCEPT ![t] = some]
    BY <1>10 DEF SelectExpired
  <2> HIDE DEF none, some
  <2> QED
    BY <1>5, <2>1, <2>2
<1>11. ASSUME NEW t \in Retentions, CommitRetention(t) PROVE HInv'
  <2> DEFINE new == [Idle EXCEPT !.pc = "audit"]
  <2>1. new.todo = {} /\ new.gone = {}
    BY DEF Idle
  <2>2. /\ sweep' = [sweep EXCEPT ![t] = new] /\ UNCHANGED <<req, derived, dictionary, files>>
        /\ exports' \subseteq exports
    BY <1>11 DEF CommitRetention
  <2> HIDE DEF new
  <2> QED
    BY <1>5, <2>1, <2>2
<1>12. ASSUME NEW t \in Retentions, NEW x \in sweep[t].todo, Unlink(t, x) PROVE HInv'
  <2> DEFINE new == [pc |-> "unlink", dry_run |-> FALSE,
                     todo |-> sweep[t].todo \ {x}, gone |-> sweep[t].gone \cup {x}]
  <2>1. /\ sweep' = [sweep EXCEPT ![t] = new] /\ files' = files \ {x.digest}
        /\ UNCHANGED <<req, derived, dictionary, exports, marts, now>>
    BY <1>12 DEF Unlink
  <2>2. new.todo \cup new.gone \subseteq sweep[t].todo \cup sweep[t].gone
    BY <1>12
  <2>3. sweep'[t] = new /\ \A u \in Retentions : u # t => sweep'[u] = sweep[u]
    BY <1>0, <2>1 DEF TypeOK
  <2>4. x \in Export /\ Made(x) /\ x.at + ExportDays < now
    BY <1>0, <1>12 DEF TypeOK, Sweep, HInv, SweepInv
  <2>5. Outlived(x.digest)'
    BY <2>1, <2>4 DEF Outlived, Made, Export, Digest
  <2>6. \A d \in Digests : (Outlived(d) => Outlived(d)') /\ (Described(d) => Described(d)')
    BY <2>1 DEF Outlived, Described, Digest
  <2>7. Grows
    BY <2>1, <2>5, <2>6 DEF Grows
  <2>8. \A q \in Publications : Quiet(q)
    BY <2>1 DEF Quiet
  <2> HIDE DEF new
  <2> QED
    BY <1>0, <2>1, <2>2, <2>3, <2>7, <2>8, SpectatorsKeep
<1> QED
  BY <1>2, <1>3, <1>4, <1>7, <1>8, <1>9, <1>10, <1>11, <1>12, Zenon DEF Next, ApplyRetention

\* The invariant is inductive next to the first one, and always holds.
LEMMA AlwaysHInv == Spec => []HInv
<1>1. IInv /\ IInv' /\ HInv /\ [Next]_vars => HInv'
  BY PublicationKeeps, OthersKeep DEF IInv
<1> QED
  BY <1>1, InitHInv, AlwaysIInv, PTL DEF Spec

\* An answered build_mart has its row, and the snapshot an answered
\* publish_export names has the bytes and the version that were asked for and
\* is traceable, for any number of requests that may die anywhere.
THEOREM AnswersAreSound == Spec => []AnswersSound
<1>1. IInv /\ HInv => AnswersSound
  BY DEF IInv, BuildInv, HInv, ChoiceInv, HasRow, AnswersSound
<1> QED
  BY <1>1, AlwaysIInv, AlwaysHInv, PTL

\* Together: whatever MartService, ExportService and retention do next to each
\* other, rows and answers stand for files, marts and snapshots as they should.
THEOREM RowsAreSound == Spec => []RowsSound
  BY TypeCorrect, MartsAreBacked, ExportsAreTraceable, AnswersAreSound, PTL DEF RowsSound

\* What ExportService.publish stored is lost only to apply_export_retention of
\* an expired row with the same bytes, and its dictionary is always there and
\* describes the bytes, for any sharing of bytes and any number of publications
\* and retentions that may die anywhere.
THEOREM ExportsAreHeld == Spec => []ExportsHeld
<1>1. HInv => ExportsHeld
  <2> SUFFICES ASSUME HInv, NEW d \in Published
               PROVE  (d \in files \/ Outlived(d)) /\ Described(d)
    BY DEF ExportsHeld
  <2>1. CASE \E x \in exports : x.digest = d
    BY <2>1 DEF HInv, RowInv
  <2>2. CASE \E q \in Publications : req[q].pc = "ok" /\ Digest(q) = d
    BY <2>2 DEF HInv, HeldInv, HasFile, HasDictionary, HasRow
  <2> QED
    BY <2>1, <2>2 DEF Published
<1> QED
  BY <1>1, AlwaysHInv, PTL
==============================================================================
