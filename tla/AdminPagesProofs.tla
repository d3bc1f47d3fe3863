-------------------------- MODULE AdminPagesProofs --------------------------
(***************************************************************************)
(* Theorems about the listing pages and the integration form, for any      *)
(* collections, page size, configurations and bounds, and whichever page   *)
(* of the frontends the administrator is on.                               *)
(*                                                                         *)
(* None of the properties is inductive.  handleDelete of the card does not *)
(* look at saving: it is safe because a form that is saving is not left    *)
(* for the card before its answer, and the draft of a card stays that of   *)
(* the card because fields are only typed in an open form: FormInv says    *)
(* both.  What a table shows depends on the requests under way: whose view *)
(* they have (LoadsInv), where their rows start and end, and who was there *)
(* since they were read (VotersInv).  What a write may do to an election   *)
(* is what its check found before (WritersInv).                            *)
(***************************************************************************)
EXTENDS AdminPages, FiniteSetTheorems, SequenceTheorems, TLAPS

FormInv ==
    /\ FormTypeOK
    /\ EditStartsFromCard
    /\ SaveAndRemoveExclude
    /\ mode.kind \in {"loading", "configured"} =>
          ~mode.configuring /\ saving.at = "none"
    /\ mode.kind = "loading" => deleting = "none"

(* The forms the page can be in.                                           *)
FormModes == [kind : {"loading", "configured", "adding", "editing"},
           integration : Configs \union {None}, configuring : BOOLEAN]

LEMMA CardType ==
    ASSUME NEW config \in Configs
    PROVE  /\ Configured(config) \in FormModes
           /\ Configured(config).kind = "configured"
           /\ Configured(config).integration = config
           /\ Configured(config).configuring = FALSE
  BY DEF Configured, FormModes

LEMMA PickerType ==
    /\ Adding \in FormModes /\ LoadingForm \in FormModes
    /\ Adding.kind = "adding" /\ LoadingForm.kind = "loading"
    /\ Adding.integration = None /\ LoadingForm.integration = None
    /\ Adding.configuring = FALSE /\ LoadingForm.configuring = FALSE
  BY DEF Adding, LoadingForm, FormModes

LEMMA NotSavingType ==
    /\ NotSaving \in [at : {"none", "sent", "saved", "failed"}, config : Configs]
    /\ NotSaving.at = "none"
  BY EmptyIsAConfig DEF NotSaving

LEMMA FormOpens == FormInit => FormInv
  BY EmptyIsAConfig, MaxSavesIsNat, NoneIsNoConfig, PickerType, NotSavingType
  DEF FormInit, FormInv, FormTypeOK, EditStartsFromCard, SaveAndRemoveExclude,
      FormModes

(* The requests change what is stored and how they stand, not the page.    *)
LEMMA RequestsKeepForm ==
    FormInv /\ (upsertIntegration \/ deleteIntegration \/ RequestRefused
                   \/ AnotherAdmin) => FormInv'
<1> SUFFICES ASSUME FormInv, upsertIntegration \/ deleteIntegration
                                \/ RequestRefused \/ AnotherAdmin
             PROVE  FormInv'
  OBVIOUS
<1> USE MaxSavesIsNat DEF FormInv, FormTypeOK, EditStartsFromCard,
        SaveAndRemoveExclude, Changed, Outcomes
<1>1. CASE upsertIntegration
  BY <1>1 DEF upsertIntegration
<1>2. CASE deleteIntegration
  BY <1>2 DEF deleteIntegration
<1>3. CASE RequestRefused
  BY <1>3 DEF RequestRefused, backendIdle
<1>4. CASE AnotherAdmin
  BY <1>4 DEF AnotherAdmin
<1> QED
  BY <1>1, <1>2, <1>3, <1>4

(* The answers: a save or a removal that was done brings another card, or  *)
(* the picker, with a draft that is its own.                               *)
LEMMA AnswersKeepForm ==
    FormInv /\ (FormLoaded \/ SaveAnswered \/ DeleteAnswered) => FormInv'
<1> SUFFICES ASSUME FormInv, FormLoaded \/ SaveAnswered \/ DeleteAnswered
             PROVE  FormInv'
  OBVIOUS
<1> USE EmptyIsAConfig, NoneIsNoConfig, PickerType, NotSavingType
    DEF FormInv, FormTypeOK, EditStartsFromCard, SaveAndRemoveExclude,
        backendIdle, FormModes
<1>1. CASE FormLoaded
  <2>1. stored # None => stored \in Configs /\ stored # None
    OBVIOUS
  <2>2. CASE stored # None /\ mode' = Configured(stored) /\ draft' = stored
    <3>1. /\ mode' \in FormModes /\ mode'.kind = "configured"
          /\ mode'.integration = stored /\ mode'.configuring = FALSE
      BY <2>1, <2>2, CardType
    <3> QED
      BY <1>1, <2>1, <2>2, <3>1 DEF FormLoaded
  <2>3. CASE mode' = Adding /\ draft' = draft
    BY <1>1, <2>3 DEF FormLoaded
  <2> QED
    BY <1>1, <2>2, <2>3 DEF FormLoaded
<1>2. CASE SaveAnswered
  <2>1. saving.config \in Configs /\ saving.config # None
    OBVIOUS
  <2>2. CASE saving.at = "saved"
    <3>1. mode' = Configured(saving.config) /\ draft' = saving.config
      BY <1>2, <2>2 DEF SaveAnswered
    <3>2. /\ mode' \in FormModes /\ mode'.kind = "configured"
          /\ mode'.integration = saving.config /\ mode'.configuring = FALSE
      BY <2>1, <3>1, CardType
    <3> QED
      BY <1>2, <2>1, <2>2, <3>1, <3>2 DEF SaveAnswered
  <2>3. CASE saving.at = "failed"
    BY <1>2, <2>3 DEF SaveAnswered
  <2> QED
    BY <1>2, <2>2, <2>3 DEF SaveAnswered
<1>3. CASE DeleteAnswered
  BY <1>3 DEF DeleteAnswered
<1> QED
  BY <1>1, <1>2, <1>3

(* What the administrator does.                                            *)
LEMMA ClicksKeepForm == FormInv /\ FormActs => FormInv'
<1> SUFFICES ASSUME FormInv, FormActs
             PROVE  FormInv'
  OBVIOUS
<1> USE DEF FormInv, FormTypeOK, EditStartsFromCard, SaveAndRemoveExclude,
        backendIdle
<1>1. CASE handleConfigure
  BY <1>1 DEF handleConfigure
<1>2. ASSUME NEW config \in Configs, Type(config)
      PROVE  FormInv'
  BY <1>2 DEF Type
<1>3. CASE handleSave
  BY <1>3 DEF handleSave
<1>4. CASE handleDelete
  BY <1>4 DEF handleDelete
<1>5. CASE handleEdit
  BY <1>5 DEF handleEdit
<1>6. CASE handleCancelEdit
  BY <1>6, CardType, NoneIsNoConfig DEF handleCancelEdit, FormModes
<1> QED
  BY <1>1, <1>2, <1>3, <1>4, <1>5, <1>6 DEF FormActs

LEMMA StepKeepsForm == FormInv /\ [Next]_vars => FormInv'
<1> SUFFICES ASSUME FormInv, [Next]_vars
             PROVE  FormInv'
  OBVIOUS
<1>1. CASE UNCHANGED formVars
  BY <1>1 DEF FormInv, FormTypeOK, EditStartsFromCard, SaveAndRemoveExclude,
              formVars
<1>2. CASE FormAnswers \/ FormActs \/ AnotherAdmin
  BY <1>2, RequestsKeepForm, AnswersKeepForm, ClicksKeepForm DEF FormAnswers
<1> QED
  BY <1>1, <1>2 DEF Next, vars, TableMoves, FormMoves

LEMMA FormStays == Spec => []FormInv
<1>1. Init => FormInv
  BY FormOpens DEF Init
<1> QED
  BY <1>1, StepKeepsForm, PTL DEF Spec

(* Edit opens the form on what the card shows, whatever was typed,         *)
(* cancelled, saved or removed before (IntegrationForm).                   *)
THEOREM CardHoldsItsDraft == Spec => []EditStartsFromCard
<1>1. FormInv => EditStartsFromCard
  BY DEF FormInv
<1> QED
  BY <1>1, FormStays, PTL

(* A save and a removal of the integration are never under way at once,    *)
(* although the card's button does not look at the save (IntegrationForm). *)
THEOREM SaveExcludesRemove == Spec => []SaveAndRemoveExclude
<1>1. FormInv => SaveAndRemoveExclude
  BY DEF FormInv
<1> QED
  BY <1>1, FormStays, PTL

-----------------------------------------------------------------------------
(* Rows in their order                                                     *)

(* The rank of an item among items is how many there are up to it: it puts *)
(* any finite collection in order.                                         *)
UpTo(items, i) == {j \in items : j <= i}

LEMMA RankGrows ==
    ASSUME NEW items, items \subseteq Nat, IsFiniteSet(items),
           NEW i \in items, NEW k \in items, i < k
    PROVE  Cardinality(UpTo(items, i)) < Cardinality(UpTo(items, k))
<1>1. UpTo(items, i) \subseteq UpTo(items, k) /\ UpTo(items, k) \subseteq items
  <2>1. \A j \in items : j <= i => j <= k
    OBVIOUS
  <2> QED
    BY <2>1 DEF UpTo
<1>2. k \in UpTo(items, k) /\ k \notin UpTo(items, i)
  BY DEF UpTo
<1>3. IsFiniteSet(UpTo(items, k)) /\ IsFiniteSet(UpTo(items, i))
  BY <1>1, FS_Subset
<1>4. /\ Cardinality(UpTo(items, i)) <= Cardinality(UpTo(items, k))
      /\ Cardinality(UpTo(items, k)) # Cardinality(UpTo(items, i))
  BY <1>1, <1>2, <1>3, FS_Subset
<1>5. Cardinality(UpTo(items, i)) \in Nat /\ Cardinality(UpTo(items, k)) \in Nat
  BY <1>3, FS_CardinalityType
<1> QED
  BY <1>4, <1>5

LEMMA Orders ==
    ASSUME NEW items, items \subseteq Nat, IsFiniteSet(items)
    PROVE  \E s \in [1 .. Cardinality(items) -> items] :
               \A n, m \in DOMAIN s : n < m => s[n] < s[m]
<1> DEFINE size == Cardinality(items)
           rank == [i \in items |-> Cardinality(UpTo(items, i))]
<1>1. size \in Nat
  BY FS_CardinalityType
<1>2. ASSUME NEW i \in items
      PROVE  rank[i] \in 1 .. size
  <2>1. UpTo(items, i) \subseteq items /\ UpTo(items, i) # {}
    BY DEF UpTo
  <2>2. IsFiniteSet(UpTo(items, i)) /\ Cardinality(UpTo(items, i)) <= size
    BY <2>1, FS_Subset
  <2>3. Cardinality(UpTo(items, i)) \in Nat /\ Cardinality(UpTo(items, i)) # 0
    BY <2>1, <2>2, FS_CardinalityType, FS_EmptySet
  <2> QED
    BY <1>1, <2>2, <2>3
<1>3. \A i, k \in items : i < k => rank[i] < rank[k]
  BY RankGrows
<1>4. rank \in [items -> 1 .. size]
  BY <1>2
<1> HIDE DEF rank, size
<1>5. rank \in Injection(items, 1 .. size)
  <2>1. \A i, k \in items : rank[i] = rank[k] => i = k
    <3> SUFFICES ASSUME NEW i \in items, NEW k \in items, rank[i] = rank[k]
                 PROVE  i = k
      OBVIOUS
    <3>1. i \in Nat /\ k \in Nat /\ rank[i] \in Nat /\ rank[k] \in Nat
      BY <1>1, <1>4
    <3>2. ~(i < k) /\ ~(k < i)
      BY <1>3, <3>1
    <3> QED
      BY <3>1, <3>2
  <2> QED
    BY <1>4, <2>1 DEF Injection, IsInjective
<1>6. rank \in Surjection(items, 1 .. size)
  <2>1. IsFiniteSet(1 .. size) /\ Cardinality(1 .. size) = size
    BY <1>1, FS_Interval
  <2>2. Cardinality(items) = Cardinality(1 .. size)
    BY <2>1 DEF size
  <2> QED
    BY <1>5, <2>1, <2>2, FS_Injection
<1>7. \A n \in 1 .. size : \E i \in items : rank[i] = n
  BY <1>6 DEF Surjection
<1> DEFINE s == [n \in 1 .. size |-> CHOOSE i \in items : rank[i] = n]
<1>8. \A n \in 1 .. size : s[n] \in items /\ rank[s[n]] = n
  BY <1>7
<1>9. s \in [1 .. size -> items]
  BY <1>8
<1> HIDE DEF s
<1>10. ASSUME NEW n \in 1 .. size, NEW m \in 1 .. size, n < m
       PROVE  s[n] < s[m]
  <2>1. s[n] \in Nat /\ s[m] \in Nat /\ s[n] \in items /\ s[m] \in items
    BY <1>8
  <2>2. rank[s[n]] < rank[s[m]]
    BY <1>8, <1>10
  <2>3. s[n] # s[m] /\ ~(s[m] < s[n])
    BY <1>1, <1>3, <1>8, <2>1, <2>2
  <2> QED
    BY <2>1, <2>3
<1>11. \A n, m \in DOMAIN s : n < m => s[n] < s[m]
  BY <1>9, <1>10
<1> QED
  BY <1>9, <1>11 DEF size

(* ORDER BY lists each item of a collection, and each once.                *)
Lists(s, items) ==
    /\ Cardinality(items) \in Nat
    /\ s \in [1 .. Cardinality(items) -> items]
    /\ \A n, m \in 1 .. Cardinality(items) : n < m => s[n] < s[m]
    /\ \A i \in items : \E n \in 1 .. Cardinality(items) : s[n] = i

LEMMA InOrderLists ==
    ASSUME NEW items, items \subseteq Nat, IsFiniteSet(items),
           NEW s, s = InOrder(items)
    PROVE  Lists(s, items)
<1>1. Cardinality(items) \in Nat
  BY FS_CardinalityType
<1>2. /\ s \in [1 .. Cardinality(items) -> items]
      /\ \A n, m \in DOMAIN s : n < m => s[n] < s[m]
  BY Orders DEF InOrder
<1>3. \A n, m \in 1 .. Cardinality(items) : n < m => s[n] < s[m]
  BY <1>2
<1>4. s \in Injection(1 .. Cardinality(items), items)
  <2>1. \A n, m \in 1 .. Cardinality(items) : s[n] = s[m] => n = m
    <3> SUFFICES ASSUME NEW n \in 1 .. Cardinality(items),
                        NEW m \in 1 .. Cardinality(items), s[n] = s[m]
                 PROVE  n = m
      OBVIOUS
    <3>1. s[n] \in Nat /\ s[m] \in Nat
      BY <1>2
    <3>2. ~(n < m) /\ ~(m < n)
      BY <1>3, <3>1
    <3> QED
      BY <1>1, <3>2
  <2> QED
    BY <1>2, <2>1 DEF Injection, IsInjective
<1>5. s \in Surjection(1 .. Cardinality(items), items)
  <2>1. IsFiniteSet(1 .. Cardinality(items))
        /\ Cardinality(1 .. Cardinality(items)) = Cardinality(items)
    BY <1>1, FS_Interval
  <2> QED
    BY <1>4, <2>1, FS_Injection
<1>6. \A i \in items : \E n \in 1 .. Cardinality(items) : s[n] = i
  BY <1>5 DEF Surjection
<1> QED
  BY <1>1, <1>2, <1>3, <1>6 DEF Lists

-----------------------------------------------------------------------------
(* The tables                                                              *)

(* Rows go on from the item from to the item next, or to the end if it is  *)
(* 0: they are in order, and have all of the items were that are between.  *)
InRow(rows, from, next) ==
    /\ \A n, m \in DOMAIN rows : n < m => rows[n].item < rows[m].item
    /\ \A n \in DOMAIN rows : from < rows[n].item /\ (next # 0 => rows[n].item <= next)
    /\ next # 0 => from < next

Misses(rows, from, next, were) ==
    {i \in were : /\ from < i /\ (next # 0 => i <= next)
                  /\ \A n \in DOMAIN rows : rows[n].item # i}

Reads(rows, from, next, were) ==
    InRow(rows, from, next) /\ Misses(rows, from, next, were) = {}

(* The requests for rows on the way, and what the view has to do with them.*)
LoadsInv ==
    kind # "dashboard" =>
        /\ \A s \in Slots :
              load[s].at # "none" => load[s].by = "reload" \/
                 (load[s].view = view /\ s \in {"effect", "more"})
        /\ kind # "voters" => load["more"].at = "none"
        /\ Shown => table.by = "reload" \/ table.of = view

(* While nothing crosses, a further page goes on where the table ends, and *)
(* nobody who was there when the table was read has been lost to it.       *)
VotersInv ==
    kind = "voters" =>
        /\ \A r \in DOMAIN since : since[r] \subseteq present
        /\ \A s \in Slots \ {"more"} : load[s].after = 0
        /\ \A s \in Slots : load[s].at = "answered" =>
              Reads(load[s].rows, load[s].after, load[s].next, since[s])
        /\ ~crossed =>
              /\ ~Crosses(load)
              /\ Shown => Reads(table.rows, 0, table.next, since["table"])
              /\ load["more"].at # "none" =>
                    Shown /\ table.next # 0 /\ load["more"].after = table.next
              /\ load["more"].at = "answered" => since["table"] \subseteq since["more"]

(* What is sent is a class of this page.                                   *)
DialogsInv == \A op \in DOMAIN dialog : dialog[op].to \in here.classes \union {"gone"}

PageOK ==
    /\ kind \in Pages
    /\ item \in [Items -> here.classes \union {"gone"}]
    /\ changes \in 0 .. MaxChanges
    /\ view \in Views(kind)
    /\ table \in TableType
    /\ load \in [Slots -> LoadType]
    /\ crossed \in BOOLEAN
    /\ since \in [Slots \union {"table"} -> SUBSET Items]
    /\ LoadsInv /\ VotersInv

DialogsOK == dialog \in [here.operations -> DialogType] /\ DialogsInv

Sent == {"sent", "writing"}
Waits(r)   == IF r = "other" THEN other.item # 0 ELSE dialog[r].at \in Sent
Checked(r) == IF r = "other" THEN other.item # 0 ELSE dialog[r].at = "writing"
Target(r)  == IF r = "other" THEN other.to ELSE dialog[r].to

(* The election of a request that waits has the last of the statuses it    *)
(* had since; the check found one of them from which the request may go on.*)
WaitsWell(r) ==
    /\ lately[r] # {} => Waits(r) /\ Subject(r) \in Items
    /\ kind = "elections" =>
          /\ Waits(r) /\ Subject(r) \in Items => item[Subject(r)] \in lately[r]
          /\ Checked(r) => \E from \in lately[r] : Legal(from, Target(r))
WritersInv == \A r \in here.operations \union {"other"} : WaitsWell(r)

WritersOK ==
    /\ other \in RequestType /\ other.to \in here.classes \union {"gone"}
    /\ lately \in [here.operations \union {"other"} -> SUBSET AnyClass]
    /\ WritersInv

TableInv == PageOK /\ DialogsOK /\ WritersOK

LEMMA ItemsType ==
    ASSUME kind \in Pages
    PROVE  /\ Items \subseteq Nat \ {0} /\ Items \subseteq Nat
           /\ IsFiniteSet(Items) /\ present \subseteq Items
  BY ItemsAreNumbers, CollectionsAreFinite DEF Items, present

LEMMA FirstOfAre ==
    ASSUME NEW S, NEW s \in Seq(S), NEW n \in Nat
    PROVE  /\ FirstOf(s, n) \in Seq(S)
           /\ Len(FirstOf(s, n)) = IF Len(s) < n THEN Len(s) ELSE n
           /\ \A k \in 1 .. Len(FirstOf(s, n)) : FirstOf(s, n)[k] = s[k]
<1> DEFINE last == IF Len(s) < n THEN Len(s) ELSE n
<1>1. last \in Nat /\ last <= Len(s) /\ Len(s) \in Nat
  OBVIOUS
<1>2. FirstOf(s, n) = SubSeq(s, 1, last)
  BY DEF FirstOf
<1> HIDE DEF last
<1>3. \A k \in 1 .. last : s[k] \in S
  BY <1>1
<1>4. /\ SubSeq(s, 1, last) \in Seq(S)
      /\ Len(SubSeq(s, 1, last)) = IF 1 <= last THEN last - 1 + 1 ELSE 0
      /\ \A k \in 1 .. last - 1 + 1 : SubSeq(s, 1, last)[k] = s[1 + k - 1]
  BY <1>1, <1>3, SubSeqProperties
<1>5. Len(SubSeq(s, 1, last)) = last
  BY <1>1, <1>4
<1>6. \A k \in 1 .. last : SubSeq(s, 1, last)[k] = s[k]
  BY <1>1, <1>4
<1> QED
  BY <1>2, <1>4, <1>5, <1>6 DEF last

LEMMA RowsType ==
    ASSUME PageOK, NEW s \in Seq(Items)
    PROVE  /\ RowsOf(s) \in Seq(Row) /\ Len(RowsOf(s)) = Len(s)
           /\ DOMAIN RowsOf(s) = 1 .. Len(s)
           /\ \A n \in 1 .. Len(s) : RowsOf(s)[n].item = s[n]
<1>1. ASSUME NEW i \in Items
      PROVE  [item |-> i, class |-> item[i]] \in Row
  <2>1. kind \in Pages /\ item[i] \in here.classes \union {"gone"}
    BY DEF PageOK
  <2>2. item[i] \in AnyClass
    <3> DEFINE all == {site[k].classes : k \in Pages}
    <3>1. here.classes \in all
      BY <2>1 DEF here
    <3> HIDE DEF all
    <3>2. here.classes \subseteq UNION all
      BY <3>1
    <3>3. AnyClass = {"gone"} \union UNION all
      BY DEF AnyClass, all
    <3> QED
      BY <2>1, <3>2, <3>3
  <2> QED
    BY <2>2 DEF Row
<1>2. \A n \in 1 .. Len(s) : s[n] \in Items
  OBVIOUS
<1>3. RowsOf(s) = [n \in 1 .. Len(s) |-> [item |-> s[n], class |-> item[s[n]]]]
  BY DEF RowsOf
<1>4. \A n \in 1 .. Len(s) : [item |-> s[n], class |-> item[s[n]]] \in Row
  BY <1>1, <1>2
<1>5. Len(s) \in Nat
  OBVIOUS
<1>6. RowsOf(s) \in [1 .. Len(s) -> Row]
  BY <1>3, <1>4
<1>7. RowsOf(s) \in Seq(Row) /\ Len(RowsOf(s)) = Len(s)
  BY <1>5, <1>6
<1> QED
  BY <1>3, <1>7

(* A page by keyset reads those after the cursor, up to the next one.      *)
LEMMA KeysetReads ==
    ASSUME PageOK, NEW after \in Nat, NEW s, s = Keyset(after),
           NEW rows, rows = RowsOf(FirstOf(s, PageSize)),
           NEW next, next = IF Len(s) > PageSize THEN s[PageSize] ELSE 0
    PROVE  /\ rows \in Seq(Row) /\ next \in Items \union {0}
           /\ Reads(rows, after, next, present)
<1> DEFINE listed == {i \in present : i > after}
           size == Cardinality(listed)
<1>1. listed \subseteq Items /\ listed \subseteq Nat /\ IsFiniteSet(listed)
      /\ kind \in Pages
  <2>1. kind \in Pages
    BY DEF PageOK
  <2>2. listed \subseteq Items /\ listed \subseteq Nat /\ IsFiniteSet(Items)
    BY <2>1, ItemsType
  <2> QED
    BY <2>1, <2>2, FS_Subset
<1>2. s = InOrder(listed)
  BY DEF Keyset
<1>3. \A i \in Items : i \in Nat /\ i # 0
  BY <1>1, ItemsType
<1>4. \A i \in listed : i \in present /\ after < i
  BY <1>1
<1>5. \A i \in present : after < i => i \in listed
  BY <1>1, ItemsType
<1> HIDE DEF listed
<1>6. /\ size \in Nat /\ s \in [1 .. size -> listed]
      /\ \A n, m \in 1 .. size : n < m => s[n] < s[m]
      /\ \A i \in listed : \E n \in 1 .. size : s[n] = i
  <2>1. listed \subseteq Nat /\ IsFiniteSet(listed)
    BY <1>1
  <2>2. Lists(s, listed)
    BY <1>2, <2>1, InOrderLists
  <2> QED
    BY <2>2 DEF Lists
<1> HIDE DEF size
<1>7. s \in Seq(Items) /\ Len(s) = size
  <2>1. s \in [1 .. size -> Items]
    BY <1>1, <1>6
  <2> QED
    BY <1>6, <2>1
<1>8. PageSize \in Nat /\ PageSize # 0
  BY PageSizeType
<1> DEFINE page == FirstOf(s, PageSize)
           long == IF size < PageSize THEN size ELSE PageSize
<1>9. /\ page \in Seq(Items) /\ Len(page) = long
      /\ \A n \in 1 .. long : page[n] = s[n]
  BY <1>7, <1>8, FirstOfAre
<1>10. long \in Nat /\ long <= size /\ long <= PageSize
  BY <1>6, <1>8
<1> HIDE DEF page, long
<1>11. /\ rows \in Seq(Row) /\ DOMAIN rows = 1 .. long
       /\ \A n \in 1 .. long : rows[n].item = s[n]
  BY <1>9, RowsType DEF page
<1>12. \A n \in 1 .. long : n \in 1 .. size
  BY <1>6, <1>10
<1>13. \A n \in 1 .. size : s[n] \in listed /\ s[n] \in Items /\ s[n] \in Nat
  BY <1>1, <1>3, <1>6
<1>14. CASE size > PageSize
  <2>1. next = s[PageSize] /\ long = PageSize /\ PageSize \in 1 .. size
    BY <1>6, <1>7, <1>8, <1>14 DEF long
  <2>2. next \in Items /\ next \in Nat /\ next # 0 /\ after < next
    BY <1>3, <1>4, <1>13, <2>1
  <2>3. \A n, m \in DOMAIN rows : n < m => rows[n].item < rows[m].item
    BY <1>6, <1>11, <1>12
  <2>4. ASSUME NEW n \in DOMAIN rows
        PROVE  after < rows[n].item /\ rows[n].item <= next
    <3>1. n \in 1 .. long /\ n \in 1 .. size /\ rows[n].item = s[n]
      BY <1>11, <1>12
    <3>2. n = PageSize \/ n < PageSize
      BY <1>8, <2>1, <3>1
    <3>3. n < PageSize => s[n] < s[PageSize]
      BY <1>6, <2>1, <3>1
    <3>4. s[n] \in Nat /\ after < s[n] /\ s[PageSize] \in Nat
      BY <1>4, <1>13, <2>1, <3>1
    <3> QED
      BY <2>1, <3>1, <3>2, <3>3, <3>4
  <2>5. ASSUME NEW i \in present, after < i, i <= next
        PROVE  \E n \in DOMAIN rows : rows[n].item = i
    <3>1. PICK n \in 1 .. size : s[n] = i
      BY <1>5, <1>6, <2>5
    <3>2. ~(PageSize < n)
      <4>1. PageSize < n => s[PageSize] < s[n]
        BY <1>6, <2>1
      <4> QED
        BY <1>13, <2>1, <2>5, <3>1, <4>1
    <3>3. n \in 1 .. long
      BY <1>8, <2>1, <3>2
    <3> QED
      BY <1>11, <3>1, <3>3
  <2>6. InRow(rows, after, next)
    BY <2>2, <2>3, <2>4 DEF InRow
  <2>7. Misses(rows, after, next, present) = {}
    BY <2>2, <2>5 DEF Misses
  <2> QED
    BY <1>11, <2>2, <2>6, <2>7 DEF Reads
<1>15. CASE ~(size > PageSize)
  <2>1. next = 0 /\ long = size
    BY <1>6, <1>7, <1>8, <1>15 DEF long
  <2>2. \A n, m \in DOMAIN rows : n < m => rows[n].item < rows[m].item
    BY <1>6, <1>11, <2>1
  <2>3. \A n \in DOMAIN rows : after < rows[n].item
    BY <1>4, <1>11, <1>13, <2>1
  <2>4. \A i \in present : after < i => \E n \in DOMAIN rows : rows[n].item = i
    BY <1>5, <1>6, <1>11, <2>1
  <2>5. InRow(rows, after, next)
    BY <2>1, <2>2, <2>3 DEF InRow
  <2>6. Misses(rows, after, next, present) = {}
    BY <2>4 DEF Misses
  <2> QED
    BY <1>11, <2>1, <2>5, <2>6 DEF Reads
<1> QED
  BY <1>14, <1>15

-----------------------------------------------------------------------------
(* The types of the values that are built                                  *)

LEMMA SamePage ==
    ASSUME kind' = kind
    PROVE  /\ Items' = Items /\ Row' = Row /\ here' = here /\ Forms' = Forms
           /\ TableType' = TableType /\ LoadType' = LoadType
           /\ DialogType' = DialogType /\ RequestType' = RequestType
<1>1. Items' = Items /\ here' = here /\ Forms' = Forms
  BY DEF Items, here, Forms
<1>2. Row' = Row
  BY <1>1 DEF Row
<1> QED
  BY <1>1, <1>2 DEF TableType, LoadType, DialogType, RequestType

LEMMA ClassesType ==
    ASSUME NEW k \in Pages
    PROVE  site[k].classes \union {"gone"} \subseteq AnyClass
<1> DEFINE all == {site[p].classes : p \in Pages}
<1>1. site[k].classes \in all
  OBVIOUS
<1> HIDE DEF all
<1>2. site[k].classes \subseteq UNION all
  BY <1>1
<1>3. AnyClass = {"gone"} \union UNION all
  BY DEF AnyClass, all
<1> QED
  BY <1>2, <1>3

LEMMA ViewsType ==
    /\ \A k \in Pages : Views(k) \subseteq AnyView
    /\ NoView \in AnyView
<1> DEFINE all == {Views(k) : k \in Pages}
<1>1. \A k \in Pages : Views(k) \in all
  OBVIOUS
<1>2. AnyView = {NoView} \union UNION all
  BY DEF AnyView
<1> HIDE DEF all
<1>3. \A k \in Pages : Views(k) \subseteq UNION all
  BY <1>1
<1> QED
  BY <1>2, <1>3

LEMMA PageOfView == \A v \in AnyView : v.page \in {1, 2}
<1>1. \A k \in Pages : \A v \in Views(k) : v.page \in {1, 2}
  BY DEF Views
<1>2. NoView.page \in {1, 2}
  BY DEF NoView
<1> DEFINE all == {Views(k) : k \in Pages}
<1>3. AnyView = {NoView} \union UNION all
  BY DEF AnyView
<1>4. \A vs \in all : \A v \in vs : v.page \in {1, 2}
  BY <1>1
<1> HIDE DEF all
<1> QED
  BY <1>2, <1>3, <1>4

(* A page opens with a class and a view of its own; the voters have one.   *)
LEMMA SiteType ==
    ASSUME NEW k \in Pages
    PROVE  /\ site[k].first \in site[k].classes
           /\ [filter |-> site[k].opened, page |-> 1] \in Views(k)
           /\ k = "voters" => Views(k) = {[filter |-> "all", page |-> 1]}
<1>1. k \in {"elections", "users", "approvals", "candidates", "voters", "dashboard"}
  BY PagesKnown DEF site
<1> USE StatusesUsedKnown DEF Views, site
<1>2. CASE k = "elections"
  BY <1>2 DEF electionsPage
<1>3. CASE k = "users"
  BY <1>3 DEF usersPage
<1>4. CASE k = "approvals"
  BY <1>4 DEF approvalsPage
<1>5. CASE k = "candidates"
  BY <1>5 DEF candidatesTable
<1>6. CASE k = "voters"
  BY <1>6 DEF votersTable
<1>7. CASE k = "dashboard"
  BY <1>7 DEF dashboardPage
<1> QED
  BY <1>1, <1>2, <1>3, <1>4, <1>5, <1>6, <1>7

LEMMA AskedType ==
    ASSUME NEW by \in {"effect", "reload"}, NEW v \in AnyView,
           NEW after \in Items \union {0}
    PROVE  /\ NoLoad \in LoadType /\ NoLoad.at = "none" /\ NoLoad.after = 0
           /\ Asked(by, v, after) \in LoadType
           /\ Asked(by, v, after).at = "sent" /\ Asked(by, v, after).by = by
           /\ Asked(by, v, after).view = v /\ Asked(by, v, after).after = after
<1>1. NoView \in AnyView /\ <<>> \in Seq(Row)
  BY ViewsType
<1> QED
  BY <1>1 DEF NoLoad, Asked, LoadType

LEMMA TableTypes ==
    /\ Loading \in TableType /\ Loading.loading
    /\ \A b \in BOOLEAN : [Loading EXCEPT !.error = b] \in TableType
    /\ \A b \in BOOLEAN : [Loading EXCEPT !.error = b].loading
    /\ \A b \in BOOLEAN : Failed(b) \in TableType /\ Failed(b).error
<1>1. NoView \in AnyView /\ <<>> \in Seq(Row)
  BY ViewsType
<1> QED
  BY <1>1 DEF Loading, Failed, TableType

LEMMA ClosedType == Closed \in DialogType /\ Closed.to = "gone"
<1>1. NoView \in AnyView /\ "gone" \in AnyClass
  BY ViewsType DEF AnyClass
<1> QED
  BY <1>1 DEF Closed, DialogType

LEMMA TableOpens == TableInit => TableInv
<1> SUFFICES ASSUME TableInit
             PROVE  TableInv
  OBVIOUS
<1>1. /\ kind \in Pages /\ here.first \in here.classes
      /\ view \in Views(kind) /\ view \in AnyView
  <2>1. kind \in Pages /\ view = [filter |-> here.opened, page |-> 1]
    BY DEF TableInit
  <2> QED
    BY <2>1, SiteType, ViewsType DEF here
<1>2. /\ NoLoad \in LoadType /\ NoLoad.at = "none" /\ NoLoad.after = 0
      /\ Asked("effect", view, 0) \in LoadType
      /\ Asked("effect", view, 0).at = "sent" /\ Asked("effect", view, 0).view = view
      /\ Asked("effect", view, 0).after = 0
  BY <1>1, AskedType
<1>3. load = [s \in Slots |-> IF s = "effect" THEN Asked("effect", view, 0) ELSE NoLoad]
  BY DEF TableInit
<1>4. load \in [Slots -> LoadType]
  BY <1>2, <1>3
<1>5. TableTypeOK
  <2>1. item \in [Items -> here.classes \union {"gone"}]
    <3>1. item \in [Items -> {here.first, "gone"}]
      BY DEF TableInit
    <3> QED
      BY <1>1, <3>1
  <2>2. changes \in 0 .. MaxChanges /\ table \in TableType /\ crossed \in BOOLEAN
    <3>1. changes = 0 /\ table = Loading /\ crossed = FALSE
      BY DEF TableInit
    <3>2. changes \in 0 .. MaxChanges
      BY <3>1, MaxChangesIsNat
    <3> QED
      BY <3>1, <3>2, TableTypes
  <2>3. since \in [Slots \union {"table"} -> SUBSET Items]
    BY DEF TableInit
  <2>4. dialog \in [here.operations -> DialogType]
    BY ClosedType DEF TableInit
  <2>5. /\ other \in RequestType
        /\ lately \in [here.operations \union {"other"} -> SUBSET AnyClass]
    BY DEF TableInit, NoRequest, RequestType, AnyClass
  <2> QED
    BY <1>1, <1>4, <2>1, <2>2, <2>3, <2>4, <2>5 DEF TableTypeOK
<1>6. DialogsInv
  BY ClosedType DEF TableInit, DialogsInv
<1>7. \A s \in Slots : load[s].at # "none" => s = "effect"
  BY <1>2, <1>3
<1>8. load["effect"].view = view /\ ~Shown
  BY <1>2, <1>3, TableTypes DEF TableInit, Shown, Slots
<1>9. LoadsInv
  <2>1. load["more"].at = "none"
    BY <1>7 DEF Slots
  <2> QED
    BY <1>7, <1>8, <2>1 DEF LoadsInv
<1>10. VotersInv
  <2>1. \A r \in DOMAIN since : since[r] \subseteq present
    BY DEF TableInit
  <2>2. \A s \in Slots \ {"more"} : load[s].after = 0
    BY <1>2, <1>3
  <2>3. \A s \in Slots : load[s].at # "answered"
    BY <1>2, <1>3
  <2>4. ~Crosses(load) /\ load["more"].at = "none"
    BY <1>7 DEF Crosses, Slots
  <2>5. "more" \in Slots
    BY DEF Slots
  <2> QED
    BY <1>8, <2>1, <2>2, <2>3, <2>4, <2>5 DEF VotersInv
<1>11. other.to = "gone" /\ WritersInv
  <2>1. \A op \in here.operations : dialog[op].at = "closed"
    BY DEF TableInit, Closed
  <2>2. other.item = 0 /\ other.to = "gone"
    BY DEF TableInit, NoRequest
  <2>3. \A r \in here.operations \union {"other"} : lately[r] = {}
    BY DEF TableInit
  <2> QED
    BY <2>1, <2>2, <2>3 DEF WritersInv, WaitsWell, Waits, Checked, Sent
<1> QED
  BY <1>5, <1>6, <1>9, <1>10, <1>11
  DEF TableInv, TableTypeOK, PageOK, DialogsOK, WritersOK

-----------------------------------------------------------------------------
(* The dialogs and the collection                                          *)

LEMMA DialogsKeep ==
    ASSUME DialogsOK, kind' = kind, UNCHANGED dialog
    PROVE  DialogsOK'
  BY SamePage DEF DialogsOK, DialogsInv

LEMMA DialogMoves ==
    ASSUME DialogsOK, kind' = kind, NEW op \in DOMAIN dialog,
           NEW d \in DialogType, d.to \in here.classes \union {"gone"}, Dialog(op, d)
    PROVE  DialogsOK'
<1>1. /\ here' = here /\ DialogType' = DialogType
      /\ dialog \in [here.operations -> DialogType]
      /\ \A o \in here.operations : dialog[o].to \in here.classes \union {"gone"}
  BY SamePage DEF DialogsOK, DialogsInv
<1>2. dialog' = [dialog EXCEPT ![op] = d]
  BY DEF Dialog
<1>3. dialog' \in [here.operations -> DialogType]
  BY <1>1, <1>2
<1>4. \A o \in here.operations : dialog'[o].to \in here.classes \union {"gone"}
  BY <1>1, <1>2
<1> QED
  BY <1>1, <1>3, <1>4 DEF DialogsOK, DialogsInv

LEMMA PageKeeps ==
    ASSUME PageOK, UNCHANGED <<kind, item, changes, view, table, load, crossed, since>>
    PROVE  PageOK'
<1>1. /\ Items' = Items /\ here' = here /\ TableType' = TableType
      /\ LoadType' = LoadType
  BY SamePage
<1>2. LoadsInv'
  BY DEF PageOK, LoadsInv, Shown
<1>3. VotersInv'
  BY <1>1 DEF PageOK, VotersInv, Shown, Crosses, present
<1> QED
  BY <1>1, <1>2, <1>3 DEF PageOK

LEMMA FewerAreRead ==
    ASSUME NEW rows, NEW from, NEW next, NEW were, Reads(rows, from, next, were),
           NEW fewer, fewer \subseteq were
    PROVE  Reads(rows, from, next, fewer)
  BY DEF Reads, Misses

(* Others who come and go leave what was read as it was: nobody who was    *)
(* there ever since gets lost.                                             *)
LEMMA CollectionMoves ==
    ASSUME PageOK, NEW collection \in [Items -> here.classes \union {"gone"}],
           NEW request, Becomes(collection, request), changes' \in 0 .. MaxChanges,
           UNCHANGED <<kind, view, table, load, crossed>>
    PROVE  PageOK'
<1>1. /\ Items' = Items /\ here' = here /\ TableType' = TableType
      /\ LoadType' = LoadType
  BY SamePage
<1>2. LoadsInv'
  BY DEF PageOK, LoadsInv, Shown
<1>3. item' = collection /\ changes' \in 0 .. MaxChanges
  BY DEF Becomes
<1>4. since' = [s \in DOMAIN since |-> {i \in since[s] : collection[i] # "gone"}]
  BY DEF Becomes
<1>5. since \in [Slots \union {"table"} -> SUBSET Items]
  BY DEF PageOK
<1>6. since' \in [Slots \union {"table"} -> SUBSET Items]
  BY <1>4, <1>5
<1>7. \A s \in Slots \union {"table"} :
          /\ since'[s] = {i \in since[s] : collection[i] # "gone"}
          /\ since'[s] \subseteq since[s]
  BY <1>4, <1>5
<1>8. VotersInv'
  <2> SUFFICES ASSUME kind = "voters"
               PROVE  VotersInv'
    BY DEF VotersInv
  <2>1. \A r \in DOMAIN since' : since'[r] \subseteq present'
    <3>1. present' = {i \in Items : collection[i] # "gone"}
      BY <1>1, <1>3 DEF present
    <3> QED
      BY <1>5, <1>6, <1>7, <3>1
  <2>2. \A s \in Slots : load[s].at = "answered" =>
            Reads(load[s].rows, load[s].after, load[s].next, since'[s])
    <3> SUFFICES ASSUME NEW s \in Slots, load[s].at = "answered"
                 PROVE  Reads(load[s].rows, load[s].after, load[s].next, since'[s])
      OBVIOUS
    <3>1. Reads(load[s].rows, load[s].after, load[s].next, since[s])
      BY DEF PageOK, VotersInv
    <3> QED
      BY <1>7, <3>1, FewerAreRead
  <2>3. ~crossed /\ Shown => Reads(table.rows, 0, table.next, since'["table"])
    <3> SUFFICES ASSUME ~crossed, Shown
                 PROVE  Reads(table.rows, 0, table.next, since'["table"])
      OBVIOUS
    <3>1. Reads(table.rows, 0, table.next, since["table"])
      BY DEF PageOK, VotersInv
    <3> QED
      BY <1>7, <3>1, FewerAreRead
  <2>4. ~crossed /\ load["more"].at = "answered" => since'["table"] \subseteq since'["more"]
    <3>1. ~crossed /\ load["more"].at = "answered" => since["table"] \subseteq since["more"]
      BY DEF PageOK, VotersInv
    <3>2. "more" \in Slots
      BY DEF Slots
    <3> QED
      BY <1>7, <3>1, <3>2
  <2> QED
    BY <2>1, <2>2, <2>3, <2>4 DEF PageOK, VotersInv, Shown, Crosses
<1> QED
  BY <1>1, <1>2, <1>3, <1>6, <1>8 DEF PageOK

-----------------------------------------------------------------------------
(* The requests                                                            *)

LEMMA AloneAmong ==
    ASSUME NEW loads, ~Crosses(loads), NEW s \in Slots, loads[s].at # "none",
           NEW u \in Slots, u # s
    PROVE  loads[u].at = "none"
  BY DEF Crosses

(* A reload empties the table; what it asks for does not depend on the     *)
(* view, and starts with the first voter.                                  *)
LEMMA ReloadKeeps ==
    ASSUME PageOK, NEW v \in AnyView, Reload(v),
           UNCHANGED <<kind, item, changes, view, since>>
    PROVE  PageOK'
<1>1. /\ Items' = Items /\ here' = here /\ TableType' = TableType
      /\ LoadType' = LoadType
  BY SamePage
<1>2. PICK s \in Free : /\ load' = [load EXCEPT ![s] = Asked("reload", v, 0)]
                        /\ crossed' = (crossed \/ (kind = "voters" /\ Crosses(load')))
  BY DEF Reload, Send
<1>3. s \in Slots /\ s # "effect" /\ s # "more"
  BY ExtraAreNames DEF Free, Slots
<1>4. load \in [Slots -> LoadType]
  BY DEF PageOK
<1>5. PICK asked : asked = Asked("reload", v, 0)
  OBVIOUS
<1>6. /\ asked \in LoadType /\ asked.at = "sent" /\ asked.by = "reload"
      /\ asked.after = 0
  BY <1>5, AskedType
<1>7. /\ load' \in [Slots -> LoadType] /\ load'[s] = asked
      /\ \A u \in Slots : u # s => load'[u] = load[u]
  BY <1>2, <1>3, <1>4, <1>5, <1>6
<1>8. table' \in TableType /\ ~Shown'
  BY TableTypes DEF Reload, Shown
<1>9. LoadsInv'
  <2> SUFFICES ASSUME kind # "dashboard"
               PROVE  LoadsInv'
    BY DEF LoadsInv
  <2>1. \A u \in Slots : load[u].at # "none" => load[u].by = "reload" \/
                 (load[u].view = view /\ u \in {"effect", "more"})
    BY DEF PageOK, LoadsInv
  <2>2. \A u \in Slots : load'[u].at # "none" => load'[u].by = "reload" \/
                 (load'[u].view = view /\ u \in {"effect", "more"})
    BY <1>6, <1>7, <2>1
  <2>3. kind # "voters" => load'["more"].at = "none"
    BY <1>3, <1>7 DEF PageOK, LoadsInv, Slots
  <2> QED
    BY <1>8, <2>2, <2>3 DEF LoadsInv
<1>10. VotersInv'
  <2> SUFFICES ASSUME kind = "voters"
               PROVE  VotersInv'
    BY DEF VotersInv
  <2>1. present' = present
    BY <1>1 DEF present
  <2>2. \A u \in Slots \ {"more"} : load'[u].after = 0
    BY <1>6, <1>7 DEF PageOK, VotersInv
  <2>3. \A u \in Slots : load'[u].at = "answered" =>
              Reads(load'[u].rows, load'[u].after, load'[u].next, since[u])
    BY <1>6, <1>7 DEF PageOK, VotersInv
  <2>4. ~crossed' => ~Crosses(load')
    BY <1>2
  <2>5. ~crossed' => load'["more"].at = "none"
    <3>1. ~crossed' => ~Crosses(load')
      BY <2>4
    <3>2. "more" \in Slots /\ load'[s].at # "none"
      BY <1>6, <1>7 DEF Slots
    <3> QED
      BY <1>3, <3>1, <3>2 DEF Crosses
  <2> QED
    BY <1>8, <2>1, <2>2, <2>3, <2>4, <2>5 DEF PageOK, VotersInv
<1>11. crossed' \in BOOLEAN
  BY <1>2 DEF PageOK
<1> QED
  BY <1>1, <1>7, <1>8, <1>9, <1>10, <1>11 DEF PageOK

(* The view is the first there is on a page with an address of its own.    *)
LEMMA ViewChangeKeeps ==
    ASSUME PageOK, NEW v \in Views(kind), ChangeView(v)
    PROVE  PageOK'
<1>1. /\ kind' = kind /\ Items' = Items /\ here' = here /\ TableType' = TableType
      /\ LoadType' = LoadType
  BY SamePage DEF ChangeView, backend
<1>2. kind \in Pages /\ v \in AnyView /\ view \in Views(kind) /\ v # view
  <2>1. kind \in Pages /\ view \in Views(kind)
    BY DEF PageOK
  <2>2. v # view
    BY DEF ChangeView, backend
  <2> QED
    BY <2>1, <2>2, ViewsType
<1>3. kind # "voters"
  <2>1. kind = "voters" => Views(kind) = {[filter |-> "all", page |-> 1]}
    BY <1>2, SiteType
  <2> QED
    BY <1>2, <2>1
<1>4. /\ load \in [Slots -> LoadType] /\ "effect" \in Slots /\ "more" \in Slots
      /\ crossed \in BOOLEAN /\ table \in TableType
  BY DEF PageOK, Slots
<1>5. PICK asked : asked = Asked("effect", v, 0)
  OBVIOUS
<1>6. /\ asked \in LoadType /\ asked.at = "sent" /\ asked.by = "effect"
      /\ asked.view = v
  BY <1>2, <1>5, AskedType
<1>7. CASE ~AbortsTheLast /\ load["effect"].at # "none"
  <2>1. PICK s \in Free : /\ load' = [load EXCEPT ![s] = load["effect"],
                                                  !["effect"] = asked]
                          /\ crossed' = (crossed \/ (kind = "voters" /\ Crosses(load')))
    BY <1>5, <1>7 DEF ChangeView, Send, backend
  <2>2. s \in Slots
    BY DEF Free, Slots
  <2>3. load' \in [Slots -> LoadType] /\ crossed' \in BOOLEAN
    BY <1>4, <1>6, <2>1, <2>2
  <2>4. PICK b \in BOOLEAN : table' = [Loading EXCEPT !.error = b]
    <3>1. (table.error /\ v.filter = view.filter) \in BOOLEAN
      OBVIOUS
    <3>2. table' = [Loading EXCEPT !.error = table.error /\ v.filter = view.filter]
      BY <1>7 DEF ChangeView, backend
    <3> QED
      BY <3>1, <3>2
  <2>5. table' \in TableType
    BY <2>4, TableTypes
  <2>6. kind = "dashboard"
    BY <1>7 DEF AbortsTheLast
  <2> QED
    BY <1>1, <1>3, <2>3, <2>5, <2>6 DEF PageOK, ChangeView, LoadsInv, VotersInv, backend
<1>8. CASE ~(~AbortsTheLast /\ load["effect"].at # "none")
  <2>1. /\ load' = [load EXCEPT !["effect"] = asked]
        /\ crossed' = (crossed \/ (kind = "voters" /\ Crosses(load')))
    BY <1>5, <1>8 DEF ChangeView, Send, backend
  <2>2. /\ load' \in [Slots -> LoadType] /\ crossed' \in BOOLEAN
        /\ load'["effect"] = asked
        /\ \A u \in Slots : u # "effect" => load'[u] = load[u]
    BY <1>4, <1>6, <2>1
  <2>3. table' = Loading \/ table' = Failed(FALSE)
    BY <1>8 DEF ChangeView, backend
  <2>4. table' \in TableType /\ ~Shown'
    BY <2>3, TableTypes DEF Shown
  <2>5. LoadsInv'
    <3> SUFFICES ASSUME kind # "dashboard"
                 PROVE  LoadsInv'
      BY <1>1 DEF LoadsInv
    <3>1. load["more"].at = "none"
      BY <1>3 DEF PageOK, LoadsInv
    <3>2. \A u \in Slots : u \notin {"effect", "more"} /\ load[u].at # "none" =>
              load[u].by = "reload"
      BY DEF PageOK, LoadsInv
    <3>3. load'["more"].at = "none"
      BY <1>4, <2>2, <3>1
    <3>4. view' = v
      BY DEF ChangeView, backend
    <3>5. ASSUME NEW u \in Slots, load'[u].at # "none"
          PROVE  load'[u].by = "reload" \/
                    (load'[u].view = view' /\ u \in {"effect", "more"})
      <4>1. CASE u = "effect"
        BY <1>6, <2>2, <3>4, <4>1
      <4>2. CASE u # "effect"
        BY <2>2, <3>2, <3>3, <3>5, <4>2
      <4> QED
        BY <4>1, <4>2
    <3> QED
      BY <2>4, <3>3, <3>5 DEF LoadsInv
  <2> QED
    BY <1>1, <1>3, <2>2, <2>4, <2>5 DEF PageOK, ChangeView, VotersInv, backend
<1> QED
  BY <1>7, <1>8

LEMMA MoreKeeps ==
    ASSUME PageOK, loadMore
    PROVE  PageOK'
<1>1. /\ kind' = kind /\ Items' = Items /\ here' = here /\ TableType' = TableType
      /\ LoadType' = LoadType /\ present' = present
  BY SamePage DEF loadMore, present, backend
<1>2. kind = "voters" /\ Shown /\ load["more"].at = "none" /\ table.next # 0
  BY DEF loadMore, backend
<1>3. table.next \in Items \union {0} /\ view \in AnyView
  BY ViewsType DEF PageOK, TableType
<1>4. load \in [Slots -> LoadType] /\ "effect" \in Slots /\ "more" \in Slots
  BY DEF PageOK, Slots
<1>5. PICK asked : asked = Asked("effect", view, table.next)
  OBVIOUS
<1>6. /\ asked \in LoadType /\ asked.at = "sent" /\ asked.by = "effect"
      /\ asked.view = view /\ asked.after = table.next
  BY <1>3, <1>5, AskedType
<1>7. /\ load' = [load EXCEPT !["more"] = asked]
      /\ crossed' = (crossed \/ (kind = "voters" /\ Crosses(load')))
  BY <1>5 DEF loadMore, Send, backend
<1>8. /\ load' \in [Slots -> LoadType] /\ crossed' \in BOOLEAN
      /\ load'["more"] = asked
      /\ \A u \in Slots : u # "more" => load'[u] = load[u]
  BY <1>4, <1>6, <1>7
<1>9. Shown' = Shown /\ table' = table /\ view' = view /\ since' = since
  BY DEF loadMore, Shown, backend
<1>10. LoadsInv'
  <2>1. \A u \in Slots : load[u].at # "none" => load[u].by = "reload" \/
                 (load[u].view = view /\ u \in {"effect", "more"})
    BY <1>2 DEF PageOK, LoadsInv
  <2>2. \A u \in Slots : load'[u].at # "none" => load'[u].by = "reload" \/
                 (load'[u].view = view /\ u \in {"effect", "more"})
    BY <1>6, <1>8, <2>1
  <2> QED
    BY <1>1, <1>2, <1>9, <2>2 DEF PageOK, LoadsInv
<1>11. VotersInv'
  <2>1. \A u \in Slots \ {"more"} : load'[u].after = 0
    BY <1>2, <1>8 DEF PageOK, VotersInv
  <2>2. \A u \in Slots : load'[u].at = "answered" =>
              Reads(load'[u].rows, load'[u].after, load'[u].next, since[u])
    BY <1>2, <1>6, <1>8 DEF PageOK, VotersInv
  <2>3. ~crossed' => ~Crosses(load') /\ ~crossed
    BY <1>2, <1>7
  <2>4. ~crossed => Reads(table.rows, 0, table.next, since["table"])
    BY <1>2 DEF PageOK, VotersInv
  <2> QED
    BY <1>1, <1>2, <1>6, <1>8, <1>9, <2>1, <2>2, <2>3, <2>4
    DEF PageOK, VotersInv
<1> QED
  BY <1>1, <1>8, <1>9, <1>10, <1>11 DEF PageOK, loadMore, backend

(* The list comes back with a request of its own.                          *)
LEMMA OpenedType ==
    ASSUME PageOK
    PROVE  /\ Opened \in [Slots -> LoadType]
           /\ \A s \in Slots : Opened[s].at # "none" =>
                 Opened[s].view = view /\ s = "effect"
           /\ [s \in Slots |-> NoLoad] \in [Slots -> LoadType]
           /\ \A s \in Slots : [u \in Slots |-> NoLoad][s].at = "none"
<1>1. view \in AnyView
  BY ViewsType DEF PageOK
<1>2. /\ NoLoad \in LoadType /\ NoLoad.at = "none"
      /\ Asked("effect", view, 0) \in LoadType
      /\ Asked("effect", view, 0).at = "sent" /\ Asked("effect", view, 0).view = view
  BY <1>1, AskedType
<1> QED
  BY <1>2 DEF Opened

(* A form that replaces the list, or leaves for it: no other page has one. *)
LEMMA FormKeeps ==
    ASSUME PageOK, kind = "elections",
           NEW loads \in [Slots -> LoadType],
           \A s \in Slots : loads[s].at # "none" => loads[s].view = view /\ s = "effect",
           load' = loads, table' \in {table, Loading}, crossed' \in BOOLEAN,
           UNCHANGED <<kind, item, changes, view, since>>
    PROVE  PageOK'
<1>1. /\ Items' = Items /\ here' = here /\ TableType' = TableType
      /\ LoadType' = LoadType
  BY SamePage
<1>2. table' \in TableType /\ (Shown' => Shown /\ table' = table)
  BY TableTypes DEF PageOK, Shown
<1>3. "more" \in Slots
  BY DEF Slots
<1>4. LoadsInv'
  BY <1>2, <1>3 DEF PageOK, LoadsInv
<1>5. VotersInv'
  BY DEF VotersInv
<1> QED
  BY <1>1, <1>2, <1>4, <1>5 DEF PageOK

-----------------------------------------------------------------------------
(* The answers                                                             *)

LEMMA MatchingType ==
    ASSUME PageOK, NEW filter, NEW s, s = Matching(filter)
    PROVE  s \in Seq(Items)
<1> DEFINE found == {i \in present : filter = "all" \/ item[i] = filter}
<1>1. kind \in Pages
  BY DEF PageOK
<1>2. found \subseteq Items /\ found \subseteq Nat /\ IsFiniteSet(found)
  <2>1. found \subseteq Items /\ Items \subseteq Nat /\ IsFiniteSet(Items)
    BY <1>1, ItemsType
  <2> QED
    BY <2>1, FS_Subset
<1>3. s = InOrder(found)
  BY DEF Matching
<1> HIDE DEF found
<1>4. Cardinality(found) \in Nat /\ s \in [1 .. Cardinality(found) -> found]
  BY <1>2, <1>3, InOrderLists DEF Lists
<1>5. s \in [1 .. Cardinality(found) -> Items]
  BY <1>2, <1>4
<1> QED
  BY <1>4, <1>5

(* A page by offset: what is left from there on, and the first of it.      *)
LEMMA OffsetReads ==
    ASSUME PageOK, NEW filter, NEW asked \in LoadType,
           NEW got, got = OffsetPage(Matching(filter), asked)
    PROVE  /\ got \in LoadType /\ got.at = "answered"
           /\ got.by = asked.by /\ got.view = asked.view
<1>1. PICK s \in Seq(Items) : s = Matching(filter)
  BY MatchingType
<1>2. asked.view.page \in {1, 2}
  <2>1. asked.view \in AnyView
    BY DEF LoadType
  <2> QED
    BY <2>1, PageOfView
<1>3. PICK from \in Nat : from = (asked.view.page - 1) * PageSize
  BY <1>2, PageSizeType
<1>4. PICK rest : rest = SubSeq(s, from + 1, Len(s))
  OBVIOUS
<1>5. rest \in Seq(Items)
  <2>1. \A i \in from + 1 .. Len(s) : s[i] \in Items
    BY <1>1, <1>3
  <2>2. from + 1 \in Int /\ Len(s) \in Int
    BY <1>1, <1>3
  <2> QED
    BY <1>4, <2>1, <2>2, SubSeqProperties
<1>6. PICK rows : rows = RowsOf(FirstOf(rest, PageSize))
  OBVIOUS
<1>7. rows \in Seq(Row)
  <2>1. FirstOf(rest, PageSize) \in Seq(Items)
    BY <1>5, PageSizeType, FirstOfAre
  <2> QED
    BY <1>6, <2>1, RowsType
<1>8. got = [asked EXCEPT !.at = "answered", !.rows = rows]
  BY <1>1, <1>3, <1>4, <1>6 DEF OffsetPage
<1> QED
  BY <1>7, <1>8 DEF LoadType

LEMMA KeysetAnswers ==
    ASSUME PageOK, NEW asked \in LoadType,
           NEW got, got = paginateRows(Keyset(asked.after), asked)
    PROVE  /\ got \in LoadType /\ got.at = "answered"
           /\ got.by = asked.by /\ got.view = asked.view /\ got.after = asked.after
           /\ Reads(got.rows, got.after, got.next, present)
<1>1. asked.after \in Nat
  <2>1. asked.after \in Items \union {0} /\ kind \in Pages
    BY DEF LoadType, PageOK
  <2>2. Items \subseteq Nat
    BY <2>1, ItemsType
  <2>3. CASE asked.after \in Items
    BY <2>2, <2>3
  <2>4. CASE asked.after = 0
    BY <2>4
  <2> QED
    BY <2>1, <2>3, <2>4
<1>2. PICK s : s = Keyset(asked.after)
  OBVIOUS
<1>3. PICK rows : rows = RowsOf(FirstOf(s, PageSize))
  OBVIOUS
<1>4. PICK next : next = IF Len(s) > PageSize THEN s[PageSize] ELSE 0
  OBVIOUS
<1>5. /\ rows \in Seq(Row) /\ next \in Items \union {0}
      /\ Reads(rows, asked.after, next, present)
  BY <1>1, <1>2, <1>3, <1>4, KeysetReads
<1>6. got = [asked EXCEPT !.at = "answered", !.rows = rows, !.next = next]
  BY <1>2, <1>3, <1>4 DEF paginateRows
<1>7. /\ got.at = "answered" /\ got.rows = rows /\ got.next = next
      /\ got.by = asked.by /\ got.view = asked.view /\ got.after = asked.after
  BY <1>6 DEF LoadType
<1>8. got \in LoadType
  BY <1>5, <1>6 DEF LoadType
<1> QED
  BY <1>5, <1>7, <1>8

LEMMA AnswerKeeps ==
    ASSUME PageOK, NEW s \in Slots, Answer(s)
    PROVE  PageOK'
<1>1. /\ kind' = kind /\ Items' = Items /\ here' = here /\ TableType' = TableType
      /\ LoadType' = LoadType /\ present' = present
  BY SamePage DEF Answer, present, backend
<1>2. load \in [Slots -> LoadType] /\ load[s].at = "sent"
      /\ since \in [Slots \union {"table"} -> SUBSET Items]
  BY DEF PageOK, Answer, backend
<1>3. PICK asked \in LoadType : asked = load[s]
  BY <1>2
<1>4. PICK got : got = IF kind = "voters" THEN paginateRows(Keyset(asked.after), asked)
                       ELSE OffsetPage(Matching(asked.view.filter), asked)
  OBVIOUS
<1>5. load' = [load EXCEPT ![s] = got]
  BY <1>3, <1>4 DEF Answer, backend
<1>6. /\ got \in LoadType /\ got.at = "answered"
      /\ got.by = asked.by /\ got.view = asked.view
      /\ kind = "voters" => /\ got.after = asked.after
                            /\ Reads(got.rows, got.after, got.next, present)
  <2>1. CASE kind = "voters"
    BY <1>4, <2>1, KeysetAnswers
  <2>2. CASE kind # "voters"
    BY <1>4, <2>2, OffsetReads
  <2> QED
    BY <2>1, <2>2
<1>7. /\ load' \in [Slots -> LoadType] /\ load'[s] = got
      /\ \A u \in Slots : u # s => load'[u] = load[u]
  BY <1>2, <1>5, <1>6
<1>8. Shown' = Shown /\ table' = table /\ view' = view /\ crossed' = crossed
  BY DEF Answer, Shown, backend
<1>9. \A u \in Slots : /\ load'[u].by = load[u].by /\ load'[u].view = load[u].view
                       /\ load'[u].at = "none" <=> load[u].at = "none"
  BY <1>2, <1>3, <1>6, <1>7
<1>10. "more" \in Slots
  BY DEF Slots
<1>11. LoadsInv'
  BY <1>1, <1>8, <1>9, <1>10 DEF PageOK, LoadsInv
<1>12. since' = IF kind = "voters" THEN [since EXCEPT ![s] = present] ELSE since
  BY DEF Answer, backend
<1>13. since' \in [Slots \union {"table"} -> SUBSET Items]
  BY <1>2, <1>12 DEF present
<1>14. VotersInv'
  <2> SUFFICES ASSUME kind = "voters"
               PROVE  VotersInv'
    BY <1>1 DEF VotersInv
  <2>1. since'[s] = present /\ \A r \in DOMAIN since : r # s => since'[r] = since[r]
    BY <1>2, <1>12
  <2>2. \A r \in DOMAIN since' : since'[r] \subseteq present
    BY <1>2, <1>13, <2>1 DEF PageOK, VotersInv
  <2>3. \A u \in Slots : load'[u].after = load[u].after
    BY <1>3, <1>6, <1>7
  <2>4. \A u \in Slots : load'[u].at = "answered" =>
              Reads(load'[u].rows, load'[u].after, load'[u].next, since'[u])
    <3> SUFFICES ASSUME NEW u \in Slots, load'[u].at = "answered"
                 PROVE  Reads(load'[u].rows, load'[u].after, load'[u].next, since'[u])
      OBVIOUS
    <3>1. CASE u = s
      BY <1>6, <1>7, <2>1, <3>1
    <3>2. CASE u # s
      <4>1. load'[u] = load[u] /\ since'[u] = since[u]
        BY <1>2, <1>7, <2>1, <3>2
      <4> QED
        BY <4>1 DEF PageOK, VotersInv
    <3> QED
      BY <3>1, <3>2
  <2>5. ~Crosses(load) => ~Crosses(load')
    BY <1>9 DEF Crosses
  <2>6. s # "table"
    BY ExtraAreNames DEF Slots
  <2>7. since'["table"] = since["table"]
    BY <1>2, <2>1, <2>6
  <2>8. ~crossed /\ load'["more"].at = "answered" => since'["table"] \subseteq since'["more"]
    <3>1. CASE s = "more"
      BY <1>2, <2>1, <2>7, <3>1 DEF PageOK, VotersInv
    <3>2. CASE s # "more"
      BY <1>2, <1>7, <1>10, <2>1, <2>7, <3>2 DEF PageOK, VotersInv
    <3> QED
      BY <3>1, <3>2
  <2>9. \A u \in Slots \ {"more"} : load'[u].after = 0
    BY <2>3 DEF PageOK, VotersInv
  <2>10. ~crossed /\ load'["more"].at # "none" =>
            Shown /\ table.next # 0 /\ load'["more"].after = table.next
    BY <1>9, <1>10, <2>3 DEF PageOK, VotersInv
  <2>11. ~crossed /\ Shown => Reads(table.rows, 0, table.next, since'["table"])
    BY <2>7 DEF PageOK, VotersInv
  <2>12. ~crossed => ~Crosses(load')
    BY <2>5 DEF PageOK, VotersInv
  <2> QED
    BY <1>1, <1>8, <2>2, <2>4, <2>8, <2>9, <2>10, <2>11, <2>12 DEF VotersInv
<1> QED
  BY <1>1, <1>7, <1>8, <1>11, <1>13, <1>14 DEF PageOK, Answer, backend

(* Rows that go on where others end read what the two of them read.        *)
LEMMA ReadsOn ==
    ASSUME NEW first \in Seq(Row), NEW rest \in Seq(Row), Items \subseteq Nat,
           NEW next \in Items, next # 0, NEW last \in Items \union {0},
           NEW were, were \subseteq Items, NEW still, were \subseteq still,
           Reads(first, 0, next, were), Reads(rest, next, last, still)
    PROVE  Reads(first \o rest, 0, last, were)
<1> DEFINE all == first \o rest
<1>1. /\ Len(first) \in Nat /\ Len(rest) \in Nat
      /\ DOMAIN first = 1 .. Len(first) /\ DOMAIN rest = 1 .. Len(rest)
  OBVIOUS
<1>2. /\ all \in Seq(Row) /\ Len(all) = Len(first) + Len(rest)
      /\ \A n \in 1 .. Len(first) + Len(rest) :
            all[n] = IF n <= Len(first) THEN first[n] ELSE rest[n - Len(first)]
  BY ConcatProperties
<1> HIDE DEF all
<1>3. DOMAIN all = 1 .. Len(first) + Len(rest)
  BY <1>1, <1>2
<1>4. next \in Nat /\ last \in Nat
  <2>1. CASE last \in Items
    BY <2>1
  <2>2. CASE last = 0
    BY <2>2
  <2> QED
    BY <2>1, <2>2
<1>5. /\ \A n, m \in 1 .. Len(first) : n < m => first[n].item < first[m].item
      /\ \A n \in 1 .. Len(first) : 0 < first[n].item /\ (next # 0 => first[n].item <= next)
      /\ next # 0 => 0 < next
  BY <1>1 DEF Reads, InRow
<1>6. /\ \A n, m \in 1 .. Len(rest) : n < m => rest[n].item < rest[m].item
      /\ \A n \in 1 .. Len(rest) : next < rest[n].item /\ (last # 0 => rest[n].item <= last)
      /\ last # 0 => next < last
  BY <1>1 DEF Reads, InRow
<1>7. /\ \A n \in 1 .. Len(first) : first[n].item \in Nat
      /\ \A n \in 1 .. Len(rest) : rest[n].item \in Nat
  <2>1. \A r \in Row : r.item \in Items
    BY DEF Row
  <2>2. \A n \in 1 .. Len(first) : first[n] \in Row
    OBVIOUS
  <2>3. \A n \in 1 .. Len(rest) : rest[n] \in Row
    OBVIOUS
  <2> QED
    BY <2>1, <2>2, <2>3
<1>8. ASSUME NEW n \in DOMAIN all
      PROVE  \/ n \in 1 .. Len(first) /\ all[n] = first[n]
             \/ \E k \in 1 .. Len(rest) : n = Len(first) + k /\ all[n] = rest[k]
  <2>1. CASE n <= Len(first)
    BY <1>1, <1>2, <1>3, <1>8, <2>1
  <2>2. CASE ~(n <= Len(first))
    <3>1. n - Len(first) \in 1 .. Len(rest) /\ n = Len(first) + (n - Len(first))
      BY <1>1, <1>3, <1>8, <2>2
    <3>2. all[n] = rest[n - Len(first)]
      BY <1>2, <1>3, <1>8, <2>2
    <3> QED
      BY <3>1, <3>2
  <2> QED
    BY <2>1, <2>2
<1>9. \A n \in 1 .. Len(first) : n \in DOMAIN all /\ all[n] = first[n]
  BY <1>1, <1>2, <1>3
<1>10. \A k \in 1 .. Len(rest) : \E n \in DOMAIN all : all[n] = rest[k]
  <2> SUFFICES ASSUME NEW k \in 1 .. Len(rest)
               PROVE  \E n \in DOMAIN all : all[n] = rest[k]
    OBVIOUS
  <2>1. /\ Len(first) + k \in DOMAIN all /\ ~(Len(first) + k <= Len(first))
        /\ (Len(first) + k) - Len(first) = k
    BY <1>1, <1>3
  <2>2. all[Len(first) + k] = rest[k]
    BY <1>2, <1>3, <2>1
  <2> QED
    BY <2>1, <2>2
<1>11. ASSUME NEW n \in DOMAIN all, NEW m \in DOMAIN all, n < m
       PROVE  all[n].item < all[m].item
  <2>1. CASE m \in 1 .. Len(first) /\ all[m] = first[m]
    <3>1. n \in 1 .. Len(first)
      BY <1>1, <1>3, <1>11, <2>1
    <3> QED
      BY <1>5, <1>9, <1>11, <2>1, <3>1
  <2>2. ASSUME NEW k \in 1 .. Len(rest), m = Len(first) + k, all[m] = rest[k]
        PROVE  all[n].item < all[m].item
    <3>1. next < rest[k].item /\ rest[k].item \in Nat
      BY <1>6, <1>7
    <3>2. CASE n \in 1 .. Len(first) /\ all[n] = first[n]
      <4>1. first[n].item <= next /\ first[n].item \in Nat
        BY <1>5, <1>7, <3>2
      <4> QED
        BY <1>4, <2>2, <3>1, <3>2, <4>1
    <3>3. ASSUME NEW h \in 1 .. Len(rest), n = Len(first) + h, all[n] = rest[h]
          PROVE  all[n].item < all[m].item
      <4>1. h < k
        BY <1>1, <1>11, <2>2, <3>3
      <4> QED
        BY <1>6, <2>2, <3>3, <4>1
    <3> QED
      BY <1>8, <3>2, <3>3
  <2> QED
    BY <1>8, <2>1, <2>2
<1>12. ASSUME NEW n \in DOMAIN all
       PROVE  0 < all[n].item /\ (last # 0 => all[n].item <= last)
  <2>1. CASE n \in 1 .. Len(first) /\ all[n] = first[n]
    <3>1. 0 < first[n].item /\ first[n].item <= next /\ first[n].item \in Nat
      BY <1>5, <1>7, <2>1
    <3> QED
      BY <1>4, <1>6, <2>1, <3>1
  <2>2. ASSUME NEW k \in 1 .. Len(rest), n = Len(first) + k, all[n] = rest[k]
        PROVE  0 < all[n].item /\ (last # 0 => all[n].item <= last)
    <3>1. /\ next < rest[k].item /\ rest[k].item \in Nat
          /\ last # 0 => rest[k].item <= last
      BY <1>6, <1>7
    <3> QED
      BY <1>4, <2>2, <3>1
  <2> QED
    BY <1>8, <2>1, <2>2
<1>13. last # 0 => 0 < last
  BY <1>4
<1>14. InRow(all, 0, last)
  BY <1>11, <1>12, <1>13 DEF InRow
<1>15. ASSUME NEW i \in were, 0 < i, last # 0 => i <= last
       PROVE  \E n \in DOMAIN all : all[n].item = i
  <2>1. i \in Nat
    OBVIOUS
  <2>2. CASE i <= next
    <3>1. \E n \in DOMAIN first : first[n].item = i
      BY <1>15, <2>2 DEF Reads, Misses
    <3> QED
      BY <1>1, <1>9, <3>1
  <2>3. CASE next < i
    <3>1. i \in still
      OBVIOUS
    <3>2. \E n \in DOMAIN rest : rest[n].item = i
      BY <1>15, <2>3, <3>1 DEF Reads, Misses
    <3> QED
      BY <1>1, <1>10, <3>2
  <2> QED
    BY <1>4, <2>1, <2>2, <2>3
<1>16. Misses(all, 0, last, were) = {}
  BY <1>15 DEF Misses
<1> QED
  BY <1>14, <1>16 DEF Reads, all

LEMMA LeftType ==
    ASSUME PageOK, NEW s \in Slots
    PROVE  /\ Left(s) \in [Slots -> LoadType] /\ Left(s)[s] = NoLoad
           /\ NoLoad.at = "none" /\ NoLoad.after = 0
           /\ \A u \in Slots : u # s => Left(s)[u] = load[u]
<1>1. NoLoad \in LoadType /\ NoLoad.at = "none" /\ NoLoad.after = 0
  <2>1. NoView \in AnyView
    BY ViewsType
  <2> QED
    BY <2>1, AskedType
<1>2. load \in [Slots -> LoadType]
  BY DEF PageOK
<1> QED
  BY <1>1, <1>2 DEF Left

LEMMA LeavesLoads ==
    ASSUME PageOK, NEW s \in Slots, load' = Left(s), UNCHANGED <<kind, view>>,
           Shown' => table'.by = "reload" \/ table'.of = view \/ kind = "dashboard"
    PROVE  LoadsInv'
<1>1. /\ load'[s].at = "none"
      /\ \A u \in Slots : u # s => load'[u] = load[u]
  BY LeftType
<1>2. "more" \in Slots
  BY DEF Slots
<1> SUFFICES ASSUME kind # "dashboard"
             PROVE  LoadsInv'
  BY DEF LoadsInv
<1>3. \A u \in Slots : load[u].at # "none" => load[u].by = "reload" \/
                 (load[u].view = view /\ u \in {"effect", "more"})
  BY DEF PageOK, LoadsInv
<1>4. \A u \in Slots : load'[u].at # "none" => load'[u].by = "reload" \/
                 (load'[u].view = view /\ u \in {"effect", "more"})
  BY <1>1, <1>3
<1>5. kind # "voters" => load'["more"].at = "none"
  BY <1>1, <1>2 DEF PageOK, LoadsInv
<1> QED
  BY <1>4, <1>5 DEF LoadsInv

(* Nothing crosses once a full answer came alone, or if nothing did.       *)
LEMMA LeavesCalm ==
    ASSUME PageOK, kind = "voters", NEW s \in Slots, load[s].at # "none",
           load' = Left(s), Calms(s), ~crossed'
    PROVE  /\ \A u \in Slots : load'[u].at = "none"
           /\ ~Crosses(load')
           /\ s = "more" => ~crossed
<1>1. /\ load'[s].at = "none"
      /\ \A u \in Slots : u # s => load'[u] = load[u]
  BY LeftType
<1>2. CASE crossed
  BY <1>2 DEF Calms, Crosses
<1>3. CASE ~crossed
  <2>1. ~Crosses(load)
    BY <1>3 DEF PageOK, VotersInv
  <2>2. \A u \in Slots : u # s => load[u].at = "none"
    BY <2>1 DEF Crosses
  <2>3. \A u \in Slots : load'[u].at = "none"
    BY <1>1, <2>2
  <2> QED
    BY <1>3, <2>3 DEF Crosses
<1> QED
  BY <1>2, <1>3

LEMMA FailureKeeps ==
    ASSUME PageOK, NEW s \in Slots, ArriveFailed(s)
    PROVE  PageOK'
<1>1. /\ kind' = kind /\ Items' = Items /\ here' = here /\ TableType' = TableType
      /\ LoadType' = LoadType /\ present' = present
  BY SamePage DEF ArriveFailed, present, backend
<1>2. /\ load' = Left(s) /\ Calms(s) /\ load[s].at # "none" /\ view' = view
      /\ since' = since
  BY DEF ArriveFailed, backend
<1>3. /\ load' \in [Slots -> LoadType]
      /\ load'[s].at = "none" /\ load'[s].after = 0
      /\ \A u \in Slots : u # s => load'[u] = load[u]
  BY <1>2, LeftType
<1>4. PICK b \in BOOLEAN : table' = Failed(b)
  <2>1. (table.loading /\ s = "more") \in BOOLEAN
    OBVIOUS
  <2>2. table' = Failed(table.loading /\ s = "more")
    BY DEF ArriveFailed, backend
  <2> QED
    BY <2>1, <2>2
<1>5. table' \in TableType /\ ~Shown'
  BY <1>4, TableTypes DEF Shown
<1>6. changes' \in 0 .. MaxChanges
  BY MaxChangesIsNat DEF PageOK, ArriveFailed, backend
<1>7. crossed' \in BOOLEAN
  BY <1>2 DEF Calms
<1>8. LoadsInv'
  BY <1>1, <1>2, <1>5, LeavesLoads
<1>9. VotersInv'
  <2> SUFFICES ASSUME kind = "voters"
               PROVE  VotersInv'
    BY <1>1 DEF VotersInv
  <2>1. \A u \in Slots \ {"more"} : load'[u].after = 0
    BY <1>3 DEF PageOK, VotersInv
  <2>2. \A u \in Slots : load'[u].at = "answered" =>
              Reads(load'[u].rows, load'[u].after, load'[u].next, since[u])
    BY <1>3 DEF PageOK, VotersInv
  <2>3. ~crossed' => ~Crosses(load') /\ load'["more"].at = "none"
    <3>1. "more" \in Slots
      BY DEF Slots
    <3> QED
      BY <1>2, <3>1, LeavesCalm
  <2> QED
    BY <1>1, <1>2, <1>5, <2>1, <2>2, <2>3 DEF PageOK, VotersInv
<1> QED
  BY <1>1, <1>2, <1>3, <1>5, <1>6, <1>7, <1>8, <1>9 DEF PageOK, ArriveFailed, backend

LEMMA ArrivalKeeps ==
    ASSUME PageOK, NEW s \in Slots, Arrive(s)
    PROVE  PageOK'
<1>1. /\ kind' = kind /\ Items' = Items /\ here' = here /\ TableType' = TableType
      /\ LoadType' = LoadType /\ present' = present /\ item' = item
      /\ changes' = changes
  BY SamePage DEF Arrive, present, backend
<1>2. /\ load' = Left(s) /\ Calms(s) /\ load[s].at = "answered" /\ view' = view
      /\ since' = [since EXCEPT !["table"] = IF s = "more" THEN @ ELSE since[s],
                                ![s] = {}]
  BY DEF Arrive, backend
<1>3. /\ load' \in [Slots -> LoadType]
      /\ load'[s].at = "none" /\ load'[s].after = 0
      /\ \A u \in Slots : u # s => load'[u] = load[u]
  BY <1>2, LeftType
<1>4. crossed' \in BOOLEAN
  BY <1>2 DEF Calms
<1>5. PICK got \in LoadType : got = load[s]
  BY DEF PageOK
<1>6. table \in TableType /\ "more" \in Slots /\ s # "table"
      /\ since \in [Slots \union {"table"} -> SUBSET Items]
  BY ExtraAreNames DEF PageOK, Slots
<1>7. /\ since' \in [Slots \union {"table"} -> SUBSET Items]
      /\ since'[s] = {} /\ since'["table"] = IF s = "more" THEN since["table"] ELSE since[s]
      /\ \A u \in Slots : u # s => since'[u] = since[u]
  <2>1. "table" \notin Slots
    BY ExtraAreNames DEF Slots
  <2> QED
    BY <1>2, <1>6, <2>1
<1>8. kind = "voters" =>
         /\ \A r \in DOMAIN since' : since'[r] \subseteq present'
         /\ \A u \in Slots \ {"more"} : load'[u].after = 0
         /\ \A u \in Slots : load'[u].at = "answered" =>
               Reads(load'[u].rows, load'[u].after, load'[u].next, since'[u])
         /\ ~crossed' => ~Crosses(load') /\ load'["more"].at = "none"
  <2> SUFFICES ASSUME kind = "voters"
               PROVE  /\ \A r \in DOMAIN since' : since'[r] \subseteq present'
                      /\ \A u \in Slots \ {"more"} : load'[u].after = 0
                      /\ \A u \in Slots : load'[u].at = "answered" =>
                            Reads(load'[u].rows, load'[u].after, load'[u].next, since'[u])
                      /\ ~crossed' => ~Crosses(load') /\ load'["more"].at = "none"
    OBVIOUS
  <2>1. \A r \in Slots \union {"table"} : since[r] \subseteq present
    BY <1>6 DEF PageOK, VotersInv
  <2>2. \A r \in DOMAIN since' : since'[r] \subseteq present'
    BY <1>1, <1>6, <1>7, <2>1
  <2>3. \A u \in Slots \ {"more"} : load'[u].after = 0
    BY <1>3 DEF PageOK, VotersInv
  <2>4. \A u \in Slots : load'[u].at = "answered" =>
           Reads(load'[u].rows, load'[u].after, load'[u].next, since'[u])
    BY <1>3, <1>7 DEF PageOK, VotersInv
  <2>5. ~crossed' => ~Crosses(load') /\ load'["more"].at = "none"
    BY <1>2, <1>6, LeavesCalm
  <2> QED
    BY <2>2, <2>3, <2>4, <2>5
<1>9. LoadsInv' /\ VotersInv' /\ table' \in TableType
  <2>1. CASE table.error /\ kind # "dashboard"
    <3>1. PICK b \in BOOLEAN : table' = Failed(b)
      <4>1. (table.loading /\ s = "more") \in BOOLEAN
        OBVIOUS
      <4>2. table' = Failed(table.loading /\ s = "more")
        BY <2>1 DEF Arrive, backend
      <4> QED
        BY <4>1, <4>2
    <3>2. table' \in TableType /\ ~Shown'
      BY <3>1, TableTypes DEF Shown
    <3>3. LoadsInv'
      BY <1>1, <1>2, <3>2, LeavesLoads
    <3> QED
      BY <1>1, <1>3, <1>8, <3>2, <3>3 DEF VotersInv
  <2>2. CASE s = "more" /\ ~(table.error /\ kind # "dashboard")
    <3>1. table' = [table EXCEPT !.rows = @ \o got.rows, !.next = got.next]
      BY <1>5, <2>2 DEF Arrive, backend
    <3>2. /\ table.rows \in Seq(Row) /\ got.rows \in Seq(Row)
          /\ got.next \in Items \union {0}
      BY <1>5, <1>6 DEF TableType, LoadType
    <3>3. PICK rows \in Seq(Row) : rows = table.rows \o got.rows
      BY <3>2, ConcatProperties
    <3>4. table' = [table EXCEPT !.rows = rows, !.next = got.next]
      BY <3>1, <3>3
    <3>5. /\ table' \in TableType /\ table'.rows = rows /\ table'.next = got.next
          /\ table'.by = table.by /\ table'.of = table.of
          /\ table'.loading = table.loading /\ table'.error = table.error
      BY <1>6, <3>2, <3>4 DEF TableType
    <3>6. Shown' => Shown
      BY <3>5 DEF Shown
    <3>7. LoadsInv'
      <4>1. Shown' => table'.by = "reload" \/ table'.of = view \/ kind = "dashboard"
        BY <3>5, <3>6 DEF PageOK, LoadsInv
      <4> QED
        BY <1>1, <1>2, <4>1, LeavesLoads
    <3>8. ASSUME kind = "voters", ~crossed'
          PROVE  Reads(table'.rows, 0, table'.next, since'["table"])
      <4>1. ~crossed
        BY <1>2, <2>2, <3>8, LeavesCalm
      <4>2. /\ Shown /\ table.next # 0 /\ got.after = table.next
            /\ since["table"] \subseteq since["more"]
        BY <1>2, <1>5, <1>6, <2>2, <3>8, <4>1 DEF PageOK, VotersInv
      <4>3. Reads(table.rows, 0, table.next, since["table"])
        BY <3>8, <4>1, <4>2 DEF PageOK, VotersInv
      <4>4. Reads(got.rows, table.next, got.next, since["more"])
        BY <1>2, <1>5, <2>2, <3>8, <4>2 DEF PageOK, VotersInv
      <4>5. table.next \in Items /\ Items \subseteq Nat /\ since["table"] \subseteq Items
        <5>1. table.next \in Items \union {0} /\ kind \in Pages
          BY <1>6 DEF TableType, PageOK
        <5> QED
          BY <1>6, <4>2, <5>1, ItemsType
      <4>6. Reads(rows, 0, got.next, since["table"])
        BY <3>2, <3>3, <4>2, <4>3, <4>4, <4>5, ReadsOn
      <4> QED
        BY <1>7, <2>2, <3>5, <4>6
    <3> QED
      BY <1>1, <1>3, <1>8, <3>5, <3>7, <3>8 DEF VotersInv
  <2>3. CASE s # "more" /\ ~(table.error /\ kind # "dashboard")
    <3>1. table' = [Loading EXCEPT !.rows = got.rows, !.of = got.view, !.by = got.by,
                                   !.next = got.next, !.loading = FALSE]
      BY <1>5, <2>3 DEF Arrive, backend
    <3>2. /\ table' \in TableType /\ table'.rows = got.rows /\ table'.next = got.next
          /\ table'.by = got.by /\ table'.of = got.view
      BY <3>1 DEF Loading, TableType, LoadType
    <3>3. LoadsInv'
      <4>1. kind # "dashboard" => got.by = "reload" \/ got.view = view
        BY <1>2, <1>5 DEF PageOK, LoadsInv
      <4>2. Shown' => table'.by = "reload" \/ table'.of = view \/ kind = "dashboard"
        BY <3>2, <4>1
      <4> QED
        BY <1>1, <1>2, <4>2, LeavesLoads
    <3>4. kind = "voters" => Reads(table'.rows, 0, table'.next, since'["table"])
      <4>1. kind = "voters" =>
               got.after = 0 /\ Reads(got.rows, got.after, got.next, since[s])
        BY <1>2, <1>5, <2>3 DEF PageOK, VotersInv
      <4> QED
        BY <1>7, <2>3, <3>2, <4>1
    <3> QED
      BY <1>1, <1>3, <1>8, <3>2, <3>3, <3>4 DEF VotersInv
  <2> QED
    BY <2>1, <2>2, <2>3
<1> QED
  BY <1>1, <1>2, <1>3, <1>4, <1>7, <1>9 DEF PageOK

-----------------------------------------------------------------------------
(* What requests make of the collection                                    *)

(* A collection that elections reach by moves from statuses they had since *)
(* a request under way was sent                                            *)
Recent(collection) ==
    kind = "elections" => \A i \in present :
        \/ collection[i] = item[i]
        \/ \E r \in DOMAIN lately :
              Subject(r) = i /\ \E from \in lately[r] : Legal(from, collection[i])

(* Only the page of approvals decides.                                     *)
LEMMA OperationsOf ==
    ASSUME PageOK
    PROVE  /\ "other" \notin here.operations /\ "none" \notin here.operations
           /\ kind # "approvals" => {"approve", "reject"} \intersect here.operations = {}
<1>1. kind \in {"elections", "users", "approvals", "candidates", "voters", "dashboard"}
  BY PagesKnown DEF PageOK, site
<1>2. CASE kind = "elections"
  BY <1>2 DEF here, site, electionsPage
<1>3. CASE kind = "users"
  BY <1>3 DEF here, site, usersPage
<1>4. CASE kind = "approvals"
  BY <1>4 DEF here, site, approvalsPage
<1>5. CASE kind = "candidates"
  BY <1>5 DEF here, site, candidatesTable
<1>6. CASE kind = "voters"
  BY <1>6 DEF here, site, votersTable
<1>7. CASE kind = "dashboard"
  BY <1>7 DEF here, site, dashboardPage
<1> QED
  BY <1>1, <1>2, <1>3, <1>4, <1>5, <1>6, <1>7

LEMMA RewrittenType ==
    ASSUME PageOK, NEW i, NEW to \in here.classes \union {"gone"}
    PROVE  /\ Rewritten(i, to) \in [Items -> here.classes \union {"gone"}]
           /\ \A k \in Items : k # i => Rewritten(i, to)[k] = item[k]
           /\ i \in present => Rewritten(i, to)[i] = to
<1>1. item \in [Items -> here.classes \union {"gone"}]
  BY DEF PageOK
<1> QED
  BY <1>1 DEF Rewritten, present

(* What is created was not there, and only accounts that wait are decided. *)
LEMMA EffectType ==
    ASSUME PageOK, NEW op \in here.operations \intersect AtOnce, NEW d,
           d.to \in here.classes \union {"gone"}, NEW collection \in Effect(op, d)
    PROVE  /\ collection \in [Items -> here.classes \union {"gone"}]
           /\ kind = "elections" => \A i \in present : collection[i] = item[i]
<1>1. item \in [Items -> here.classes \union {"gone"}]
  BY DEF PageOK
<1>2. kind \in {"elections", "users", "approvals", "candidates", "voters", "dashboard"}
  BY PagesKnown DEF PageOK, site
<1>3. CASE op = "create"
  <2>1. PICK class : class = IF kind = "elections" THEN d.to
                             ELSE IF kind = "users" THEN "admins" ELSE "listed"
    OBVIOUS
  <2>2. class \in here.classes \union {"gone"}
    BY <1>2, <1>3, <2>1
    DEF here, site, usersPage, approvalsPage, candidatesTable, votersTable, dashboardPage
  <2>3. PICK i \in Items \ present : collection = [item EXCEPT ![i] = class]
    BY <1>3, <2>1 DEF Effect
  <2> QED
    BY <1>1, <2>2, <2>3 DEF present
<1>4. CASE op # "create"
  <2>1. op \in {"approve", "reject"} /\ kind = "approvals"
    BY <1>4, OperationsOf DEF AtOnce
  <2>2. here.classes = {"pending", "approved", "rejected"}
    BY <2>1 DEF here, site, approvalsPage
  <2>3. PICK class \in here.classes : collection = [item EXCEPT ![d.item] = class]
    BY <1>4, <2>2 DEF Effect
  <2> QED
    BY <1>1, <2>1, <2>3
<1> QED
  BY <1>3, <1>4

LEMMA DialogAt ==
    ASSUME DialogsOK, NEW op \in DOMAIN dialog
    PROVE  /\ dialog[op] \in DialogType /\ op \in here.operations
           /\ dialog[op].to \in here.classes \union {"gone"}
  BY DEF DialogsOK, DialogsInv

(* The states of a dialog: hidden, done, sent, checked and open again.     *)
LEMMA DialogTypes ==
    ASSUME NEW d \in DialogType, NEW v \in AnyView, NEW to \in AnyClass
    PROVE  /\ [d EXCEPT !.shown = FALSE] \in DialogType
           /\ [d EXCEPT !.shown = FALSE].to = d.to
           /\ [d EXCEPT !.at = "done"] \in DialogType
           /\ [d EXCEPT !.at = "done"].to = d.to
           /\ [d EXCEPT !.at = "sent", !.to = to, !.view = v] \in DialogType
           /\ [d EXCEPT !.at = "sent", !.to = to, !.view = v].to = to
           /\ Again(d) \in DialogType /\ Again(d).to = "gone"
<1>1. NoView \in AnyView /\ "gone" \in AnyClass
  BY ViewsType DEF AnyClass
<1>2. /\ [d EXCEPT !.shown = FALSE] \in DialogType
      /\ [d EXCEPT !.shown = FALSE].to = d.to
      /\ [d EXCEPT !.at = "done"] \in DialogType
      /\ [d EXCEPT !.at = "done"].to = d.to
      /\ [d EXCEPT !.at = "sent", !.to = to, !.view = v] \in DialogType
      /\ [d EXCEPT !.at = "sent", !.to = to, !.view = v].to = to
  BY DEF DialogType
<1>3. Again(d) \in DialogType /\ Again(d).to = "gone"
  <2>1. /\ [d EXCEPT !.at = "open", !.to = "gone", !.view = NoView] \in DialogType
        /\ [d EXCEPT !.at = "open", !.to = "gone", !.view = NoView].to = "gone"
    BY <1>1 DEF DialogType
  <2>2. /\ [Closed EXCEPT !.at = "open"] \in DialogType
        /\ [Closed EXCEPT !.at = "open"].to = "gone"
    BY <1>1 DEF Closed, DialogType
  <2> QED
    BY <2>1, <2>2 DEF Again
<1> QED
  BY <1>2, <1>3

LEMMA ClassOfPage ==
    ASSUME PageOK
    PROVE  /\ here.classes \union {"gone"} \subseteq AnyClass
           /\ view \in AnyView /\ here.first \in here.classes
           /\ \A i \in Items : item[i] \in AnyClass
  BY ClassesType, ViewsType, SiteType DEF PageOK, here

-----------------------------------------------------------------------------
(* The requests that change the collection                                 *)

(* A request that ends forgets; nothing else that is under way changes.    *)
LEMMA WritersKeep ==
    ASSUME PageOK, WritersOK, UNCHANGED <<kind, item, other>>,
           lately' \in [here.operations \union {"other"} -> SUBSET AnyClass],
           lately'["other"] = lately["other"],
           \A op \in here.operations :
               \/ lately'[op] = {} /\ dialog'[op].at \notin Sent
               \/ /\ lately'[op] = lately[op]
                  /\ dialog'[op].at = dialog[op].at
                  /\ dialog'[op].item = dialog[op].item
                  /\ dialog'[op].to = dialog[op].to
    PROVE  WritersOK'
<1>1. Items' = Items /\ here' = here /\ RequestType' = RequestType
  BY SamePage
<1>2. ASSUME NEW r \in here.operations \union {"other"}
      PROVE  WaitsWell(r)'
  <2>1. WaitsWell(r)
    BY DEF WritersOK, WritersInv
  <2>2. CASE r = "other"
    BY <1>1, <2>1, <2>2 DEF WaitsWell, Waits, Checked, Target, Subject
  <2>3. CASE r # "other" /\ lately'[r] = {} /\ dialog'[r].at \notin Sent
    BY <2>3 DEF WaitsWell, Waits, Checked, Sent
  <2>4. CASE /\ r # "other" /\ lately'[r] = lately[r]
             /\ dialog'[r].at = dialog[r].at /\ dialog'[r].item = dialog[r].item
             /\ dialog'[r].to = dialog[r].to
    BY <1>1, <2>1, <2>4 DEF WaitsWell, Waits, Checked, Target, Subject
  <2> QED
    BY <2>2, <2>3, <2>4
<1>3. WritersInv'
  BY <1>1, <1>2 DEF WritersInv
<1> QED
  BY <1>1, <1>3 DEF WritersOK

LEMMA WritersStay ==
    ASSUME PageOK, WritersOK, UNCHANGED <<kind, item, other, lately, dialog>>
    PROVE  WritersOK'
<1>1. lately' \in [here.operations \union {"other"} -> SUBSET AnyClass]
  BY DEF WritersOK
<1> QED
  BY <1>1, WritersKeep

(* A request that waits remembers what becomes of its election.            *)
LEMMA WritersMove ==
    ASSUME PageOK, WritersOK, kind' = kind,
           NEW collection \in [Items -> here.classes \union {"gone"}],
           NEW r, Becomes(collection, r),
           IF r = "other" THEN other' = NoRequest ELSE other' = other,
           \A op \in here.operations :
               IF op = r THEN dialog'[op].at \notin Sent ELSE dialog'[op] = dialog[op]
    PROVE  WritersOK'
<1>1. Items' = Items /\ here' = here /\ RequestType' = RequestType
  BY SamePage
<1>2. /\ here.classes \union {"gone"} \subseteq AnyClass
      /\ "gone" \in AnyClass
  BY ClassOfPage DEF AnyClass
<1>3. lately \in [here.operations \union {"other"} -> SUBSET AnyClass]
  BY DEF WritersOK
<1>4. \A q \in here.operations \union {"other"} : WaitsWell(q)
  BY DEF WritersOK, WritersInv
<1>5. item' = collection /\ DOMAIN lately = here.operations \union {"other"}
  BY <1>3 DEF Becomes
<1>6. lately' = [q \in here.operations \union {"other"} |->
             IF q = r \/ lately[q] = {} THEN {}
             ELSE lately[q] \union {collection[Subject(q)]}]
  BY <1>5 DEF Becomes
<1>7. \A q \in here.operations \union {"other"} : lately'[q] \subseteq AnyClass
  <2> SUFFICES ASSUME NEW q \in here.operations \union {"other"},
                      q # r, lately[q] # {}
               PROVE  lately[q] \union {collection[Subject(q)]} \subseteq AnyClass
    BY <1>6
  <2>1. Subject(q) \in Items
    BY <1>4 DEF WaitsWell
  <2> QED
    BY <1>2, <1>3, <2>1
<1>8. lately' \in [here.operations \union {"other"} -> SUBSET AnyClass]
  BY <1>6, <1>7
<1>9. other' \in RequestType /\ other'.to \in here.classes \union {"gone"}
  BY <1>2 DEF WritersOK, NoRequest, RequestType
<1>10. "other" \notin here.operations
  BY OperationsOf
<1>11. ASSUME NEW q \in here.operations \union {"other"}
       PROVE  WaitsWell(q)'
  <2>1. CASE q = r
    <3>1. lately'[q] = {} /\ ~Waits(q)' /\ ~Checked(q)'
      BY <1>6, <1>10, <2>1 DEF Waits, Checked, NoRequest, Sent
    <3> QED
      BY <3>1 DEF WaitsWell
  <2>2. CASE q # r
    <3>1. /\ Waits(q)' = Waits(q) /\ Checked(q)' = Checked(q)
          /\ Subject(q)' = Subject(q) /\ Target(q)' = Target(q)
      BY <1>10, <2>2 DEF Waits, Checked, Subject, Target
    <3>2. lately'[q] = IF lately[q] = {} THEN {}
                       ELSE lately[q] \union {collection[Subject(q)]}
      BY <1>6, <2>2
    <3> QED
      BY <1>1, <1>4, <1>5, <3>1, <3>2 DEF WaitsWell
  <2> QED
    BY <2>1, <2>2
<1>12. WritersInv'
  BY <1>1, <1>11 DEF WritersInv
<1> QED
  BY <1>1, <1>8, <1>9, <1>12 DEF WritersOK

(* What is written was allowed by the check before.                        *)
LEMMA WriteIsRecent ==
    ASSUME PageOK, WritersOK, NEW r \in here.operations \union {"other"}, Checked(r)
    PROVE  Recent(Rewritten(Subject(r), Target(r)))
<1> SUFFICES ASSUME kind = "elections", NEW i \in present,
                    Rewritten(Subject(r), Target(r))[i] # item[i]
             PROVE  \E q \in DOMAIN lately : Subject(q) = i
                       /\ \E from \in lately[q] :
                             Legal(from, Rewritten(Subject(r), Target(r))[i])
  BY DEF Recent
<1>1. item \in [Items -> here.classes \union {"gone"}] /\ i \in Items
  BY DEF PageOK, present
<1>2. Subject(r) = i /\ Rewritten(Subject(r), Target(r))[i] = Target(r)
  BY <1>1 DEF Rewritten, present
<1>3. \E from \in lately[r] : Legal(from, Target(r))
  BY DEF WritersOK, WritersInv, WaitsWell
<1>4. r \in DOMAIN lately
  BY DEF WritersOK
<1> QED
  BY <1>2, <1>3, <1>4

(* A dialog that neither waited nor waits now                              *)
LEMMA DialogRests ==
    ASSUME PageOK, DialogsOK, WritersOK, UNCHANGED <<kind, item, other, lately>>,
           NEW op \in DOMAIN dialog, NEW d, Dialog(op, d),
           dialog[op].at \notin Sent, d.at \notin Sent
    PROVE  WritersOK'
<1>1. /\ op \in here.operations
      /\ lately \in [here.operations \union {"other"} -> SUBSET AnyClass]
      /\ dialog' = [dialog EXCEPT ![op] = d] /\ DOMAIN dialog = here.operations
  BY DEF DialogsOK, WritersOK, Dialog
<1>2. lately[op] = {}
  <2>1. WaitsWell(op) /\ op # "other"
    BY <1>1, OperationsOf DEF WritersOK, WritersInv
  <2> QED
    BY <2>1 DEF WaitsWell, Waits
<1> QED
  BY <1>1, <1>2, WritersKeep

LEMMA DialogHides ==
    ASSUME PageOK, DialogsOK, WritersOK, UNCHANGED <<kind, item, other, lately>>,
           NEW op \in DOMAIN dialog, NEW d, Dialog(op, d),
           d.at = dialog[op].at, d.item = dialog[op].item, d.to = dialog[op].to
    PROVE  WritersOK'
<1>1. /\ op \in here.operations
      /\ lately \in [here.operations \union {"other"} -> SUBSET AnyClass]
      /\ dialog' = [dialog EXCEPT ![op] = d] /\ DOMAIN dialog = here.operations
  BY DEF DialogsOK, WritersOK, Dialog
<1> QED
  BY <1>1, WritersKeep

-----------------------------------------------------------------------------
(* What is done                                                            *)

LEMMA DialogOpens ==
    ASSUME TableInv, NEW op \in DOMAIN dialog, NEW row, OpenDialog(op, row)
    PROVE  TableInv'
<1>1. PageOK /\ DialogsOK /\ WritersOK
  BY DEF TableInv
<1>2. kind' = kind /\ PageOK'
  BY <1>1, PageKeeps DEF OpenDialog, backend
<1>3. row.item \in Items \union {0} /\ row.class \in AnyClass
  <2>1. CASE row = NoRow
    BY <2>1 DEF NoRow, AnyClass
  <2>2. CASE row \in Range(table.rows)
    <3>1. table.rows \in Seq(Row)
      BY <1>1 DEF PageOK, TableType
    <3>2. row \in Row
      BY <2>2, <3>1 DEF Range
    <3> QED
      BY <3>2 DEF Row
  <2> QED
    BY <2>1, <2>2 DEF OpenDialog
<1>4. PICK class : class = IF op = "update status" THEN row.class ELSE Closed.class
  OBVIOUS
<1>5. class \in AnyClass
  BY <1>3, <1>4 DEF Closed, AnyClass
<1>6. PICK d : d = [Closed EXCEPT !.at = "open", !.shown = TRUE, !.item = row.item,
                                  !.class = class]
  OBVIOUS
<1>7. d \in DialogType /\ d.to \in here.classes \union {"gone"}
  <2>1. NoView \in AnyView /\ "gone" \in AnyClass
    BY ViewsType DEF AnyClass
  <2> QED
    BY <1>3, <1>5, <1>6, <2>1 DEF Closed, DialogType
<1>8. Dialog(op, d)
  BY <1>4, <1>6 DEF OpenDialog
<1>9. DialogsOK'
  BY <1>1, <1>2, <1>7, <1>8, DialogMoves
<1>10. d.at = "open" /\ dialog[op].at = "closed"
  BY <1>6 DEF Closed, OpenDialog
<1>11. WritersOK'
  BY <1>1, <1>8, <1>10, DialogRests DEF OpenDialog, backend, Sent
<1> QED
  BY <1>2, <1>9, <1>11 DEF TableInv

LEMMA FormOpensOver ==
    ASSUME TableInv, NEW op \in DOMAIN dialog, NEW i \in Items \union {0},
           OpenForm(op, i)
    PROVE  TableInv'
<1>1. PageOK /\ DialogsOK /\ WritersOK
  BY DEF TableInv
<1>2. kind = "elections" /\ kind' = kind
  BY DEF OpenForm, Forms
<1>3. PageOK'
  <2>1. PICK loads : loads = [s \in Slots |-> NoLoad]
    OBVIOUS
  <2>2. loads \in [Slots -> LoadType] /\ \A s \in Slots : loads[s].at = "none"
    BY <1>1, <2>1, OpenedType
  <2> QED
    BY <1>1, <1>2, <2>1, <2>2, FormKeeps DEF OpenForm
<1>4. PICK class : class = IF i = 0 THEN here.first ELSE item[i]
  OBVIOUS
<1>5. class \in AnyClass
  BY <1>1, <1>4, ClassOfPage
<1>6. PICK d : d = [Closed EXCEPT !.at = "open", !.shown = TRUE, !.item = i,
                                  !.class = class]
  OBVIOUS
<1>7. /\ d \in DialogType /\ d.to = "gone"
      /\ Closed \in DialogType /\ Closed.to = "gone"
  <2>1. NoView \in AnyView /\ "gone" \in AnyClass
    BY ViewsType DEF AnyClass
  <2>2. d \in DialogType /\ d.to = "gone"
    BY <1>5, <1>6, <2>1 DEF Closed, DialogType
  <2> QED
    BY <2>2, ClosedType
<1>8. dialog' = [o \in DOMAIN dialog |-> IF o # op THEN Closed ELSE d]
  BY <1>4, <1>6 DEF OpenForm
<1>9. DialogsOK'
  <2>1. DOMAIN dialog = here.operations
    BY <1>1 DEF DialogsOK
  <2>2. here' = here /\ DialogType' = DialogType
    BY <1>2, SamePage
  <2>3. \A o \in here.operations : dialog'[o] \in DialogType /\ dialog'[o].to = "gone"
    BY <1>7, <1>8, <2>1
  <2>4. dialog' \in [here.operations -> DialogType]
    BY <1>8, <2>1, <2>3
  <2> QED
    BY <2>2, <2>3, <2>4 DEF DialogsOK, DialogsInv
<1>10. WritersOK'
  <2>1. /\ DOMAIN dialog = here.operations
        /\ lately \in [here.operations \union {"other"} -> SUBSET AnyClass]
    BY <1>1 DEF DialogsOK, WritersOK
  <2>2. /\ lately' = [r \in DOMAIN lately |-> IF r = "other" THEN lately[r] ELSE {}]
        /\ UNCHANGED <<item, other>>
    BY DEF OpenForm
  <2>3. d.at = "open" /\ Closed.at = "closed"
    BY <1>6 DEF Closed
  <2>4. /\ lately' \in [here.operations \union {"other"} -> SUBSET AnyClass]
        /\ lately'["other"] = lately["other"]
    BY <2>1, <2>2
  <2>5. \A o \in here.operations : lately'[o] = {} /\ dialog'[o].at \notin Sent
    BY <1>1, <1>8, <2>1, <2>2, <2>3, OperationsOf DEF Sent
  <2> QED
    BY <1>1, <1>2, <2>2, <2>4, <2>5, WritersKeep
<1> QED
  BY <1>3, <1>9, <1>10 DEF TableInv

LEMMA FormReopens ==
    ASSUME PageOK, kind = "elections", Send(Opened),
           UNCHANGED <<kind, item, changes, view, table, since>>
    PROVE  PageOK'
<1>1. PICK loads : loads = Opened
  OBVIOUS
<1>2. /\ loads \in [Slots -> LoadType]
      /\ \A s \in Slots : loads[s].at # "none" => loads[s].view = view /\ s = "effect"
  BY <1>1, OpenedType
<1>3. load' = loads /\ crossed' \in BOOLEAN
  BY <1>1 DEF Send
<1> QED
  BY <1>2, <1>3, FormKeeps

LEMMA DialogDismissed ==
    ASSUME TableInv, NEW op \in DOMAIN dialog, Dismiss(op)
    PROVE  TableInv'
<1>1. PageOK /\ DialogsOK /\ WritersOK /\ kind' = kind
  BY DEF TableInv, Dismiss
<1>2. /\ dialog[op] \in DialogType
      /\ dialog[op].to \in here.classes \union {"gone"}
      /\ Closed \in DialogType /\ Closed.to = "gone"
  BY <1>1, DialogAt, ClosedType
<1>3. CASE op \in Forms
  <2>1. PageOK'
    BY <1>1, <1>3, FormReopens DEF Dismiss, Forms, backend
  <2>2. DialogsOK'
    BY <1>1, <1>2, <1>3, DialogMoves DEF Dismiss
  <2>3. WritersOK'
    <3>1. Closed.at = "closed"
      BY DEF Closed
    <3> QED
      BY <1>1, <1>3, <3>1, DialogRests DEF Dismiss, backend, Sent
  <2> QED
    BY <2>1, <2>2, <2>3 DEF TableInv
<1>4. CASE op \notin Forms
  <2>1. PageOK'
    BY <1>1, <1>4, PageKeeps DEF Dismiss, backend
  <2>2. PICK d : d = IF dialog[op].at = "open" THEN Closed
                     ELSE [dialog[op] EXCEPT !.shown = FALSE]
    OBVIOUS
  <2>3. d \in DialogType /\ d.to \in here.classes \union {"gone"}
    BY <1>2, <2>2 DEF DialogType
  <2>4. Dialog(op, d)
    BY <1>4, <2>2 DEF Dismiss
  <2>5. DialogsOK'
    BY <1>1, <2>3, <2>4, DialogMoves
  <2>6. CASE dialog[op].at = "open"
    <3>1. d.at = "closed"
      BY <2>2, <2>6 DEF Closed
    <3>2. WritersOK'
      BY <1>1, <2>4, <2>6, <3>1, DialogRests DEF Dismiss, backend, Sent
    <3> QED
      BY <2>1, <2>5, <3>2 DEF TableInv
  <2>7. CASE dialog[op].at # "open"
    <3>1. d.at = dialog[op].at /\ d.item = dialog[op].item /\ d.to = dialog[op].to
      BY <1>2, <2>2, <2>7 DEF DialogType
    <3>2. WritersOK'
      BY <1>1, <2>4, <3>1, DialogHides DEF Dismiss, backend
    <3> QED
      BY <2>1, <2>5, <3>2 DEF TableInv
  <2> QED
    BY <2>6, <2>7
<1> QED
  BY <1>3, <1>4

LEMMA DialogConfirmed ==
    ASSUME TableInv, NEW op \in DOMAIN dialog, Confirm(op)
    PROVE  TableInv'
<1>1. PageOK /\ DialogsOK /\ WritersOK /\ kind' = kind
  BY DEF TableInv, Confirm
<1>2. PageOK'
  BY <1>1, PageKeeps DEF Confirm
<1>3. PICK to \in here.classes \union {"gone"} :
          Dialog(op, [dialog[op] EXCEPT !.at = "sent", !.to = to, !.view = view])
  BY DEF Confirm
<1>4. to \in AnyClass /\ view \in AnyView /\ dialog[op] \in DialogType
  BY <1>1, ClassOfPage, DialogAt
<1>5. PICK d : d = [dialog[op] EXCEPT !.at = "sent", !.to = to, !.view = view]
  OBVIOUS
<1>6. d \in DialogType /\ d.to = to
  BY <1>4, <1>5 DEF DialogType
<1>7. DialogsOK'
  BY <1>1, <1>3, <1>5, <1>6, DialogMoves
<1>8. WritersOK'
  <2>1. d.at = "sent" /\ d.item = dialog[op].item
    BY <1>4, <1>5 DEF DialogType
  <2>2. /\ dialog' = [dialog EXCEPT ![op] = d] /\ UNCHANGED <<item, other>>
        /\ lately' = [lately EXCEPT ![op] =
               IF kind = "elections" /\ dialog[op].item \in Items
               THEN {item[dialog[op].item]} ELSE {}]
    BY <1>3, <1>5 DEF Confirm, Dialog
  <2>3. /\ lately \in [here.operations \union {"other"} -> SUBSET AnyClass]
        /\ dialog \in [here.operations -> DialogType]
    BY <1>1 DEF DialogsOK, WritersOK
  <2>4. op # "other" /\ op \in here.operations
    BY <1>1, <2>3, OperationsOf
  <2>5. /\ lately' \in [here.operations \union {"other"} -> SUBSET AnyClass]
        /\ \A r \in here.operations \union {"other"} : r # op => lately'[r] = lately[r]
        /\ lately'[op] = IF kind = "elections" /\ dialog[op].item \in Items
                          THEN {item[dialog[op].item]} ELSE {}
    BY <1>1, <2>2, <2>3, <2>4, ClassOfPage
  <2>6. Items' = Items /\ here' = here /\ RequestType' = RequestType
    BY <1>1, SamePage
  <2>7. ASSUME NEW r \in here.operations \union {"other"}
        PROVE  WaitsWell(r)'
    <3>1. CASE r = op
      BY <1>1, <2>1, <2>2, <2>3, <2>4, <2>5, <2>6, <3>1
      DEF WaitsWell, Waits, Checked, Subject, Sent
    <3>2. CASE r # op
      <4>1. /\ Waits(r)' = Waits(r) /\ Checked(r)' = Checked(r)
            /\ Subject(r)' = Subject(r) /\ Target(r)' = Target(r)
            /\ lately'[r] = lately[r]
        BY <2>2, <2>3, <2>5, <3>2 DEF Waits, Checked, Subject, Target
      <4>2. WaitsWell(r)
        BY <1>1 DEF WritersOK, WritersInv
      <4> QED
        BY <1>1, <2>2, <2>6, <4>1, <4>2 DEF WaitsWell
    <3> QED
      BY <3>1, <3>2
  <2> QED
    BY <1>1, <2>2, <2>5, <2>6, <2>7 DEF WritersOK, WritersInv
<1> QED
  BY <1>2, <1>7, <1>8 DEF TableInv

LEMMA DialogAgain ==
    ASSUME DialogsOK, kind' = kind, NEW op \in DOMAIN dialog,
           \/ Dialog(op, Again(dialog[op])) \/ Dialog(op, Closed) \/ Answered(op)
    PROVE  /\ DialogsOK'
           /\ dialog'[op].at \notin Sent
           /\ \A o \in here.operations : o # op => dialog'[o] = dialog[o]
<1>1. PICK d : d = dialog[op]
  OBVIOUS
<1>2. d \in DialogType /\ d.to \in here.classes \union {"gone"}
  BY <1>1, DialogAt
<1>3. PICK next : /\ Dialog(op, next)
                  /\ next = Again(d) \/ next = Closed \/ next = [d EXCEPT !.at = "done"]
  BY <1>1 DEF Answered
<1>4. NoView \in AnyView /\ "gone" \in AnyClass
  BY ViewsType DEF AnyClass
<1>5. next \in DialogType /\ next.to \in here.classes \union {"gone"}
  <2>1. CASE next = Again(d)
    BY <1>2, <1>4, <2>1, DialogTypes
  <2>2. CASE next = Closed
    BY <2>2, ClosedType
  <2>3. CASE next = [d EXCEPT !.at = "done"]
    BY <1>2, <2>3 DEF DialogType
  <2> QED
    BY <1>3, <2>1, <2>2, <2>3
<1>6. next.at \notin Sent
  <2>1. Again(d).at = "open"
    BY <1>2 DEF Again, Closed, DialogType
  <2>2. [d EXCEPT !.at = "done"].at = "done"
    BY <1>2 DEF DialogType
  <2>3. Closed.at = "closed"
    BY DEF Closed
  <2> QED
    BY <1>3, <2>1, <2>2, <2>3 DEF Sent
<1>7. dialog' = [dialog EXCEPT ![op] = next] /\ DOMAIN dialog = here.operations
  BY <1>3 DEF Dialog, DialogsOK
<1> QED
  BY <1>3, <1>5, <1>6, <1>7, DialogMoves

LEMMA CountType ==
    ASSUME PageOK, Count
    PROVE  changes' \in 0 .. MaxChanges
  BY MaxChangesIsNat DEF PageOK, Count

LEMMA CountKeeps ==
    ASSUME PageOK, changes' \in 0 .. MaxChanges,
           UNCHANGED <<kind, item, view, table, load, crossed, since>>
    PROVE  PageOK'
<1>1. /\ Items' = Items /\ here' = here /\ TableType' = TableType
      /\ LoadType' = LoadType
  BY SamePage
<1>2. LoadsInv'
  BY DEF PageOK, LoadsInv, Shown
<1>3. VotersInv'
  BY <1>1 DEF PageOK, VotersInv, Shown, Crosses, present
<1> QED
  BY <1>1, <1>2, <1>3 DEF PageOK

(* A request that changed the collection, and whose answer came or is lost *)
LEMMA RequestEnds ==
    ASSUME TableInv, NEW op \in DOMAIN dialog, kind' = kind,
           NEW collection \in [Items -> here.classes \union {"gone"}],
           Becomes(collection, op), Answered(op), changes' \in 0 .. MaxChanges,
           UNCHANGED <<other, view, table, load, crossed>>
    PROVE  TableInv'
<1>1. PageOK /\ DialogsOK /\ WritersOK
  BY DEF TableInv
<1>2. PageOK'
  BY <1>1, CollectionMoves
<1>3. /\ DialogsOK' /\ dialog'[op].at \notin Sent
      /\ \A o \in here.operations : o # op => dialog'[o] = dialog[o]
  BY <1>1, DialogAgain
<1>4. op # "other"
  BY <1>1, OperationsOf DEF DialogsOK
<1>5. WritersOK'
  BY <1>1, <1>3, <1>4, WritersMove
<1> QED
  BY <1>2, <1>3, <1>5 DEF TableInv

LEMMA DialogPerforms ==
    ASSUME TableInv, NEW op \in DOMAIN dialog, Perform(op)
    PROVE  TableInv' /\ Recent(item')
<1>1. PageOK /\ DialogsOK /\ kind' = kind
  BY DEF TableInv, Perform
<1>2. PICK collection \in Effect(op, dialog[op]) : Becomes(collection, op)
  BY DEF Perform
<1>3. /\ op \in here.operations \intersect AtOnce
      /\ dialog[op].to \in here.classes \union {"gone"}
  BY <1>1, DialogAt DEF Perform
<1>4. /\ collection \in [Items -> here.classes \union {"gone"}]
      /\ kind = "elections" => \A i \in present : collection[i] = item[i]
  BY <1>1, <1>2, <1>3, EffectType
<1>5. changes' \in 0 .. MaxChanges
  BY <1>1, CountType DEF Perform
<1>6. TableInv'
  BY <1>1, <1>2, <1>4, <1>5, RequestEnds DEF Perform
<1>7. item' = collection
  BY <1>2 DEF Becomes
<1> QED
  BY <1>4, <1>6, <1>7 DEF Recent

(* The check finds a status from which the request may go on, and which    *)
(* the election has at this moment.                                        *)
LEMMA DialogChecks ==
    ASSUME TableInv, NEW op \in DOMAIN dialog, Check(op)
    PROVE  TableInv'
<1>1. PageOK /\ DialogsOK /\ WritersOK /\ kind' = kind
  BY DEF TableInv, Check
<1>2. PageOK'
  <2>1. changes' \in 0 .. MaxChanges
    BY <1>1, CountType DEF Check
  <2> QED
    BY <1>1, <2>1, CountKeeps DEF Check
<1>3. /\ dialog[op] \in DialogType /\ op \in here.operations
      /\ dialog[op].to \in here.classes \union {"gone"}
  BY <1>1, DialogAt
<1>4. PICK d : d = [dialog[op] EXCEPT !.at = "writing"]
  OBVIOUS
<1>5. /\ d \in DialogType /\ d.at = "writing"
      /\ d.item = dialog[op].item /\ d.to = dialog[op].to
  BY <1>3, <1>4 DEF DialogType
<1>6. Dialog(op, d)
  BY <1>4 DEF Check
<1>7. DialogsOK'
  BY <1>1, <1>3, <1>5, <1>6, DialogMoves
<1>8. /\ UNCHANGED <<item, other, lately>> /\ dialog[op].at = "sent"
      /\ Accepts(dialog[op].item, dialog[op].class, dialog[op].to)
  BY DEF Check
<1>9. /\ Items' = Items /\ here' = here /\ RequestType' = RequestType
      /\ dialog' = [dialog EXCEPT ![op] = d] /\ DOMAIN dialog = here.operations
  BY <1>1, <1>6, SamePage DEF Dialog, DialogsOK
<1>10. op # "other"
  BY <1>1, <1>3, OperationsOf
<1>11. ASSUME NEW r \in here.operations \union {"other"}
       PROVE  WaitsWell(r)'
  <2>1. WaitsWell(r)
    BY <1>1 DEF WritersOK, WritersInv
  <2>2. CASE r = op
    <3>1. kind = "elections" => Legal(item[d.item], d.to) /\ d.item \in Items
      BY <1>5, <1>8 DEF Accepts, Moves, Legal, present
    <3>2. Waits(r) /\ Subject(r) = d.item
      BY <1>5, <1>8, <1>10, <2>2 DEF Waits, Subject, Sent
    <3>3. Waits(r)' /\ Subject(r)' = d.item /\ Target(r)' = d.to
      BY <1>3, <1>5, <1>9, <1>10, <2>2 DEF Waits, Subject, Target, Sent
    <3> QED
      BY <1>1, <1>8, <1>9, <2>1, <3>1, <3>2, <3>3 DEF WaitsWell
  <2>3. CASE r # op
    <3>1. /\ Waits(r)' = Waits(r) /\ Checked(r)' = Checked(r)
          /\ Subject(r)' = Subject(r) /\ Target(r)' = Target(r)
      BY <1>8, <1>9, <2>3 DEF Waits, Checked, Subject, Target
    <3> QED
      BY <1>1, <1>8, <1>9, <2>1, <3>1 DEF WaitsWell
  <2> QED
    BY <2>2, <2>3
<1>12. WritersOK'
  BY <1>1, <1>8, <1>9, <1>11 DEF WritersOK, WritersInv
<1> QED
  BY <1>2, <1>7, <1>12 DEF TableInv

LEMMA DialogWrites ==
    ASSUME TableInv, NEW op \in DOMAIN dialog, Write(op)
    PROVE  TableInv' /\ Recent(item')
<1>1. PageOK /\ DialogsOK /\ WritersOK /\ kind' = kind
  BY DEF TableInv, Write
<1>2. op \in here.operations /\ dialog[op].to \in here.classes \union {"gone"}
  BY <1>1, DialogAt
<1>3. PICK collection : /\ Becomes(collection, op)
                        /\ collection = IF kind = "candidates" /\ op = "edit" THEN item
                                        ELSE Rewritten(dialog[op].item, dialog[op].to)
  BY DEF Write
<1>4. collection \in [Items -> here.classes \union {"gone"}]
  BY <1>1, <1>2, <1>3, RewrittenType DEF PageOK
<1>5. changes' \in 0 .. MaxChanges
  BY <1>1 DEF Write, PageOK
<1>6. TableInv'
  BY <1>1, <1>3, <1>4, <1>5, RequestEnds DEF Write
<1>7. Recent(collection)
  <2>1. op # "other"
    BY <1>1, <1>2, OperationsOf
  <2>2. /\ Checked(op) /\ Subject(op) = dialog[op].item /\ Target(op) = dialog[op].to
    BY <2>1 DEF Checked, Subject, Target, Write
  <2>3. Recent(Rewritten(dialog[op].item, dialog[op].to))
    BY <1>1, <1>2, <2>2, WriteIsRecent
  <2> QED
    BY <1>3, <2>3 DEF Recent
<1>8. item' = collection
  BY <1>3 DEF Becomes
<1> QED
  BY <1>6, <1>7, <1>8

LEMMA DialogRefused ==
    ASSUME TableInv, NEW op \in DOMAIN dialog, Refuse(op)
    PROVE  TableInv'
<1>1. PageOK /\ DialogsOK /\ WritersOK /\ kind' = kind
  BY DEF TableInv, Refuse
<1>2. PageOK'
  BY <1>1, PageKeeps DEF Refuse
<1>3. /\ DialogsOK' /\ dialog'[op].at \notin Sent
      /\ \A o \in here.operations : o # op => dialog'[o] = dialog[o]
  BY <1>1, DialogAgain DEF Refuse
<1>4. /\ lately \in [here.operations \union {"other"} -> SUBSET AnyClass]
      /\ lately' = [lately EXCEPT ![op] = {}] /\ UNCHANGED <<item, other>>
      /\ op \in here.operations /\ op # "other"
  BY <1>1, OperationsOf DEF DialogsOK, WritersOK, Refuse
<1>5. WritersOK'
  BY <1>1, <1>3, <1>4, WritersKeep
<1> QED
  BY <1>2, <1>3, <1>5 DEF TableInv

LEMMA DialogEnds ==
    ASSUME TableInv, NEW op \in DOMAIN dialog, Performed(op)
    PROVE  TableInv'
<1>1. PageOK /\ DialogsOK /\ WritersOK /\ kind' = kind
  BY DEF TableInv, Performed
<1>2. DialogsOK'
  BY <1>1, DialogAgain DEF Performed
<1>3. WritersOK'
  <2>1. Dialog(op, Closed) /\ UNCHANGED <<item, other, lately>>
    BY DEF Performed, backend
  <2>2. dialog[op].at \notin Sent /\ Closed.at \notin Sent
    BY DEF Performed, Closed, Sent
  <2> QED
    BY <1>1, <2>1, <2>2, DialogRests
<1>4. CASE op \in Forms
  <2>1. PageOK'
    BY <1>1, <1>4, FormReopens DEF Performed, Forms, backend
  <2> QED
    BY <1>2, <1>3, <2>1 DEF TableInv
<1>5. CASE op \notin Forms
  <2>1. dialog[op].view \in AnyView
    BY <1>1, DialogAt DEF DialogType
  <2>2. PageOK'
    BY <1>1, <1>5, <2>1, ReloadKeeps DEF Performed, backend
  <2> QED
    BY <1>2, <1>3, <2>2 DEF TableInv
<1> QED
  BY <1>4, <1>5

-----------------------------------------------------------------------------
(* The others                                                              *)

LEMMA OthersWriteAtOnce ==
    ASSUME TableInv, NEW i \in Items, NEW class \in here.classes \union {"gone"},
           OtherWritesAtOnce(i, class),
           UNCHANGED <<kind, view, table, load, crossed, dialog>>
    PROVE  TableInv' /\ Recent(item')
<1>1. PageOK /\ DialogsOK /\ WritersOK
  BY DEF TableInv
<1>2. PICK collection : collection = [item EXCEPT ![i] = class]
  OBVIOUS
<1>3. /\ Becomes(collection, "none") /\ other' = other
      /\ kind = "elections" => i \notin present
  BY <1>2 DEF OtherWritesAtOnce
<1>4. /\ collection \in [Items -> here.classes \union {"gone"}]
      /\ \A k \in Items : k # i => collection[k] = item[k]
  BY <1>1, <1>2 DEF PageOK
<1>5. changes' \in 0 .. MaxChanges
  BY <1>1, CountType DEF OtherWritesAtOnce
<1>6. PageOK'
  BY <1>1, <1>3, <1>4, <1>5, CollectionMoves
<1>7. DialogsOK'
  BY <1>1, DialogsKeep
<1>8. WritersOK'
  <2>1. \A op \in here.operations : op # "none" /\ dialog'[op] = dialog[op]
    BY <1>1, OperationsOf
  <2> QED
    BY <1>1, <1>3, <1>4, <2>1, WritersMove
<1>9. item' = collection
  BY <1>3 DEF Becomes
<1> QED
  BY <1>3, <1>4, <1>6, <1>7, <1>8, <1>9 DEF TableInv, Recent, present

LEMMA OtherIsChecked ==
    ASSUME TableInv, NEW i \in Items, NEW to \in here.classes \union {"gone"},
           OtherChecks(i, to),
           UNCHANGED <<kind, view, table, load, crossed, dialog>>
    PROVE  TableInv' /\ item' = item
<1>1. PageOK /\ DialogsOK /\ WritersOK
  BY DEF TableInv
<1>2. /\ other' = [item |-> i, to |-> to] /\ UNCHANGED <<item, since>>
      /\ lately' = [lately EXCEPT !["other"] =
                        IF kind = "elections" THEN {item[i]} ELSE {}]
      /\ Accepts(i, item[i], to)
  BY DEF OtherChecks
<1>3. PageOK'
  <2>1. changes' \in 0 .. MaxChanges
    BY <1>1, CountType DEF OtherChecks
  <2> QED
    BY <1>1, <1>2, <2>1, CountKeeps
<1>4. DialogsOK'
  BY <1>1, DialogsKeep
<1>5. /\ Items' = Items /\ here' = here /\ RequestType' = RequestType
      /\ here.classes \union {"gone"} \subseteq AnyClass /\ item[i] \in AnyClass
      /\ "other" \notin here.operations
  BY <1>1, SamePage, ClassOfPage, OperationsOf
<1>6. lately \in [here.operations \union {"other"} -> SUBSET AnyClass]
  BY <1>1 DEF WritersOK
<1>7. /\ lately' \in [here.operations \union {"other"} -> SUBSET AnyClass]
      /\ lately'["other"] = IF kind = "elections" THEN {item[i]} ELSE {}
      /\ \A op \in here.operations : lately'[op] = lately[op]
  BY <1>2, <1>5, <1>6
<1>8. other' \in RequestType /\ other'.to \in here.classes \union {"gone"}
  BY <1>2, <1>5 DEF RequestType
<1>9. ASSUME NEW r \in here.operations \union {"other"}
      PROVE  WaitsWell(r)'
  <2>1. CASE r = "other"
    <3>1. kind = "elections" => Legal(item[i], to)
      BY <1>2 DEF Accepts, Moves, Legal, present
    <3>2. i # 0
      BY <1>1, ItemsType DEF PageOK
    <3> QED
      BY <1>2, <1>5, <1>7, <2>1, <3>1, <3>2
      DEF WaitsWell, Waits, Checked, Subject, Target
  <2>2. CASE r # "other"
    <3>1. WaitsWell(r)
      BY <1>1 DEF WritersOK, WritersInv
    <3> QED
      BY <1>2, <1>5, <1>7, <2>2, <3>1 DEF WaitsWell, Waits, Checked, Subject, Target
  <2> QED
    BY <2>1, <2>2
<1>10. WritersOK'
  BY <1>5, <1>7, <1>8, <1>9 DEF WritersOK, WritersInv
<1> QED
  BY <1>2, <1>3, <1>4, <1>10 DEF TableInv

LEMMA OtherIsWritten ==
    ASSUME TableInv, OtherWrites,
           UNCHANGED <<kind, view, table, load, crossed, dialog>>
    PROVE  TableInv' /\ Recent(item')
<1>1. PageOK /\ DialogsOK /\ WritersOK
  BY DEF TableInv
<1>2. other \in RequestType /\ other.to \in here.classes \union {"gone"}
  BY <1>1 DEF WritersOK
<1>3. PICK collection : collection = Rewritten(other.item, other.to)
  OBVIOUS
<1>4. Becomes(collection, "other") /\ other' = NoRequest /\ changes' = changes
  BY <1>3 DEF OtherWrites
<1>5. collection \in [Items -> here.classes \union {"gone"}]
  BY <1>1, <1>2, <1>3, RewrittenType
<1>6. PageOK'
  BY <1>1, <1>4, <1>5, CollectionMoves DEF PageOK
<1>7. DialogsOK'
  BY <1>1, DialogsKeep
<1>8. WritersOK'
  <2>1. \A op \in here.operations : op # "other" /\ dialog'[op] = dialog[op]
    BY <1>1, OperationsOf
  <2> QED
    BY <1>1, <1>4, <1>5, <2>1, WritersMove
<1>9. Recent(collection)
  <2>1. CASE other.item = 0
    <3>1. other.item \notin Items
      BY <1>1, <2>1, ItemsType DEF PageOK
    <3>2. \A k \in Items : collection[k] = item[k]
      BY <1>1, <1>2, <1>3, <3>1, RewrittenType
    <3> QED
      BY <3>2 DEF Recent, present
  <2>2. CASE other.item # 0
    <3>1. Checked("other") /\ Subject("other") = other.item /\ Target("other") = other.to
      BY <2>2 DEF Checked, Subject, Target
    <3> QED
      BY <1>1, <1>3, <3>1, WriteIsRecent
  <2> QED
    BY <2>1, <2>2
<1>10. item' = collection
  BY <1>4 DEF Becomes
<1> QED
  BY <1>6, <1>7, <1>8, <1>9, <1>10 DEF TableInv

LEMMA OthersMove ==
    ASSUME TableInv, Others
    PROVE  TableInv' /\ Recent(item')
<1>1. UNCHANGED <<kind, view, table, load, crossed, dialog>>
  BY DEF Others
<1>2. CASE OtherWrites
  BY <1>1, <1>2, OtherIsWritten
<1>3. ASSUME NEW i \in Items, NEW class \in here.classes \union {"gone"},
             OtherWritesAtOnce(i, class)
      PROVE  TableInv' /\ Recent(item')
  BY <1>1, <1>3, OthersWriteAtOnce
<1>4. ASSUME NEW i \in Items, NEW class \in here.classes \union {"gone"},
             OtherChecks(i, class)
      PROVE  TableInv' /\ Recent(item')
  BY <1>1, <1>4, OtherIsChecked DEF Recent
<1> QED
  BY <1>2, <1>3, <1>4 DEF Others

LEMMA AnswersKeepTable ==
    ASSUME TableInv, TableAnswers
    PROVE  TableInv' /\ Recent(item')
<1>1. PageOK /\ DialogsOK /\ WritersOK
  BY DEF TableInv
<1>2. ASSUME NEW s \in Slots, Answer(s)
      PROVE  TableInv' /\ item' = item
  BY <1>1, <1>2, AnswerKeeps, DialogsKeep, WritersStay DEF Answer, backend, TableInv
<1>3. ASSUME NEW s \in Slots, ArriveFailed(s)
      PROVE  TableInv' /\ item' = item
  BY <1>1, <1>3, FailureKeeps, DialogsKeep, WritersStay DEF ArriveFailed, backend, TableInv
<1>4. ASSUME NEW s \in Slots, Arrive(s)
      PROVE  TableInv' /\ item' = item
  BY <1>1, <1>4, ArrivalKeeps, DialogsKeep, WritersStay DEF Arrive, backend, TableInv
<1>5. ASSUME NEW op \in DOMAIN dialog, Perform(op) \/ Write(op)
      PROVE  TableInv' /\ Recent(item')
  BY <1>5, DialogPerforms, DialogWrites
<1>6. ASSUME NEW op \in DOMAIN dialog, Check(op) \/ Refuse(op)
      PROVE  TableInv' /\ item' = item
  BY <1>6, DialogChecks, DialogRefused DEF Check, Refuse
<1>7. ASSUME NEW op \in DOMAIN dialog, Performed(op)
      PROVE  TableInv' /\ item' = item
  BY <1>7, DialogEnds DEF Performed, backend
<1> QED
  BY <1>2, <1>3, <1>4, <1>5, <1>6, <1>7 DEF TableAnswers, Recent

LEMMA ClicksKeepTable ==
    ASSUME TableInv, AdminActs
    PROVE  TableInv' /\ item' = item
<1>1. PageOK /\ DialogsOK /\ WritersOK
  BY DEF TableInv
<1>2. ASSUME NEW v \in Views(kind), ChangeView(v)
      PROVE  TableInv' /\ item' = item
  BY <1>1, <1>2, ViewChangeKeeps, DialogsKeep, WritersStay DEF ChangeView, backend, TableInv
<1>3. CASE Retry
  <2>1. view \in AnyView
    BY <1>1, ClassOfPage
  <2> QED
    BY <1>1, <1>3, <2>1, ReloadKeeps, DialogsKeep, WritersStay DEF Retry, backend, TableInv
<1>4. CASE loadMore
  BY <1>1, <1>4, MoreKeeps, DialogsKeep, WritersStay DEF loadMore, backend, TableInv
<1>5. ASSUME NEW op \in DOMAIN dialog, Dismiss(op)
      PROVE  TableInv' /\ item' = item
  BY <1>5, DialogDismissed DEF Dismiss, backend
<1>6. ASSUME NEW op \in DOMAIN dialog, Confirm(op)
      PROVE  TableInv' /\ item' = item
  BY <1>6, DialogConfirmed DEF Confirm
<1>7. ASSUME NEW op \in DOMAIN dialog, NEW row, OpenDialog(op, row)
      PROVE  TableInv' /\ item' = item
  BY <1>7, DialogOpens DEF OpenDialog, backend
<1>8. ASSUME NEW op \in DOMAIN dialog, NEW i \in Items \union {0}, OpenForm(op, i)
      PROVE  TableInv' /\ item' = item
  BY <1>8, FormOpensOver DEF OpenForm
<1> QED
  BY <1>2, <1>3, <1>4, <1>5, <1>6, <1>7, <1>8 DEF AdminActs

LEMMA StepKeepsTable ==
    ASSUME TableInv, [Next]_vars
    PROVE  TableInv' /\ Recent(item')
<1>1. CASE UNCHANGED tableVars
  <2>1. PageOK /\ DialogsOK /\ WritersOK
    BY DEF TableInv
  <2>2. UNCHANGED <<kind, item, changes, view, table, load, crossed, since, other,
                    lately, dialog>>
    BY <1>1 DEF tableVars, backend
  <2>3. PageOK' /\ DialogsOK' /\ WritersOK'
    BY <2>1, <2>2, PageKeeps, DialogsKeep, WritersStay
  <2> QED
    BY <2>2, <2>3 DEF TableInv, Recent
<1>2. CASE TableAnswers
  BY <1>2, AnswersKeepTable
<1>3. CASE AdminActs
  BY <1>3, ClicksKeepTable DEF Recent
<1>4. CASE Others
  BY <1>4, OthersMove
<1> QED
  BY <1>1, <1>2, <1>3, <1>4 DEF Next, vars, TableMoves, FormMoves

PagesInv == screen \in Screens /\ TableInv /\ FormInv

LEMMA PagesStay == Spec => []PagesInv
<1>1. Init => PagesInv
  BY TableOpens, FormOpens DEF Init, PagesInv
<1>2. PagesInv /\ [Next]_vars => PagesInv'
  <2>1. PagesInv /\ [Next]_vars => screen' \in Screens
    BY DEF PagesInv, Next, vars, TableMoves, FormMoves
  <2> QED
    BY <2>1, StepKeepsTable, StepKeepsForm DEF PagesInv
<1> QED
  BY <1>1, <1>2, PTL DEF Spec

(* What the pages hold is what their code declares, for any collections    *)
(* and any number of requests and dialogs (AdminPages).                    *)
THEOREM PagesTypesCorrect == Spec => []TypeOK
<1>1. PagesInv => TypeOK
  BY DEF PagesInv, TableInv, PageOK, DialogsOK, WritersOK, TableTypeOK, FormInv, TypeOK
<1> QED
  BY <1>1, PagesStay, PTL

(* Rows of a view that is not chosen any more only come of a reload, which *)
(* nothing aborts: load of useListUsers and the other list hooks, whose    *)
(* effects abort what they asked for before (AdminTables).                 *)
THEOREM SupersededStaysAway == Spec => []SupersededNeverShows
<1>1. PagesInv => SupersededNeverShows
  BY DEF PagesInv, TableInv, PageOK, LoadsInv, SupersededNeverShows
<1> QED
  BY <1>1, PagesStay, PTL

(* The pages of voters, by keyset, list nobody twice and miss nobody who   *)
(* was there all the time, for any number of voters, pages of any size and *)
(* others who come and go between the requests (AdminTables).              *)
THEOREM VotersStayListedOnce == Spec => []VotersListedOnce
<1>1. PagesInv => VotersListedOnce
  <2> SUFFICES ASSUME PagesInv, kind = "voters", Shown, ~crossed,
                      NEW listed, listed = [n \in DOMAIN table.rows |-> table.rows[n].item]
               PROVE  /\ \A n, m \in DOMAIN listed : n < m => listed[n] < listed[m]
                      /\ table.next = 0 => since["table"] \subseteq Range(listed)
    BY DEF VotersListedOnce
  <2>1. Reads(table.rows, 0, table.next, since["table"])
    BY DEF PagesInv, TableInv, PageOK, VotersInv
  <2>2. \A n, m \in DOMAIN listed : n < m => listed[n] < listed[m]
    BY <2>1 DEF Reads, InRow
  <2>3. ASSUME table.next = 0, NEW i \in since["table"]
        PROVE  i \in Range(listed)
    <3>1. i \in Nat /\ i # 0
      <4>1. kind \in Pages /\ since \in [Slots \union {"table"} -> SUBSET Items]
        BY DEF PagesInv, TableInv, PageOK
      <4> QED
        BY <2>3, <4>1, ItemsType
    <3>2. \E n \in DOMAIN table.rows : table.rows[n].item = i
      BY <2>1, <2>3, <3>1 DEF Reads, Misses
    <3> QED
      BY <3>2 DEF Range
  <2> QED
    BY <2>2, <2>3
<1> QED
  BY <1>1, PagesStay, PTL

(* What a request does to an election is a move from a status that the     *)
(* election had since the request was sent: the backend looks at the       *)
(* election again whatever row or form the request comes of, and although  *)
(* others check and write theirs meanwhile: update and remove of           *)
(* elections/service.ts (AdminTables).                                     *)
THEOREM StatusMovesAreRecent == Spec => MovesFromRecentStatus
<1>1. PagesInv /\ [Next]_vars =>
         [kind = "elections" => \A i \in present :
             \/ item'[i] = item[i]
             \/ \E r \in DOMAIN lately : Subject(r) = i
                   /\ \E from \in lately[r] : Legal(from, item'[i])]_tableVars
  <2> SUFFICES ASSUME PagesInv, [Next]_vars, ~ UNCHANGED tableVars,
                      kind = "elections", NEW i \in present
               PROVE  \/ item'[i] = item[i]
                      \/ \E r \in DOMAIN lately : Subject(r) = i
                            /\ \E from \in lately[r] : Legal(from, item'[i])
    OBVIOUS
  <2>1. Recent(item')
    BY StepKeepsTable DEF PagesInv
  <2> QED
    BY <2>1 DEF Recent
<1> QED
  BY <1>1, PagesStay, PTL DEF Spec, MovesFromRecentStatus

=============================================================================
