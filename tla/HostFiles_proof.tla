--------------------------- MODULE HostFiles_proof ---------------------------
(***************************************************************************)
(* What holds of the host's files for any prompts, skills and threads.     *)
(***************************************************************************)
EXTENDS PromptsRegistry, SkillsRegistry, TokenLedger, SequenceTheorems,
        FiniteSetTheorems, WellFoundedInduction, TLAPS

LEMMA EmptyType == Empty \in Registries
BY DEF Empty, Registries

LEMMA LoadType == TypeOK => Load \in Registries
BY EmptyType DEF TypeOK, Load

LEMMA WithType ==
  ASSUME NEW reg \in Registries, NEW p \in Prompts, NEW text \in Texts \cup {None}
  PROVE  /\ With(reg, p, text) \in Registries
         /\ With(reg, p, text).enabled = reg.enabled
         /\ With(reg, p, text).text[p] = text
         /\ \A q \in Prompts \ {p} : With(reg, p, text).text[q] = reg.text[q]
BY DEF With, Registries

LEMMA FlagsType ==
  ASSUME NEW reg \in Registries, NEW S \in SUBSET Prompts
  PROVE  /\ [reg EXCEPT !.enabled = S] \in Registries
         /\ [reg EXCEPT !.enabled = S].enabled = S
         /\ [reg EXCEPT !.enabled = S].text = reg.text
BY DEF Registries

LEMMA WrittenBackType ==
  ASSUME NEW reg \in Registries, agents \in Texts
  PROVE  /\ WrittenBack(reg) \in Registries
         /\ WrittenBack(reg).enabled = reg.enabled
         /\ \A p \in Prompts : /\ Has(reg, p) => WrittenBack(reg).text[p] \in Texts
                               /\ reg.text[p] # 0 => WrittenBack(reg).text[p] # 0
                               /\ agents # 0 /\ p \in reg.enabled => WrittenBack(reg).text[p] = agents
BY DEF WrittenBack, Registries, Has

\* What an enable keeps holds AGENTS.md, and no text that was empty before or is now.
LEMMA BackedUpType ==
  ASSUME NEW reg \in Registries, agents \in Texts, NEW kept \in BackedUp(reg)
  PROVE  /\ kept \in Registries
         /\ \A p \in Prompts : /\ Has(reg, p) => kept.text[p] \in Texts
                               /\ reg.text[p] # 0 => kept.text[p] # 0
         /\ agents # 0 => \E p \in Prompts : kept.text[p] = agents
<1>1. CASE reg.enabled = {} /\ agents # 0
  <2>1. PICK p \in Prompts : ~Has(reg, p) /\ kept = With(reg, p, agents)
    BY <1>1 DEF BackedUp
  <2>2. kept \in Registries /\ kept.text[p] = agents /\ \A q \in Prompts \ {p} : kept.text[q] = reg.text[q]
    BY <2>1, WithType
  <2> QED BY <1>1, <2>1, <2>2 DEF Has, Registries
<1>2. CASE ~(reg.enabled = {} /\ agents # 0)
  <2>1. kept = WrittenBack(reg)
    BY <1>2 DEF BackedUp
  <2>2. agents # 0 => \E p \in Prompts : p \in reg.enabled
    BY <1>2 DEF Registries
  <2> QED BY <2>1, <2>2, WrittenBackType
<1> QED BY <1>1, <1>2

LEMMA ItemType ==
  ASSUME NEW what \in {"agents", "truncate", "registry", "marker", "enable", "show"},
         NEW id \in Prompts \cup {None}, NEW text \in Texts, NEW reg \in Registries
  PROVE  Item(what, id, text, reg) \in Items
BY DEF Item, Items

LEMMA Join2 == ASSUME NEW a, NEW b PROVE <<a>> \o <<b>> = <<a, b>>
<1> DEFINE S == {a, b}
           s == <<a>> \o <<b>>
<1>1. Len(s) = 2 /\ s \in Seq(S) /\ s[1] = a /\ s[2] = b
  OBVIOUS
<1>2. <<a, b>> \in Seq(S) /\ Len(<<a, b>>) = 2 /\ \A i \in 1..Len(s) : s[i] = <<a, b>>[i]
  BY <1>1
<1> HIDE DEF s
<1>3. s = <<a, b>>
  BY <1>1, <1>2, SeqEqual
<1> QED BY <1>3 DEF s

LEMMA Join3 ==
  ASSUME NEW a, NEW b, NEW c
  PROVE  <<a>> \o <<b, c>> = <<a, b, c>> /\ <<a, b>> \o <<c>> = <<a, b, c>>
<1> DEFINE S == {a, b, c}
           s == <<a>> \o <<b, c>>
           t == <<a, b>> \o <<c>>
<1>1. /\ Len(s) = 3 /\ s \in Seq(S) /\ s[1] = a /\ s[2] = b /\ s[3] = c
      /\ Len(t) = 3 /\ t \in Seq(S) /\ t[1] = a /\ t[2] = b /\ t[3] = c
  OBVIOUS
<1>2. /\ <<a, b, c>> \in Seq(S) /\ Len(<<a, b, c>>) = 3
      /\ \A i \in 1..Len(s) : s[i] = <<a, b, c>>[i]
      /\ \A i \in 1..Len(t) : t[i] = <<a, b, c>>[i]
  BY <1>1
<1> HIDE DEF s, t
<1>3. s = <<a, b, c>>
  BY <1>1, <1>2, SeqEqual
<1>4. t = <<a, b, c>>
  BY <1>1, <1>2, SeqEqual
<1> QED BY <1>3, <1>4 DEF s, t

LEMMA Join4 ==
  ASSUME NEW a, NEW b, NEW c, NEW d
  PROVE  <<a, b>> \o <<c, d>> = <<a, b, c, d>> /\ <<a, b, c>> \o <<d>> = <<a, b, c, d>>
<1> DEFINE S == {a, b, c, d}
           s == <<a, b>> \o <<c, d>>
           t == <<a, b, c>> \o <<d>>
<1>1. /\ Len(s) = 4 /\ s \in Seq(S) /\ s[1] = a /\ s[2] = b /\ s[3] = c /\ s[4] = d
      /\ Len(t) = 4 /\ t \in Seq(S) /\ t[1] = a /\ t[2] = b /\ t[3] = c /\ t[4] = d
  OBVIOUS
<1>2. /\ <<a, b, c, d>> \in Seq(S) /\ Len(<<a, b, c, d>>) = 4
      /\ \A i \in 1..Len(s) : s[i] = <<a, b, c, d>>[i]
      /\ \A i \in 1..Len(t) : t[i] = <<a, b, c, d>>[i]
  BY <1>1
<1> HIDE DEF s, t
<1>3. s = <<a, b, c, d>>
  BY <1>1, <1>2, SeqEqual
<1>4. t = <<a, b, c, d>>
  BY <1>1, <1>2, SeqEqual
<1> QED BY <1>3, <1>4 DEF s, t

\* The items of each operation, in their order.
ToEnable(p) == Item("enable", p, 0, Empty)
ToShow(reg) == Item("show", None, 0, reg)
ToTruncate == Item("truncate", None, 0, Empty)
ToSave(reg) == Item("registry", None, 0, reg)
ToWrite(text) == Item("agents", None, text, Empty)
ToMark == Item("marker", None, 0, Empty)

LEMMA Programs ==
  ASSUME NEW p \in Prompts, NEW text \in Texts, NEW reg \in Registries, NEW page \in Registries
  PROVE  /\ CallEnable(p) \o Show(page) = <<ToEnable(p), ToShow(page)>>
         /\ Save(reg) \o Show(page) = <<ToTruncate, ToSave(reg), ToShow(page)>>
         /\ Save(reg) \o (CallEnable(p) \o Show(page))
              = <<ToTruncate, ToSave(reg), ToEnable(p), ToShow(page)>>
         /\ WriteAgents(text) \o Save(reg) \o Show(page)
              = <<ToWrite(text), ToTruncate, ToSave(reg), ToShow(page)>>
         /\ Save(reg) \o WriteAgents(text) \o WriteMarker
              = <<ToTruncate, ToSave(reg), ToWrite(text), ToMark>>
         /\ {ToEnable(p), ToShow(page), ToTruncate, ToSave(reg), ToWrite(text), ToMark} \subseteq Items
<1>1. {ToEnable(p), ToShow(page), ToTruncate, ToSave(reg), ToWrite(text), ToMark} \subseteq Items
  BY ItemType, EmptyType, BoundsAssumption, SMTT(30) DEF ToEnable, ToShow, ToTruncate, ToSave, ToWrite, ToMark, Texts
<1> DEFINE e == ToEnable(p)
           s == ToShow(page)
           t == ToTruncate
           r == ToSave(reg)
           a == ToWrite(text)
           m == ToMark
<1>2. /\ CallEnable(p) = <<e>> /\ Show(page) = <<s>> /\ Save(reg) = <<t, r>>
      /\ WriteAgents(text) = <<a>> /\ WriteMarker = <<m>>
  BY DEF CallEnable, Show, Save, WriteAgents, WriteMarker, ToEnable, ToShow, ToTruncate, ToSave, ToWrite, ToMark
<1>3. e \in Items /\ s \in Items /\ t \in Items /\ r \in Items /\ a \in Items /\ m \in Items
  BY <1>1
<1> HIDE DEF e, s, t, r, a, m
<1>4. /\ <<e>> \o <<s>> = <<e, s>> /\ <<t, r>> \o <<s>> = <<t, r, s>>
      /\ <<t, r>> \o <<e, s>> = <<t, r, e, s>>
      /\ <<a>> \o <<t, r>> = <<a, t, r>> /\ <<a, t, r>> \o <<s>> = <<a, t, r, s>>
      /\ <<t, r>> \o <<a>> = <<t, r, a>> /\ <<t, r, a>> \o <<m>> = <<t, r, a, m>>
  <2>1. <<e>> \o <<s>> = <<e, s>>
    BY Join2
  <2>2. <<t, r>> \o <<s>> = <<t, r, s>>
    BY Join3
  <2>3. <<t, r>> \o <<e, s>> = <<t, r, e, s>>
    BY Join4
  <2>4. <<a>> \o <<t, r>> = <<a, t, r>>
    BY Join3
  <2>5. <<a, t, r>> \o <<s>> = <<a, t, r, s>>
    BY Join4
  <2>6. <<t, r>> \o <<a>> = <<t, r, a>>
    BY Join3
  <2>7. <<t, r, a>> \o <<m>> = <<t, r, a, m>>
    BY Join4
  <2> QED BY <2>1, <2>2, <2>3, <2>4, <2>5, <2>6, <2>7
<1>5. /\ CallEnable(p) \o Show(page) = <<e, s>>
      /\ Save(reg) \o Show(page) = <<t, r, s>>
      /\ Save(reg) \o (CallEnable(p) \o Show(page)) = <<t, r, e, s>>
      /\ WriteAgents(text) \o Save(reg) \o Show(page) = <<a, t, r, s>>
      /\ Save(reg) \o WriteAgents(text) \o WriteMarker = <<t, r, a, m>>
  BY <1>2, <1>4
<1> QED BY <1>1, <1>5 DEF e, s, t, r, a, m

-----------------------------------------------------------------------------
(* What the running operation has yet to do. *)

Last(i) == i = Len(todo)

\* The flags the page will show once item i is done.
ShownAfter(i) == IF ~Last(i) /\ todo[i + 1].do = "show" THEN todo[i + 1].reg.enabled ELSE shown.enabled

\* The items of an operation: what is truncated is written next, only the end of
\* an operation is shown, and an enable shows the prompt it enables.
ItemOK(i) ==
  /\ todo[i].do = "truncate" => ~Last(i) /\ todo[i + 1].do = "registry"
  /\ todo[i].do = "enable" => /\ ~Last(i)
                              /\ todo[i + 1].do = "show"
                              /\ todo[i].id \in Prompts
                              /\ todo[i + 1].reg.enabled = {todo[i].id}
                              /\ replaced = 0
  /\ todo[i].do \in {"agents", "marker"} => Last(i) \/ todo[i + 1].do # "show"
  /\ todo[i].do \in {"show", "enable"} => open
  /\ todo[i].do = "show" => Last(i)
  /\ AtMostOne(todo[i].reg.enabled)

\* The registry to be written enables what the page will show, no text of it is empty,
\* and it holds the AGENTS.md that is being replaced.
Written(i) ==
  todo[i].do = "registry" =>
    /\ open => /\ todo[i].reg.enabled \subseteq ShownAfter(i)
               /\ halts = 0 => todo[i].reg.enabled = ShownAfter(i)
    /\ \A p \in Prompts : todo[i].reg.text[p] # 0
    /\ halts = 0 /\ replaced # 0 => \E p \in Prompts : todo[i].reg.text[p] = replaced

TodoOK == \A i \in 1..Len(todo) : ItemOK(i) /\ Written(i)

Showing == todo # <<>> /\ Head(todo).do = "show"
Target == IF Showing THEN Head(todo).reg.enabled ELSE shown.enabled

\* The registry is torn only while it is being written, unless something went wrong.
TornOK == halts = 0 /\ torn => todo # <<>> /\ Head(todo).do = "registry"

PageOK == open => /\ Load.enabled \subseteq Target
                  /\ halts = 0 /\ ~torn => Load.enabled = Target

Saving == \E i \in 1..Len(todo) : todo[i].do = "registry"

KeptOK == halts = 0 /\ replaced # 0 /\ todo # <<>> /\ ~Saving => \E p \in Prompts : Load.text[p] = replaced

PromptsInv == TypeOK /\ OneInForce /\ NoPromptEmptied /\ TodoOK /\ TornOK /\ PageOK /\ KeptOK

\* What a registry that is written and then shown as E must be like.
Writable(reg, E) ==
  /\ AtMostOne(reg.enabled)
  /\ open => /\ reg.enabled \subseteq E
             /\ halts = 0 => reg.enabled = E
  /\ \A p \in Prompts : reg.text[p] # 0
  /\ halts = 0 /\ replaced # 0 => \E p \in Prompts : reg.text[p] = replaced

LEMMA Fields ==
  /\ \A p : ToEnable(p).do = "enable" /\ ToEnable(p).id = p /\ ToEnable(p).reg = Empty
  /\ \A reg : ToShow(reg).do = "show" /\ ToShow(reg).reg = reg
  /\ ToTruncate.do = "truncate" /\ ToTruncate.reg = Empty
  /\ \A reg : ToSave(reg).do = "registry" /\ ToSave(reg).reg = reg
  /\ \A text : ToWrite(text).do = "agents" /\ ToWrite(text).text = text /\ ToWrite(text).reg = Empty
  /\ ToMark.do = "marker" /\ ToMark.reg = Empty
  /\ Empty.enabled = {} /\ AtMostOne(Empty.enabled)
BY DEF ToEnable, ToShow, ToTruncate, ToSave, ToWrite, ToMark, Item, Empty, AtMostOne

\* The items that begin an operation, and an enable's own, are in order.
LEMMA EnableShow ==
  ASSUME NEW p \in Prompts, NEW s \in Items, s.do = "show", s.reg.enabled = {p},
         todo' = <<ToEnable(p), s>>, open', replaced' = 0
  PROVE  TodoOK'
<1>1. Len(todo') = 2 /\ todo'[1] = ToEnable(p) /\ todo'[2] = s
  OBVIOUS
<1> SUFFICES ASSUME NEW i \in 1..Len(todo') PROVE ItemOK(i)' /\ Written(i)'
  BY DEF TodoOK
<1>2. i = 1 \/ i = 2
  BY <1>1
<1>3. CASE i = 1
  <2>1. /\ Last(i)' <=> FALSE
        /\ todo'[i] = ToEnable(p) /\ todo'[i + 1] = s
    BY <1>1, <1>3 DEF Last
  <2> QED BY <2>1, Fields DEF ItemOK, Written, AtMostOne
<1>4. CASE i = 2
  <2>1. /\ Last(i)' <=> TRUE
        /\ todo'[i] = s
    BY <1>1, <1>4 DEF Last
  <2> QED BY <2>1, Fields DEF ItemOK, Written, AtMostOne
<1> QED BY <1>2, <1>3, <1>4

LEMMA SaveShow ==
  ASSUME NEW reg \in Registries, NEW s \in Items, s.do = "show", AtMostOne(s.reg.enabled),
         todo' = <<ToTruncate, ToSave(reg), s>>, open', Writable(reg, s.reg.enabled)'
  PROVE  TodoOK'
<1>1. Len(todo') = 3 /\ todo'[1] = ToTruncate /\ todo'[2] = ToSave(reg) /\ todo'[3] = s
  OBVIOUS
<1> SUFFICES ASSUME NEW i \in 1..Len(todo') PROVE ItemOK(i)' /\ Written(i)'
  BY DEF TodoOK
<1>2. i = 1 \/ i = 2 \/ i = 3
  BY <1>1
<1>3. CASE i = 1
  <2>1. /\ Last(i)' <=> FALSE
        /\ todo'[i] = ToTruncate /\ todo'[i + 1] = ToSave(reg)
    BY <1>1, <1>3 DEF Last
  <2> QED BY <2>1, Fields DEF ItemOK, Written, AtMostOne
<1>4. CASE i = 2
  <2>1. /\ Last(i)' <=> FALSE
        /\ todo'[i] = ToSave(reg) /\ todo'[i + 1] = s
    BY <1>1, <1>4 DEF Last
  <2> QED BY <2>1, Fields DEF ItemOK, Written, Writable, ShownAfter
<1>5. CASE i = 3
  <2>1. /\ Last(i)' <=> TRUE
        /\ todo'[i] = s
    BY <1>1, <1>5 DEF Last
  <2> QED BY <2>1, Fields DEF ItemOK, Written, AtMostOne
<1> QED BY <1>2, <1>3, <1>4, <1>5

LEMMA WriteSaveShow ==
  ASSUME NEW text \in Texts, NEW reg \in Registries, NEW s \in Items, s.do = "show", AtMostOne(s.reg.enabled),
         todo' = <<ToWrite(text), ToTruncate, ToSave(reg), s>>, open', Writable(reg, s.reg.enabled)'
  PROVE  TodoOK'
<1>1. Len(todo') = 4 /\ todo'[1] = ToWrite(text) /\ todo'[2] = ToTruncate /\ todo'[3] = ToSave(reg) /\ todo'[4] = s
  OBVIOUS
<1> SUFFICES ASSUME NEW i \in 1..Len(todo') PROVE ItemOK(i)' /\ Written(i)'
  BY DEF TodoOK
<1>2. i = 1 \/ i = 2 \/ i = 3 \/ i = 4
  BY <1>1
<1>3. CASE i = 1
  <2>1. /\ Last(i)' <=> FALSE
        /\ todo'[i] = ToWrite(text) /\ todo'[i + 1] = ToTruncate
    BY <1>1, <1>3 DEF Last
  <2> QED BY <2>1, Fields DEF ItemOK, Written, AtMostOne
<1>4. CASE i = 2
  <2>1. /\ Last(i)' <=> FALSE
        /\ todo'[i] = ToTruncate /\ todo'[i + 1] = ToSave(reg)
    BY <1>1, <1>4 DEF Last
  <2> QED BY <2>1, Fields DEF ItemOK, Written, AtMostOne
<1>5. CASE i = 3
  <2>1. /\ Last(i)' <=> FALSE
        /\ todo'[i] = ToSave(reg) /\ todo'[i + 1] = s
    BY <1>1, <1>5 DEF Last
  <2> QED BY <2>1, Fields DEF ItemOK, Written, Writable, ShownAfter
<1>6. CASE i = 4
  <2>1. /\ Last(i)' <=> TRUE
        /\ todo'[i] = s
    BY <1>1, <1>6 DEF Last
  <2> QED BY <2>1, Fields DEF ItemOK, Written, AtMostOne
<1> QED BY <1>2, <1>3, <1>4, <1>5, <1>6

LEMMA SaveEnableShow ==
  ASSUME NEW p \in Prompts, NEW reg \in Registries, NEW s \in Items, s.do = "show", s.reg.enabled = {p},
         todo' = <<ToTruncate, ToSave(reg), ToEnable(p), s>>, open', Writable(reg, shown.enabled)',
         replaced' = 0
  PROVE  TodoOK'
<1>1. Len(todo') = 4 /\ todo'[1] = ToTruncate /\ todo'[2] = ToSave(reg) /\ todo'[3] = ToEnable(p) /\ todo'[4] = s
  OBVIOUS
<1> SUFFICES ASSUME NEW i \in 1..Len(todo') PROVE ItemOK(i)' /\ Written(i)'
  BY DEF TodoOK
<1>2. i = 1 \/ i = 2 \/ i = 3 \/ i = 4
  BY <1>1
<1>3. CASE i = 1
  <2>1. /\ Last(i)' <=> FALSE
        /\ todo'[i] = ToTruncate /\ todo'[i + 1] = ToSave(reg)
    BY <1>1, <1>3 DEF Last
  <2> QED BY <2>1, Fields DEF ItemOK, Written, AtMostOne
<1>4. CASE i = 2
  <2>1. /\ Last(i)' <=> FALSE
        /\ todo'[i] = ToSave(reg) /\ todo'[i + 1] = ToEnable(p)
    BY <1>1, <1>4 DEF Last
  <2> QED BY <2>1, Fields DEF ItemOK, Written, Writable, ShownAfter
<1>5. CASE i = 3
  <2>1. /\ Last(i)' <=> FALSE
        /\ todo'[i] = ToEnable(p) /\ todo'[i + 1] = s
    BY <1>1, <1>5 DEF Last
  <2> QED BY <2>1, Fields DEF ItemOK, Written, AtMostOne
<1>6. CASE i = 4
  <2>1. /\ Last(i)' <=> TRUE
        /\ todo'[i] = s
    BY <1>1, <1>6 DEF Last
  <2> QED BY <2>1, Fields DEF ItemOK, Written, AtMostOne
<1> QED BY <1>2, <1>3, <1>4, <1>5, <1>6

LEMMA SaveWriteMark ==
  ASSUME NEW text \in Texts, NEW reg \in Registries,
         todo' = <<ToTruncate, ToSave(reg), ToWrite(text), ToMark>>, ~open', Writable(reg, {})'
  PROVE  TodoOK'
<1>1. Len(todo') = 4 /\ todo'[1] = ToTruncate /\ todo'[2] = ToSave(reg) /\ todo'[3] = ToWrite(text) /\ todo'[4] = ToMark
  OBVIOUS
<1> SUFFICES ASSUME NEW i \in 1..Len(todo') PROVE ItemOK(i)' /\ Written(i)'
  BY DEF TodoOK
<1>2. i = 1 \/ i = 2 \/ i = 3 \/ i = 4
  BY <1>1
<1>3. CASE i = 1
  <2>1. /\ Last(i)' <=> FALSE
        /\ todo'[i] = ToTruncate /\ todo'[i + 1] = ToSave(reg)
    BY <1>1, <1>3 DEF Last
  <2> QED BY <2>1, Fields DEF ItemOK, Written, AtMostOne
<1>4. CASE i = 2
  <2>1. /\ Last(i)' <=> FALSE
        /\ todo'[i] = ToSave(reg) /\ todo'[i + 1] = ToWrite(text)
    BY <1>1, <1>4 DEF Last
  <2> QED BY <2>1, Fields DEF ItemOK, Written, Writable, ShownAfter
<1>5. CASE i = 3
  <2>1. /\ Last(i)' <=> FALSE
        /\ todo'[i] = ToWrite(text) /\ todo'[i + 1] = ToMark
    BY <1>1, <1>5 DEF Last
  <2> QED BY <2>1, Fields DEF ItemOK, Written, AtMostOne
<1>6. CASE i = 4
  <2>1. /\ Last(i)' <=> TRUE
        /\ todo'[i] = ToMark
    BY <1>1, <1>6 DEF Last
  <2> QED BY <2>1, Fields DEF ItemOK, Written, AtMostOne
<1> QED BY <1>2, <1>3, <1>4, <1>5, <1>6

LEMMA NotEmpty == ASSUME NEW s, NEW j \in 1..Len(s) PROVE s # <<>>
OBVIOUS

LEMMA Moved ==
  ASSUME NEW j, NEW k, ItemOK(k), Written(k), todo'[j] = todo[k], Last(j)' <=> Last(k),
         ~Last(k) => todo'[j + 1] = todo[k + 1], UNCHANGED <<open, halts, replaced, shown>>
  PROVE  ItemOK(j)' /\ Written(j)'
<1>1. ItemOK(j)'
  BY DEF ItemOK
<1>2. ShownAfter(j)' = ShownAfter(k)
  BY DEF ShownAfter
<1>3. Written(j)'
  BY <1>2 DEF Written
<1> QED BY <1>1, <1>3

\* Doing the next item leaves the rest in order.
LEMMA TodoTail ==
  ASSUME TypeOK, TodoOK, todo # <<>>, todo' = Tail(todo), UNCHANGED <<open, halts, replaced>>,
         todo' # <<>> => shown' = shown
  PROVE  TodoOK'
<1>1. /\ Len(todo') = Len(todo) - 1
      /\ Len(todo) \in Nat /\ Len(todo) > 0
      /\ \A j \in 1..Len(todo') : todo'[j] = todo[j + 1]
  BY HeadTailProperties DEF TypeOK
<1> SUFFICES ASSUME NEW j \in 1..Len(todo') PROVE ItemOK(j)' /\ Written(j)'
  BY DEF TodoOK
<1>2. PICK k : k = j + 1
  OBVIOUS
<1>3. j \in Nat /\ k \in 1..Len(todo) /\ j \in 1..Len(todo') /\ todo'[j] = todo[k] /\ shown' = shown
  <2>1. j \in 1..Len(todo')
    OBVIOUS
  <2>2. todo' # <<>>
    BY <2>1, NotEmpty
  <2> QED BY <1>1, <1>2, <2>1, <2>2
<1>4. Last(j)' <=> Last(k)
  BY <1>1, <1>2, <1>3 DEF Last
<1>5. ASSUME ~Last(k) PROVE todo'[j + 1] = todo[k + 1]
  <2>1. PICK m : m = j + 1
    OBVIOUS
  <2>2. m \in 1..Len(todo') /\ m + 1 = k + 1
    <3>1. k # Len(todo)
      BY <1>5 DEF Last
    <3>2. PICK n, l : n = Len(todo') /\ l = Len(todo) /\ n = l - 1 /\ l \in Nat /\ j \in 1..n /\ k # l
      BY <1>1, <1>3, <3>1
    <3>3. m \in 1..n /\ m + 1 = k + 1
      BY <1>2, <2>1, <3>2
    <3> QED BY <3>2, <3>3
  <2>3. todo'[m] = todo[m + 1]
    BY <1>1, <2>2
  <2> QED BY <2>1, <2>2, <2>3
<1>6. ItemOK(k) /\ Written(k)
  BY <1>3 DEF TodoOK
<1>7. UNCHANGED <<open, halts, replaced, shown>>
  BY <1>3
<1> QED BY <1>3, <1>4, <1>5, <1>6, <1>7, Moved

-----------------------------------------------------------------------------
(* Every step keeps PromptsInv. *)

LEMMA LoadOK ==
  PromptsInv => /\ Load \in Registries
                /\ AtMostOne(Load.enabled)
                /\ \A p \in Prompts : Load.text[p] # 0
<1> SUFFICES ASSUME PromptsInv
             PROVE  /\ Load \in Registries
                    /\ AtMostOne(Load.enabled)
                    /\ \A p \in Prompts : Load.text[p] # 0
  OBVIOUS
<1>1. Load \in Registries
  BY LoadType DEF PromptsInv
<1>2. AtMostOne(Load.enabled)
  BY Fields DEF PromptsInv, OneInForce, Load
<1>3. \A p \in Prompts : Load.text[p] # 0
  <2>1. ASSUME NEW p \in Prompts PROVE Empty.text[p] # 0
    BY NoneAssumption DEF Empty
  <2> QED BY <2>1 DEF PromptsInv, NoPromptEmptied, Load
<1> QED BY <1>1, <1>2, <1>3

LEMMA PromptsInitially == Init => PromptsInv
<1> SUFFICES ASSUME Init PROVE PromptsInv
  OBVIOUS
<1>1. TypeOK
  <2>1. registry \in Registries /\ shown \in Registries /\ todo \in Seq(Items)
    BY EmptyType DEF Init
  <2>2. agents \in Texts /\ replaced \in Texts /\ texts \in 0..MaxTexts
    BY BoundsAssumption DEF Init, Texts
  <2>3. agentWrites \in 0..MaxAgent /\ halts \in 0..MaxHalts
    BY BoundsAssumption DEF Init
  <2> QED BY <2>1, <2>2, <2>3 DEF Init, TypeOK
<1>2. OneInForce /\ NoPromptEmptied
  BY Fields, NoneAssumption DEF Init, OneInForce, NoPromptEmptied, Empty
<1>3. TodoOK /\ TornOK /\ PageOK /\ KeptOK
  BY DEF Init, TodoOK, TornOK, PageOK, KeptOK
<1> QED BY <1>1, <1>2, <1>3 DEF PromptsInv

\* An operation begins with what it has put in order.
LEMMA Started ==
  ASSUME PromptsInv, todo = <<>>,
         NEW items \in Seq(Items), todo' = items, items # <<>>, Head(items).do # "show",
         texts' \in Texts, replaced' \in Texts, UNCHANGED <<disk, open, shown, agentWrites, halts>>,
         TodoOK', replaced' = 0 \/ Saving'
  PROVE  PromptsInv'
<1>1. TypeOK'
  BY DEF PromptsInv, TypeOK, disk, Texts
<1>2. OneInForce' /\ NoPromptEmptied'
  BY DEF PromptsInv, OneInForce, NoPromptEmptied, disk
<1>3. TornOK'
  BY DEF PromptsInv, TornOK, disk
<1>4. Target = shown.enabled /\ Target' = shown'.enabled
  BY DEF Target, Showing
<1>5. PageOK'
  BY <1>4 DEF PromptsInv, PageOK, Load, disk
<1>6. KeptOK'
  BY DEF KeptOK
<1> QED BY <1>1, <1>2, <1>3, <1>5, <1>6 DEF PromptsInv

LEMMA LoadAllKeeps == PromptsInv /\ LoadAll => PromptsInv'
<1> SUFFICES ASSUME PromptsInv, LoadAll PROVE PromptsInv'
  OBVIOUS
<1>1. /\ todo = <<>> /\ todo' = <<>> /\ shown' = Load /\ open' = TRUE
      /\ UNCHANGED <<disk, counters, replaced>>
  BY DEF LoadAll
<1>2. TypeOK'
  BY <1>1, LoadOK DEF PromptsInv, TypeOK, disk, counters
<1>3. OneInForce' /\ NoPromptEmptied'
  BY <1>1, LoadOK DEF PromptsInv, OneInForce, NoPromptEmptied, disk
<1>4. TodoOK' /\ KeptOK'
  BY <1>1 DEF TodoOK, KeptOK
<1>5. TornOK'
  BY <1>1 DEF PromptsInv, TornOK, disk, counters
<1>6. PageOK'
  BY <1>1 DEF PageOK, Target, Showing, Load, disk
<1> QED BY <1>2, <1>3, <1>4, <1>5, <1>6 DEF PromptsInv

LEMMA AgentWritesKeeps == PromptsInv /\ AgentWrites => PromptsInv'
<1> SUFFICES ASSUME PromptsInv, AgentWrites PROVE PromptsInv'
  OBVIOUS
<1>1. UNCHANGED <<registry, torn, marker, shown, open, todo, halts, replaced>>
  BY DEF AgentWrites
<1>2. TypeOK'
  BY <1>1, BoundsAssumption DEF PromptsInv, TypeOK, AgentWrites, Texts
<1>3. OneInForce' /\ NoPromptEmptied' /\ TornOK'
  BY <1>1 DEF PromptsInv, OneInForce, NoPromptEmptied, TornOK
<1>4. TodoOK'
  BY <1>1 DEF PromptsInv, TodoOK, ItemOK, Written, ShownAfter, Last
<1>5. PageOK'
  BY <1>1 DEF PromptsInv, PageOK, Target, Showing, Load
<1>6. KeptOK'
  BY <1>1 DEF PromptsInv, KeptOK, Saving, Load
<1> QED BY <1>2, <1>3, <1>4, <1>5, <1>6 DEF PromptsInv

LEMMA WriteFailsKeeps == PromptsInv /\ WriteFails => PromptsInv'
<1> SUFFICES ASSUME PromptsInv, WriteFails PROVE PromptsInv'
  OBVIOUS
<1>1. /\ Head(todo).do # "show" /\ todo' = <<>> /\ halts' = halts + 1 /\ halts < MaxHalts
      /\ UNCHANGED <<disk, shown, open, texts, agentWrites, replaced>>
  BY DEF WriteFails
<1>2. TypeOK' /\ halts' # 0
  BY <1>1, BoundsAssumption DEF PromptsInv, TypeOK, disk
<1>3. OneInForce' /\ NoPromptEmptied'
  BY <1>1 DEF PromptsInv, OneInForce, NoPromptEmptied, disk
<1>4. TodoOK' /\ TornOK' /\ KeptOK'
  BY <1>1, <1>2 DEF TodoOK, TornOK, KeptOK
<1>5. PageOK'
  BY <1>1, <1>2 DEF PromptsInv, PageOK, Target, Showing, Load, disk
<1> QED BY <1>2, <1>3, <1>4, <1>5 DEF PromptsInv

LEMMA RestartKeeps == PromptsInv /\ Restart => PromptsInv'
<1> SUFFICES ASSUME PromptsInv, Restart PROVE PromptsInv'
  OBVIOUS
<1>1. /\ todo' = <<>> /\ halts' = halts + 1 /\ halts < MaxHalts /\ shown' = Empty /\ open' = FALSE
      /\ UNCHANGED <<disk, texts, agentWrites, replaced>>
  BY DEF Restart
<1>2. TypeOK' /\ halts' # 0
  <2>1. shown' \in Registries /\ todo' \in Seq(Items)
    BY <1>1, EmptyType
  <2>2. halts' \in 0..MaxHalts /\ halts' # 0
    BY <1>1, BoundsAssumption DEF PromptsInv, TypeOK
  <2> QED BY <1>1, <2>1, <2>2 DEF PromptsInv, TypeOK, disk
<1>3. OneInForce' /\ NoPromptEmptied'
  BY <1>1, Fields DEF PromptsInv, OneInForce, NoPromptEmptied, disk
<1>4. TodoOK' /\ TornOK' /\ KeptOK' /\ PageOK'
  BY <1>1, <1>2 DEF TodoOK, TornOK, KeptOK, PageOK
<1> QED BY <1>2, <1>3, <1>4 DEF PromptsInv

LEMMA EnableKeeps == ASSUME PromptsInv, NEW p \in Prompts, Enable(p) PROVE PromptsInv'
<1>1. PICK page \in Registries : page = [shown EXCEPT !.enabled = {p}] /\ page.enabled = {p}
  BY FlagsType DEF PromptsInv, TypeOK
<1>2. PICK items : items = <<ToEnable(p), ToShow(page)>>
  OBVIOUS
<1>3. /\ items \in Seq(Items) /\ items # <<>> /\ Head(items) = ToEnable(p)
      /\ ToShow(page) \in Items /\ CallEnable(p) \o Show(page) = items
  BY <1>2, Programs, BoundsAssumption DEF Texts
<1>4. /\ todo = <<>> /\ todo' = items /\ texts' = texts /\ replaced' = 0
      /\ UNCHANGED <<disk, open, shown, agentWrites, halts>> /\ open
  BY <1>1, <1>3 DEF Enable, Begin
<1>5. TodoOK'
  <2>1. ToShow(page).do = "show" /\ ToShow(page).reg.enabled = {p}
    BY <1>1, Fields
  <2>2. todo' = <<ToEnable(p), ToShow(page)>> /\ open' /\ replaced' = 0
    BY <1>2, <1>4
  <2> QED BY <1>3, <2>1, <2>2, EnableShow
<1>6. texts' \in Texts /\ replaced' \in Texts
  BY <1>4, BoundsAssumption DEF PromptsInv, TypeOK, Texts
<1> QED BY <1>3, <1>4, <1>5, <1>6, Fields, Started

\* The page agrees with the registry when an operation begins.
LEMMA PageBefore ==
  ASSUME PromptsInv, todo = <<>>, open
  PROVE  /\ Load.enabled \subseteq shown.enabled
         /\ halts = 0 => Load.enabled = shown.enabled
BY DEF PromptsInv, PageOK, TornOK, Target, Showing

LEMMA DisableAllKeeps == PromptsInv /\ DisableAll => PromptsInv'
<1> SUFFICES ASSUME PromptsInv, DisableAll PROVE PromptsInv'
  OBVIOUS
<1>1. /\ Load \in Registries /\ agents \in Texts /\ shown \in Registries /\ 0 \in Texts
      /\ \A p \in Prompts : Load.text[p] # 0
  BY LoadOK, BoundsAssumption DEF PromptsInv, TypeOK, Texts
<1>2. PICK back \in Registries : /\ back = WrittenBack(Load) /\ back.enabled = Load.enabled
                                /\ \A p \in Prompts : /\ back.text[p] # 0
                                                      /\ agents # 0 /\ p \in Load.enabled => back.text[p] = agents
  BY <1>1, WrittenBackType
<1>3. PICK reg \in Registries : /\ reg = [WrittenBack(Load) EXCEPT !.enabled = {}]
                               /\ reg.enabled = {} /\ reg.text = back.text
  <2>1. /\ [back EXCEPT !.enabled = {}] \in Registries /\ [back EXCEPT !.enabled = {}].enabled = {}
        /\ [back EXCEPT !.enabled = {}].text = back.text
    BY FlagsType
  <2> QED BY <1>2, <2>1
<1>4. PICK page \in Registries : page = [shown EXCEPT !.enabled = {}] /\ page.enabled = {}
  <2>1. [shown EXCEPT !.enabled = {}] \in Registries /\ [shown EXCEPT !.enabled = {}].enabled = {}
    BY <1>1, FlagsType
  <2> QED BY <2>1
<1>5. PICK items : items = <<ToWrite(0), ToTruncate, ToSave(reg), ToShow(page)>>
  OBVIOUS
<1>6. PICK p0 \in Prompts : TRUE
  BY <1>1 DEF DisableAll, Registries
<1>7. /\ items \in Seq(Items) /\ items # <<>> /\ Head(items) = ToWrite(0)
      /\ Len(items) = 4 /\ items[3] = ToSave(reg)
      /\ ToShow(page) \in Items /\ WriteAgents(0) \o Save(reg) \o Show(page) = items
  BY <1>1, <1>5, <1>6, Programs
<1>8. /\ todo = <<>> /\ todo' = items /\ texts' = texts /\ replaced' = agents
      /\ UNCHANGED <<disk, open, shown, agentWrites, halts>> /\ open /\ shown.enabled # {}
  BY <1>3, <1>4, <1>7 DEF DisableAll, counters
<1>9. Writable(reg, {})'
  <2>1. \A p \in Prompts : reg.text[p] # 0
    BY <1>2, <1>3
  <2>2. ASSUME halts = 0, agents # 0 PROVE \E p \in Prompts : reg.text[p] = agents
    <3>1. PICK p \in Prompts : p \in Load.enabled
      BY <1>1, <1>8, <2>2, PageBefore DEF Registries
    <3> QED BY <1>2, <1>3, <2>2, <3>1
  <2> QED BY <1>3, <1>8, <2>1, <2>2 DEF Writable, AtMostOne
<1>10. TodoOK'
  <2>1. ToShow(page).do = "show" /\ ToShow(page).reg.enabled = {} /\ AtMostOne({})
    BY <1>4, Fields DEF AtMostOne
  <2>2. todo' = <<ToWrite(0), ToTruncate, ToSave(reg), ToShow(page)>> /\ open'
    BY <1>5, <1>8
  <2> QED BY <1>1, <1>7, <1>9, <2>1, <2>2, WriteSaveShow
<1>11. Saving' /\ texts' \in Texts /\ replaced' \in Texts
  BY <1>1, <1>7, <1>8, Fields, SMTT(30) DEF PromptsInv, TypeOK, Texts, Saving
<1> QED BY <1>7, <1>8, <1>10, <1>11, Fields, Started

LEMMA DeletePromptKeeps == ASSUME PromptsInv, NEW p \in Prompts, DeletePrompt(p) PROVE PromptsInv'
<1>1. /\ Load \in Registries /\ shown \in Registries /\ 0 \in Texts
      /\ AtMostOne(Load.enabled) /\ AtMostOne(shown.enabled)
      /\ \A q \in Prompts : Load.text[q] # 0
  BY LoadOK, BoundsAssumption DEF PromptsInv, TypeOK, OneInForce, Texts
<1>2. PICK reg \in Registries : /\ reg = With(Load, p, None) /\ reg.enabled = Load.enabled
                               /\ reg.text[p] = None
                               /\ \A q \in Prompts \ {p} : reg.text[q] = Load.text[q]
  <2>1. /\ With(Load, p, None) \in Registries /\ With(Load, p, None).enabled = Load.enabled
        /\ With(Load, p, None).text[p] = None
        /\ \A q \in Prompts \ {p} : With(Load, p, None).text[q] = Load.text[q]
    BY <1>1, WithType
  <2> QED BY <2>1
<1>3. PICK page \in Registries : /\ page = [With(shown, p, None) EXCEPT !.enabled = @ \ {p}]
                                /\ page.enabled = shown.enabled \ {p}
  <2>1. PICK with \in Registries : with = With(shown, p, None) /\ with.enabled = shown.enabled
    BY <1>1, WithType
  <2>2. shown.enabled \ {p} \in SUBSET Prompts
    BY <1>1 DEF Registries
  <2>3. /\ [with EXCEPT !.enabled = shown.enabled \ {p}] \in Registries
        /\ [with EXCEPT !.enabled = shown.enabled \ {p}].enabled = shown.enabled \ {p}
    BY <2>2, FlagsType
  <2> QED BY <2>1, <2>3
<1>4. PICK items : items = <<ToTruncate, ToSave(reg), ToShow(page)>>
  OBVIOUS
<1>5. /\ items \in Seq(Items) /\ items # <<>> /\ Head(items) = ToTruncate
      /\ ToShow(page) \in Items /\ Save(reg) \o Show(page) = items
  BY <1>1, <1>4, Programs
<1>6. /\ todo = <<>> /\ todo' = items /\ texts' = texts /\ replaced' = 0
      /\ UNCHANGED <<disk, open, shown, agentWrites, halts>> /\ open /\ p \notin Load.enabled
  BY <1>2, <1>3, <1>5 DEF DeletePrompt, Begin
<1>7. Writable(reg, page.enabled)'
  <2>1. \A q \in Prompts : reg.text[q] # 0
    <3>1. None # 0
      BY NoneAssumption
    <3> QED BY <1>1, <1>2, <3>1
  <2>2. /\ reg.enabled \subseteq page.enabled
        /\ halts = 0 => reg.enabled = page.enabled
    BY <1>2, <1>3, <1>6, PageBefore
  <2> QED BY <1>1, <1>2, <1>6, <2>1, <2>2 DEF Writable, AtMostOne
<1>8. AtMostOne(page.enabled)
  BY <1>1, <1>3 DEF AtMostOne
<1>9. TodoOK'
  <2>1. ToShow(page).do = "show" /\ ToShow(page).reg.enabled = page.enabled
    BY Fields
  <2>2. todo' = <<ToTruncate, ToSave(reg), ToShow(page)>> /\ open'
    BY <1>4, <1>6
  <2> QED BY <1>5, <1>7, <1>8, <2>1, <2>2, SaveShow
<1>10. texts' \in Texts /\ replaced' \in Texts
  BY <1>1, <1>6 DEF PromptsInv, TypeOK, Texts
<1> QED BY <1>5, <1>6, <1>9, <1>10, Fields, Started

LEMMA SavePromptKeeps == ASSUME PromptsInv, NEW p \in Prompts, SavePrompt(p) PROVE PromptsInv'
<1> DEFINE inForce == p \in shown.enabled
           flags == IF inForce THEN Load.enabled \cup {p} ELSE Load.enabled \ {p}
<1>1. /\ Load \in Registries /\ shown \in Registries /\ 0 \in Texts
      /\ texts + 1 \in Texts /\ texts + 1 # 0
      /\ AtMostOne(Load.enabled) /\ AtMostOne(shown.enabled)
      /\ \A q \in Prompts : Load.text[q] # 0
  BY LoadOK, BoundsAssumption DEF PromptsInv, TypeOK, OneInForce, Texts, SavePrompt
<1>2. PICK n \in Texts : n = texts + 1
  BY <1>1
<1>3. PICK with \in Registries : /\ with = With(Load, p, n) /\ with.enabled = Load.enabled /\ with.text[p] = n
                                /\ \A q \in Prompts \ {p} : with.text[q] = Load.text[q]
  <2>1. /\ With(Load, p, n) \in Registries /\ With(Load, p, n).enabled = Load.enabled
        /\ With(Load, p, n).text[p] = n
        /\ \A q \in Prompts \ {p} : With(Load, p, n).text[q] = Load.text[q]
    BY <1>1, WithType
  <2> QED BY <2>1
<1>4. PICK reg \in Registries : /\ reg = [with EXCEPT !.enabled = flags] /\ reg.enabled = flags
                               /\ reg.text = with.text
  <2>1. flags \in SUBSET Prompts
    BY <1>1 DEF Registries
  <2> HIDE DEF flags
  <2>2. /\ [with EXCEPT !.enabled = flags] \in Registries /\ [with EXCEPT !.enabled = flags].enabled = flags
        /\ [with EXCEPT !.enabled = flags].text = with.text
    BY <2>1, FlagsType
  <2> QED BY <2>2
<1>5. PICK page \in Registries : page = With(shown, p, n) /\ page.enabled = shown.enabled
  <2>1. With(shown, p, n) \in Registries /\ With(shown, p, n).enabled = shown.enabled
    BY <1>1, WithType
  <2> QED BY <2>1
<1>6. PICK enabling \in Registries : enabling = [page EXCEPT !.enabled = {p}] /\ enabling.enabled = {p}
  <2>1. [page EXCEPT !.enabled = {p}] \in Registries /\ [page EXCEPT !.enabled = {p}].enabled = {p}
    BY FlagsType
  <2> QED BY <2>1
<1>7. reg = [With(Load, p, n) EXCEPT !.enabled = IF inForce THEN @ \cup {p} ELSE @ \ {p}]
  BY <1>3, <1>4
<1>8. PICK items : items = IF inForce THEN <<ToTruncate, ToSave(reg), ToEnable(p), ToShow(enabling)>>
                           ELSE <<ToTruncate, ToSave(reg), ToShow(page)>>
  OBVIOUS
<1>9. /\ items \in Seq(Items) /\ items # <<>> /\ Head(items) = ToTruncate
      /\ ToShow(page) \in Items /\ ToShow(enabling) \in Items
      /\ Save(reg) \o (IF inForce THEN CallEnable(p) \o Show(enabling) ELSE Show(page)) = items
  <2>1. /\ Save(reg) \o Show(page) = <<ToTruncate, ToSave(reg), ToShow(page)>>
        /\ Save(reg) \o (CallEnable(p) \o Show(enabling))
             = <<ToTruncate, ToSave(reg), ToEnable(p), ToShow(enabling)>>
        /\ {ToTruncate, ToSave(reg), ToEnable(p), ToShow(enabling), ToShow(page)} \subseteq Items
    BY <1>1, Programs
  <2>2. CASE inForce
    BY <1>8, <2>1, <2>2
  <2>3. CASE ~inForce
    BY <1>8, <2>1, <2>3
  <2> QED BY <2>2, <2>3
<1>10. /\ todo = <<>> /\ todo' = items /\ texts' = n /\ replaced' = 0
       /\ UNCHANGED <<disk, open, shown, agentWrites, halts>> /\ open
  <2>1. Begin(Save(reg) \o (IF inForce THEN CallEnable(p) \o Show(enabling) ELSE Show(page)), n) /\ open
    BY <1>2, <1>5, <1>6, <1>7 DEF SavePrompt
  <2> QED BY <1>9, <2>1 DEF Begin
<1>11. Writable(reg, shown.enabled)'
  <2>1. \A q \in Prompts : reg.text[q] # 0
    BY <1>1, <1>2, <1>3, <1>4
  <2>2. /\ reg.enabled \subseteq shown.enabled
        /\ halts = 0 => reg.enabled = shown.enabled
    <3>1. Load.enabled \subseteq shown.enabled /\ (halts = 0 => Load.enabled = shown.enabled)
      BY <1>10, PageBefore
    <3> QED BY <1>4, <3>1
  <2> QED BY <1>1, <1>10, <2>1, <2>2 DEF Writable, AtMostOne
<1>12. TodoOK'
  <2>1. CASE inForce
    <3>1. ToShow(enabling).do = "show" /\ ToShow(enabling).reg.enabled = {p}
      BY <1>6, Fields
    <3>2. todo' = <<ToTruncate, ToSave(reg), ToEnable(p), ToShow(enabling)>> /\ open' /\ replaced' = 0
      BY <1>8, <1>10, <2>1
    <3> QED BY <1>9, <1>11, <3>1, <3>2, SaveEnableShow
  <2>2. CASE ~inForce
    <3>1. ToShow(page).do = "show" /\ ToShow(page).reg.enabled = page.enabled /\ AtMostOne(page.enabled)
      BY <1>1, <1>5, Fields
    <3>2. todo' = <<ToTruncate, ToSave(reg), ToShow(page)>> /\ open' /\ page.enabled = shown'.enabled
      BY <1>5, <1>8, <1>10, <2>2
    <3>3. Writable(reg, page.enabled)'
      BY <1>11, <3>2
    <3> QED BY <1>9, <3>1, <3>2, <3>3, SaveShow
  <2> QED BY <2>1, <2>2
<1>13. texts' \in Texts /\ replaced' \in Texts
  BY <1>1, <1>10
<1> HIDE DEF inForce
<1> QED BY <1>9, <1>10, <1>12, <1>13, Fields, Started

LEMMA AutoImportKeeps == ASSUME PromptsInv, NEW p \in Prompts, AutoImport(p) PROVE PromptsInv'
<1>1. /\ ~open /\ 0 \in Texts /\ texts \in Texts
      /\ ToMark \in Items
  BY BoundsAssumption, Programs, EmptyType DEF AutoImport, PromptsInv, TypeOK, Texts
<1>2. CASE \E q \in Prompts : Has(Load, q)
  <2>1. /\ todo = <<>> /\ todo' = <<ToMark>> /\ texts' = texts /\ replaced' = 0
        /\ UNCHANGED <<disk, open, shown, agentWrites, halts>>
    BY <1>2 DEF AutoImport, Begin, WriteMarker, ToMark
  <2>2. TodoOK'
    <3> SUFFICES ASSUME NEW i \in 1..Len(todo') PROVE ItemOK(i)' /\ Written(i)'
      BY DEF TodoOK
    <3>1. i = 1 /\ todo'[i] = ToMark /\ Last(i)'
      BY <2>1 DEF Last
    <3> QED BY <3>1, Fields DEF ItemOK, Written
  <2>3. PICK items : items = <<ToMark>>
    OBVIOUS
  <2>4. items \in Seq(Items) /\ items # <<>> /\ Head(items) = ToMark
    BY <1>1, <2>3
  <2> QED BY <1>1, <2>1, <2>2, <2>3, <2>4, Fields, Started
<1>3. CASE ~ \E q \in Prompts : Has(Load, q)
  <2>1. PICK n \in Texts : n = texts + 1 /\ n # 0
    BY <1>1, <1>3, BoundsAssumption DEF AutoImport, Texts
  <2>2. PICK with \in Registries : /\ with = With(Empty, p, n) /\ with.text[p] = n
                                  /\ \A q \in Prompts \ {p} : with.text[q] = Empty.text[q]
    <3>1. /\ With(Empty, p, n) \in Registries /\ With(Empty, p, n).text[p] = n
          /\ \A q \in Prompts \ {p} : With(Empty, p, n).text[q] = Empty.text[q]
      BY EmptyType, WithType
    <3> QED BY <3>1
  <2>3. PICK reg \in Registries : /\ reg = [with EXCEPT !.enabled = {p}] /\ reg.enabled = {p}
                                 /\ reg.text = with.text
    <3>1. /\ [with EXCEPT !.enabled = {p}] \in Registries /\ [with EXCEPT !.enabled = {p}].enabled = {p}
          /\ [with EXCEPT !.enabled = {p}].text = with.text
      BY FlagsType
    <3> QED BY <3>1
  <2>4. PICK items : items = <<ToTruncate, ToSave(reg), ToWrite(n), ToMark>>
    OBVIOUS
  <2>5. /\ items \in Seq(Items) /\ items # <<>> /\ Head(items) = ToTruncate
        /\ Save(reg) \o WriteAgents(n) \o WriteMarker = items
    BY <2>4, Programs
  <2>6. /\ todo = <<>> /\ todo' = items /\ texts' = n /\ replaced' = 0
        /\ UNCHANGED <<disk, open, shown, agentWrites, halts>>
    BY <1>3, <2>1, <2>2, <2>3, <2>5 DEF AutoImport, Begin
  <2>7. Writable(reg, {})'
    <3>1. \A q \in Prompts : reg.text[q] # 0
      <4>1. ASSUME NEW q \in Prompts PROVE Empty.text[q] # 0
        BY NoneAssumption DEF Empty
      <4> QED BY <2>1, <2>2, <2>3, <4>1
    <3> QED BY <1>1, <2>3, <2>6, <3>1 DEF Writable, AtMostOne
  <2>8. TodoOK'
    BY <1>1, <2>4, <2>6, <2>7, SaveWriteMark
  <2> QED BY <1>1, <2>5, <2>6, <2>8, Fields, Started
<1> QED BY <1>2, <1>3

LEMMA OperationKeeps == ASSUME PromptsInv, NEW p \in Prompts, Operation(p) PROVE PromptsInv'
BY EnableKeeps, SavePromptKeeps, DeletePromptKeeps, AutoImportKeeps DEF Operation

\* An enable is followed by the page's update, and by nothing else.
LEMMA EnableAtEnd ==
  ASSUME PromptsInv, Do("enable")
  PROVE  /\ Head(todo).id \in Prompts
         /\ open
         /\ replaced = 0
         /\ ~Saving
         /\ \E s \in Items : /\ s.do = "show"
                             /\ s.reg.enabled = {Head(todo).id}
                             /\ Tail(todo) = <<s>>
<1>1. todo \in Seq(Items) /\ todo # <<>> /\ Head(todo) = todo[1] /\ todo[1].do = "enable"
      /\ Len(todo) \in Nat /\ Len(todo) > 0
  BY HeadTailProperties DEF Do, PromptsInv, TypeOK
<1>2. ItemOK(1)
  BY <1>1 DEF PromptsInv, TodoOK
<1>3. /\ Len(todo) # 1 /\ todo[2].do = "show" /\ todo[1].id \in Prompts /\ open
      /\ todo[2].reg.enabled = {todo[1].id} /\ replaced = 0
  BY <1>1, <1>2 DEF ItemOK, Last
<1>4. Len(todo) = 2
  <2>1. PICK n \in Nat : n = Len(todo) /\ n > 0 /\ n # 1
    BY <1>1, <1>3
  <2>2. 2 \in 1..n
    BY <2>1
  <2>3. ItemOK(2)
    BY <2>1, <2>2 DEF PromptsInv, TodoOK
  <2> QED BY <1>3, <2>3 DEF ItemOK, Last
<1>5. PICK s \in Items : s = todo[2]
  <2>1. todo[2] \in Items
    BY <1>1, <1>4, ElementOfSeq
  <2> QED BY <2>1
<1>6. Tail(todo) = <<s>>
  <2>1. Tail(todo) \in Seq(Items) /\ Len(Tail(todo)) = 1 /\ Tail(todo)[1] = s
    BY <1>1, <1>4, <1>5, HeadTailProperties
  <2> DEFINE t == Tail(todo)
             u == <<s>>
  <2>2. u \in Seq(Items) /\ Len(u) = 1 /\ u[1] = s
    OBVIOUS
  <2> HIDE DEF t, u
  <2>3. \A i \in 1..Len(t) : t[i] = u[i]
    <3> SUFFICES ASSUME NEW i \in 1..Len(t) PROVE t[i] = u[i]
      OBVIOUS
    <3>1. i \in 1..1
      BY <2>1 DEF t
    <3>2. i = 1
      BY <3>1
    <3> QED BY <2>1, <2>2, <3>2 DEF t
  <2>4. t = u
    BY <2>1, <2>2, <2>3, SeqEqual DEF t
  <2> QED BY <2>4 DEF t, u
<1>7. ~Saving
  <2> SUFFICES ASSUME NEW i \in 1..Len(todo), todo[i].do = "registry" PROVE FALSE
    BY DEF Saving
  <2>1. i = 1 \/ i = 2
    BY <1>4
  <2> QED BY <1>1, <1>3, <2>1
<1> QED BY <1>1, <1>3, <1>5, <1>6, <1>7

LEMMA RunEnableKeeps == PromptsInv /\ RunEnable => PromptsInv'
<1> SUFFICES ASSUME PromptsInv, RunEnable PROVE PromptsInv'
  OBVIOUS
<1>1. /\ Do("enable") /\ UNCHANGED <<disk, shown, open, counters>>
      /\ replaced' = IF Head(todo).id \in Load.enabled THEN 0 ELSE agents
  BY DEF RunEnable
<1>2. PICK p \in Prompts : p = Head(todo).id
  BY <1>1, EnableAtEnd
<1>3. PICK s \in Items : s.do = "show" /\ s.reg.enabled = {p} /\ Tail(todo) = <<s>>
  BY <1>1, <1>2, EnableAtEnd
<1>4. /\ Load \in Registries /\ AtMostOne(Load.enabled) /\ \A q \in Prompts : Load.text[q] # 0
      /\ agents \in Texts /\ 0 \in Texts /\ open
      /\ replaced' \in Texts
  BY <1>1, LoadOK, EnableAtEnd, BoundsAssumption DEF PromptsInv, TypeOK, Texts
<1>5. halts = 0 => ~torn
  BY <1>1 DEF PromptsInv, TornOK, Do
<1>6. Load.enabled \subseteq shown.enabled /\ (halts = 0 => Load.enabled = shown.enabled)
  BY <1>1, <1>4, <1>5 DEF PromptsInv, PageOK, Target, Showing, Do
<1>7. OneInForce' /\ NoPromptEmptied' /\ Load' = Load
  BY <1>1 DEF PromptsInv, OneInForce, NoPromptEmptied, disk, Load
<1>8. TornOK' /\ UNCHANGED <<halts, open, shown>>
  BY <1>1, <1>5 DEF TornOK, disk, counters
<1>9. ASSUME todo' \in Seq(Items) PROVE TypeOK'
  BY <1>1, <1>4, <1>9 DEF PromptsInv, TypeOK, disk, counters
<1>10. CASE p \notin Prompts \/ ~Has(Load, p)
  <2>1. todo' = <<>>
    BY <1>2, <1>10 DEF RunEnable
  <2>2. TodoOK' /\ KeptOK' /\ todo' \in Seq(Items)
    BY <2>1 DEF TodoOK, KeptOK
  <2>3. PageOK'
    BY <1>6, <1>7, <1>8, <2>1 DEF PageOK, Target, Showing
  <2> QED BY <1>7, <1>8, <1>9, <2>2, <2>3 DEF PromptsInv
<1>11. CASE Has(Load, p) /\ p \in Load.enabled
  <2>1. todo' = <<s>> /\ replaced' = 0
    <3>1. todo' = <<>> \o Tail(todo)
      BY <1>2, <1>11 DEF RunEnable, EnableWrites
    <3>2. <<>> \o <<s>> = <<s>>
      OBVIOUS
    <3> QED BY <1>1, <1>2, <1>3, <1>11, <3>1, <3>2
  <2>2. Len(todo') = 1 /\ todo'[1] = s /\ Head(todo') = s /\ todo' # <<>> /\ todo' \in Seq(Items)
    BY <2>1
  <2>3. TodoOK'
    <3> SUFFICES ASSUME NEW i \in 1..Len(todo') PROVE ItemOK(i)' /\ Written(i)'
      BY DEF TodoOK
    <3>1. todo'[i] = s /\ Last(i)'
      BY <2>2 DEF Last
    <3> QED BY <1>3, <1>4, <1>8, <3>1 DEF ItemOK, Written, AtMostOne
  <2>4. KeptOK'
    BY <2>1 DEF KeptOK
  <2>5. Target' = {p}
    BY <1>3, <2>2 DEF Target, Showing
  <2>6. Load.enabled = {p}
    BY <1>4, <1>11 DEF AtMostOne
  <2>7. PageOK'
    BY <1>7, <2>5, <2>6 DEF PageOK
  <2> QED BY <1>7, <1>8, <1>9, <2>2, <2>3, <2>4, <2>7 DEF PromptsInv
<1>12. CASE Has(Load, p) /\ p \notin Load.enabled
  <2>1. PICK kept \in BackedUp(Load) :
          todo' = (WriteAgents(kept.text[p]) \o Save([kept EXCEPT !.enabled = {p}])) \o Tail(todo)
    BY <1>2, <1>12 DEF RunEnable, EnableWrites
  <2>2. /\ kept \in Registries /\ kept.text[p] \in Texts
        /\ \A q \in Prompts : kept.text[q] # 0
        /\ agents # 0 => \E q \in Prompts : kept.text[q] = agents
    BY <1>4, <1>12, BackedUpType
  <2>3. PICK reg \in Registries : /\ reg = [kept EXCEPT !.enabled = {p}] /\ reg.enabled = {p}
                                 /\ reg.text = kept.text
    <3>1. /\ [kept EXCEPT !.enabled = {p}] \in Registries /\ [kept EXCEPT !.enabled = {p}].enabled = {p}
          /\ [kept EXCEPT !.enabled = {p}].text = kept.text
      BY <2>2, FlagsType
    <3> QED BY <3>1
  <2>4. PICK text \in Texts : text = kept.text[p]
    BY <2>2
  <2>5. todo' = <<ToWrite(text), ToTruncate, ToSave(reg), s>> /\ todo' \in Seq(Items)
    <3>1. /\ WriteAgents(text) = <<ToWrite(text)>> /\ Save(reg) = <<ToTruncate, ToSave(reg)>>
          /\ ToWrite(text) \in Items /\ ToTruncate \in Items /\ ToSave(reg) \in Items
      BY Programs DEF WriteAgents, Save, ToWrite, ToTruncate, ToSave
    <3>2. todo' = (<<ToWrite(text)>> \o <<ToTruncate, ToSave(reg)>>) \o <<s>>
      BY <1>3, <2>1, <2>3, <2>4, <3>1
    <3>3. todo' = <<ToWrite(text), ToTruncate, ToSave(reg)>> \o <<s>>
      BY <3>2, Join3
    <3>4. todo' = <<ToWrite(text), ToTruncate, ToSave(reg), s>>
      BY <3>3, Join4
    <3> QED BY <3>1, <3>4
  <2>6. replaced' = agents
    BY <1>1, <1>2, <1>12
  <2>7. Writable(reg, s.reg.enabled)'
    BY <1>3, <2>2, <2>3, <2>6 DEF Writable, AtMostOne
  <2>8. TodoOK'
    BY <1>3, <1>4, <1>8, <2>5, <2>7, WriteSaveShow DEF AtMostOne
  <2>9. Len(todo') = 4 /\ todo'[3].do = "registry" /\ Head(todo').do = "agents"
    BY <2>5, Fields
  <2>10. KeptOK'
    BY <2>9 DEF KeptOK, Saving
  <2>11. PageOK'
    BY <1>6, <1>7, <1>8, <2>9 DEF PageOK, Target, Showing
  <2> QED BY <1>7, <1>8, <1>9, <2>5, <2>8, <2>10, <2>11 DEF PromptsInv
<1> QED BY <1>10, <1>11, <1>12

LEMMA NextItem ==
  ASSUME PromptsInv, todo # <<>>
  PROVE  /\ todo \in Seq(Items) /\ Head(todo) \in Items /\ Head(todo) = todo[1]
         /\ Tail(todo) \in Seq(Items) /\ Len(Tail(todo)) = Len(todo) - 1
         /\ Len(todo) \in Nat /\ 1 \in 1..Len(todo)
         /\ \A j \in 1..(Len(todo) - 1) : Tail(todo)[j] = todo[j + 1]
         /\ ItemOK(1) /\ Written(1)
<1>1. todo \in Seq(Items)
  BY DEF PromptsInv, TypeOK
<1>2. /\ Tail(todo) \in Seq(Items) /\ Len(Tail(todo)) = Len(todo) - 1 /\ Len(todo) \in Nat /\ 1 \in 1..Len(todo)
      /\ Head(todo) = todo[1] /\ Head(todo) \in Items
      /\ \A j \in 1..(Len(todo) - 1) : Tail(todo)[j] = todo[j + 1]
  BY <1>1, HeadTailProperties
<1> QED BY <1>1, <1>2 DEF PromptsInv, TodoOK

\* What comes next is item 2.
LEMMA NextHead ==
  ASSUME PromptsInv, todo # <<>>
  PROVE  /\ Last(1) => Tail(todo) = <<>>
         /\ ~Last(1) => Tail(todo) # <<>> /\ Head(Tail(todo)) = todo[2]
<1>1. PICK t \in Seq(Items), n \in Nat :
        /\ t = Tail(todo) /\ n = Len(todo) /\ Len(t) = n - 1 /\ n > 0
        /\ \A j \in 1..(n - 1) : t[j] = todo[j + 1]
  <2>1. /\ Tail(todo) \in Seq(Items) /\ Len(todo) \in Nat /\ Len(Tail(todo)) = Len(todo) - 1 /\ Len(todo) > 0
        /\ \A j \in 1..(Len(todo) - 1) : Tail(todo)[j] = todo[j + 1]
    BY NextItem
  <2> QED BY <2>1
<1>2. ASSUME Last(1) PROVE t = <<>>
  BY <1>1, <1>2, EmptySeq DEF Last
<1>3. ASSUME ~Last(1) PROVE t # <<>> /\ Head(t) = todo[2]
  <2>1. n - 1 > 0 /\ 1 \in 1..(n - 1)
    BY <1>1, <1>3 DEF Last
  <2>2. t # <<>>
    <3>1. 1 \in 1..Len(t)
      BY <1>1, <2>1
    <3> QED BY <3>1, NotEmpty
  <2>3. Head(t) = t[1] /\ t[1] = todo[1 + 1]
    BY <1>1, <2>1, <2>2, HeadTailProperties
  <2> QED BY <2>2, <2>3
<1> QED BY <1>1, <1>2, <1>3

\* Unless it is the registry that is written, a save still to come is still to come.
LEMMA StillSaving ==
  ASSUME PromptsInv, todo # <<>>, todo' = Tail(todo), Saving, todo[1].do # "registry"
  PROVE  Saving'
<1>1. PICK i \in 1..Len(todo) : todo[i].do = "registry"
  BY DEF Saving
<1>2. PICK n \in Nat : /\ n = Len(todo) /\ Len(Tail(todo)) = n - 1
                      /\ \A j \in 1..(n - 1) : Tail(todo)[j] = todo[j + 1]
  BY NextItem
<1>3. i # 1
  BY <1>1
<1>4. PICK j : j = i - 1
  OBVIOUS
<1>5. j \in 1..(n - 1) /\ j + 1 = i
  BY <1>1, <1>2, <1>3, <1>4
<1>6. Tail(todo)[j].do = "registry"
  BY <1>1, <1>2, <1>5
<1> QED BY <1>2, <1>5, <1>6 DEF Saving

LEMMA WriteKeeps == PromptsInv /\ Write => PromptsInv'
<1> SUFFICES ASSUME PromptsInv, Write PROVE PromptsInv'
  OBVIOUS
<1>1. /\ todo # <<>> /\ todo' = Tail(todo) /\ UNCHANGED <<open, halts, replaced, texts, agentWrites>>
      /\ Head(todo) = todo[1] /\ Head(todo) \in Items /\ todo' \in Seq(Items)
      /\ ItemOK(1) /\ Written(1)
  BY NextItem DEF Write, Do, counters
<1>2. /\ Last(1) => todo' = <<>>
      /\ ~Last(1) => todo' # <<>> /\ Head(todo') = todo[2]
  BY <1>1, NextHead
<1>3. /\ Head(todo).text \in Texts /\ Head(todo).reg \in Registries
      /\ AtMostOne(Head(todo).reg.enabled)
  BY <1>1 DEF Items, ItemOK
<1>4. TypeOK'
  BY <1>1, <1>3 DEF Write, PromptsInv, TypeOK, disk
<1>5. ASSUME todo' # <<>> PROVE shown' = shown
  BY <1>1, <1>2, <1>5 DEF Write, Do, ItemOK
<1>6. TodoOK'
  BY <1>1, <1>5, TodoTail DEF PromptsInv
<1>7. ASSUME halts = 0, torn PROVE Do("registry")
  BY <1>1, <1>7 DEF PromptsInv, TornOK, Do
<1>8. Saving /\ todo[1].do # "registry" => Saving'
  BY <1>1, StillSaving
<1>9. CASE Do("registry")
  <2>1. /\ registry' = todo[1].reg /\ torn' = FALSE /\ shown' = shown /\ todo[1].do = "registry"
    BY <1>1, <1>9 DEF Write, Do
  <2>2. OneInForce' /\ NoPromptEmptied'
    BY <1>1, <1>3, <2>1 DEF PromptsInv, OneInForce, NoPromptEmptied, Written
  <2>3. TornOK'
    BY <2>1 DEF TornOK
  <2>4. Load' = todo[1].reg
    BY <2>1 DEF Load
  <2>5. Target' = ShownAfter(1)
    BY <1>1, <1>2, <2>1 DEF Target, Showing, ShownAfter
  <2>6. PageOK'
    BY <1>1, <2>1, <2>4, <2>5 DEF PageOK, Written
  <2>7. KeptOK'
    BY <1>1, <2>1, <2>4 DEF KeptOK, Written
  <2> QED BY <1>4, <1>6, <2>2, <2>3, <2>6, <2>7 DEF PromptsInv
<1>10. CASE Do("truncate")
  <2>1. /\ torn' = TRUE /\ registry' = registry /\ shown' = shown /\ todo[1].do = "truncate"
    BY <1>1, <1>10 DEF Write, Do
  <2>2. todo' # <<>> /\ Head(todo').do = "registry"
    BY <1>1, <1>2, <2>1 DEF ItemOK
  <2>3. OneInForce' /\ NoPromptEmptied'
    BY <2>1 DEF PromptsInv, OneInForce, NoPromptEmptied
  <2>4. TornOK'
    BY <2>2 DEF TornOK
  <2>5. Load'.enabled = {}
    BY <2>1, Fields DEF Load, Empty
  <2>6. PageOK'
    BY <2>1, <2>5 DEF PageOK
  <2>7. todo'[1].do = "registry" /\ 1 \in 1..Len(todo')
    BY <1>1, <2>2, HeadTailProperties
  <2>8. KeptOK'
    BY <2>7 DEF KeptOK, Saving
  <2> QED BY <1>4, <1>6, <2>3, <2>4, <2>6, <2>8 DEF PromptsInv
<1>11. CASE Do("agents") \/ Do("marker") \/ Do("show")
  <2>1. /\ registry' = registry /\ torn' = torn /\ todo[1].do \in {"agents", "marker", "show"}
        /\ todo[1].do # "show" => shown' = shown
        /\ todo[1].do = "show" => shown' = todo[1].reg
    BY <1>1, <1>11 DEF Write, Do, disk
  <2>2. Load' = Load
    BY <2>1 DEF Load
  <2>3. OneInForce' /\ NoPromptEmptied'
    BY <1>1, <1>3, <2>1 DEF PromptsInv, OneInForce, NoPromptEmptied
  <2>4. ~Do("registry")
    BY <1>1, <2>1 DEF Do
  <2>5. TornOK'
    BY <1>1, <1>7, <2>1, <2>4 DEF TornOK
  <2>6. CASE todo[1].do = "show"
    <3>1. todo' = <<>>
      BY <1>1, <1>2, <2>6 DEF ItemOK
    <3>2. Target = todo[1].reg.enabled /\ Target' = todo[1].reg.enabled
      BY <1>1, <2>1, <2>6, <3>1 DEF Target, Showing
    <3>3. PageOK'
      BY <1>1, <2>1, <2>2, <3>2 DEF PromptsInv, PageOK
    <3>4. KeptOK'
      BY <3>1 DEF KeptOK
    <3> QED BY <1>4, <1>6, <2>3, <2>5, <3>3, <3>4 DEF PromptsInv
  <2>7. CASE todo[1].do # "show"
    <3>1. todo' = <<>> \/ Head(todo').do # "show"
      BY <1>1, <1>2, <2>1, <2>7 DEF ItemOK
    <3>2. Target = shown.enabled /\ Target' = shown.enabled
      BY <1>1, <2>1, <2>7, <3>1 DEF Target, Showing
    <3>3. PageOK'
      BY <1>1, <2>1, <2>2, <3>2 DEF PromptsInv, PageOK
    <3>4. KeptOK'
      BY <1>1, <1>8, <2>1, <2>2 DEF PromptsInv, KeptOK
    <3> QED BY <1>4, <1>6, <2>3, <2>5, <3>3, <3>4 DEF PromptsInv
  <2> QED BY <2>6, <2>7
<1> QED BY <1>9, <1>10, <1>11 DEF Write

LEMMA PromptsStep == PromptsInv /\ [Next]_vars => PromptsInv'
<1> SUFFICES ASSUME PromptsInv, [Next]_vars PROVE PromptsInv'
  OBVIOUS
<1>1. CASE LoadAll
  BY <1>1, LoadAllKeeps
<1>2. CASE DisableAll
  BY <1>2, DisableAllKeeps
<1>3. CASE \E p \in Prompts : Operation(p)
  BY <1>3, OperationKeeps
<1>4. CASE RunEnable
  BY <1>4, RunEnableKeeps
<1>5. CASE Write
  BY <1>5, WriteKeeps
<1>6. CASE AgentWrites
  BY <1>6, AgentWritesKeeps
<1>7. CASE WriteFails
  BY <1>7, WriteFailsKeeps
<1>8. CASE Restart
  BY <1>8, RestartKeeps
<1>9. CASE UNCHANGED vars
  <2>1. UNCHANGED <<registry, torn, agents, marker, shown, open, todo, texts, agentWrites, halts, replaced>>
    BY <1>9 DEF vars, disk, counters
  <2>2. TypeOK' /\ OneInForce' /\ NoPromptEmptied' /\ TornOK'
    BY <2>1 DEF PromptsInv, TypeOK, OneInForce, NoPromptEmptied, TornOK
  <2>3. TodoOK'
    BY <2>1 DEF PromptsInv, TodoOK, ItemOK, Written, ShownAfter, Last
  <2>4. PageOK' /\ KeptOK'
    BY <2>1 DEF PromptsInv, PageOK, KeptOK, Target, Showing, Load, Saving
  <2> QED BY <2>2, <2>3, <2>4 DEF PromptsInv
<1> QED BY <1>1, <1>2, <1>3, <1>4, <1>5, <1>6, <1>7, <1>8, <1>9 DEF Next

(***************************************************************************)
(* The invariant of the prompts files and of the page's operations         *)
(* (prompts_registry.rs, PromptsBackendService.ets, PromptsViewModel.ets). *)
(***************************************************************************)
THEOREM PromptsInvariant == Spec => []PromptsInv
BY PromptsInitially, PromptsStep, PTL DEF Spec

(***************************************************************************)
(* Files, page and program of the running operation keep their types, for  *)
(* any prompts, texts, agent's writes and failures.                        *)
(***************************************************************************)
THEOREM PromptsTypeCorrect == Spec => []TypeOK
BY PromptsInvariant, PTL DEF PromptsInv

(***************************************************************************)
(* At most one prompt is in force on disk and on the page, although a      *)
(* draft carries the page's copy of the flag (savePromptDraft).            *)
(***************************************************************************)
THEOREM PromptInForce == Spec => []OneInForce
BY PromptsInvariant, PTL DEF PromptsInv

(***************************************************************************)
(* Between two operations the page hides no prompt that is in force,       *)
(* whichever writes failed before (togglePromptEnabled, disableAll).       *)
(***************************************************************************)
THEOREM PageShowsPrompt == Spec => []PageAgrees
<1>1. PromptsInv => PageAgrees
  BY DEF PromptsInv, PageOK, PageAgrees, Target, Showing
<1> QED BY <1>1, PromptsInvariant, PTL

(***************************************************************************)
(* No prompt's text is ever replaced by an AGENTS.md that is empty         *)
(* (enable_prompt_with_agents_md, disable_all_with_agents_md).             *)
(***************************************************************************)
THEOREM PromptsKeepText == Spec => []NoPromptEmptied
BY PromptsInvariant, PTL DEF PromptsInv

(***************************************************************************)
(* What an enable or disable took out of AGENTS.md is, when it is over     *)
(* and nothing went wrong, in a prompt or still there.                     *)
(***************************************************************************)
THEOREM PromptIsKept == Spec => ReplacedIsKept
<1>1. ASSUME PromptsInv, [Next]_vars, todo # <<>>, todo' = <<>>, halts' = 0, replaced # 0
      PROVE  Kept(replaced)'
  <2>1. ~UNCHANGED todo /\ ~RunEnable /\ \A p \in Prompts : ~Operation(p)
    BY <1>1, EnableAtEnd DEF RunEnable, Operation, Enable, SavePrompt, DeletePrompt, AutoImport, Begin
  <2>2. ~LoadAll /\ ~DisableAll /\ ~AgentWrites
    BY <1>1 DEF LoadAll, DisableAll, AgentWrites
  <2>3. ~WriteFails /\ ~Restart
    BY <1>1, BoundsAssumption DEF WriteFails, Restart, PromptsInv, TypeOK
  <2>4. Write
    BY <1>1, <2>1, <2>2, <2>3 DEF Next, vars
  <2>5. /\ todo # <<>> /\ todo' = Tail(todo) /\ UNCHANGED <<halts, replaced>>
        /\ Head(todo) = todo[1] /\ ItemOK(1) /\ Written(1)
    BY <1>1, <2>4, NextItem DEF Write, counters
  <2>6. Last(1)
    BY <1>1, <2>5, NextHead
  <2>7. CASE Do("registry")
    <3>1. todo[1].do = "registry" /\ Load' = todo[1].reg
      BY <2>4, <2>5, <2>7 DEF Write, Do, Load
    <3> QED BY <1>1, <2>5, <3>1 DEF Written, Kept
  <2>8. CASE ~Do("registry")
    <3>1. Load' = Load /\ todo[1].do # "registry"
      BY <1>1, <2>4, <2>5, <2>6, <2>8 DEF Write, Do, ItemOK, Load, disk
    <3>2. ~Saving
      <4> SUFFICES ASSUME NEW i \in 1..Len(todo), todo[i].do = "registry" PROVE FALSE
        BY DEF Saving
      <4>1. i \in 1..1
        BY <2>6 DEF Last
      <4>2. i = 1
        BY <4>1
      <4> QED BY <3>1, <4>2
    <3> QED BY <1>1, <2>5, <3>1, <3>2 DEF PromptsInv, KeptOK, Kept
  <2> QED BY <2>7, <2>8
<1>2. PromptsInv /\ [Next]_vars =>
        [todo # <<>> /\ todo' = <<>> => halts' > 0 \/ replaced = 0 \/ Kept(replaced)']_vars
  <2> SUFFICES ASSUME PromptsInv, [Next]_vars, todo # <<>>, todo' = <<>>, ~(halts' > 0), replaced # 0
               PROVE  Kept(replaced)'
    OBVIOUS
  <2>1. halts' = 0
    BY PromptsStep, BoundsAssumption DEF PromptsInv, TypeOK
  <2> QED BY <1>1, <2>1
<1> QED BY <1>2, PromptsInvariant, PTL DEF Spec, ReplacedIsKept

-----------------------------------------------------------------------------
(* Sums over the threads *)

\* Induction over the numbers, with the set of those for which a claim holds.
LEMMA AllNumbers ==
  ASSUME NEW T, 0 \in T, \A n \in Nat : n \in T => n + 1 \in T
  PROVE  \A n \in Nat : n \in T
<1>. DEFINE R == {ss \in Nat \X Nat : ss[1] < ss[2]}
            Bad == Nat \ T
<1>1. SUFFICES ASSUME Bad # {} PROVE FALSE
  OBVIOUS
<1>2. IsWellFoundedOn(R, Nat)
  BY NatLessThanWellFounded DEF OpToRel
<1>3. \A k, n \in Nat : <<k, n>> \in R <=> k < n
  OBVIOUS
<1>4. Bad \subseteq Nat
  OBVIOUS
<1>5. \E n \in Bad : \A k \in Bad : ~(<<k, n>> \in R)
  <2>. HIDE DEF R, Bad
  <2>. QED  BY <1>1, <1>2, <1>4, WFMin
<1>6. PICK n \in Bad : \A k \in Bad : ~(k < n)
  <2>. HIDE DEF R
  <2>. QED  BY <1>3, <1>5
<1>7. n # 0 /\ n - 1 \in Nat /\ n - 1 < n
  OBVIOUS
<1>8. n - 1 \in T /\ (n - 1) + 1 = n
  BY <1>6, <1>7
<1>. QED  BY <1>7, <1>8

Chosen(s) == CHOOSE x \in s : TRUE

\* Induction over the sets of threads, likewise.
LEMMA AllSets ==
  ASSUME NEW U, {} \in U,
         \A s \in SUBSET LedgerThreads : s # {} /\ s \ {Chosen(s)} \in U => s \in U
  PROVE  LedgerThreads \in U
<1>. DEFINE R == StrictSubsetOrdering(LedgerThreads)
            Bad == FiniteSubsetsOf(LedgerThreads) \ U
<1>0. LedgerThreads \in FiniteSubsetsOf(LedgerThreads)
  BY LedgerAssumption DEF FiniteSubsetsOf
<1>1. SUFFICES ASSUME Bad # {} PROVE FALSE
  BY <1>0
<1>2. IsWellFoundedOn(R, FiniteSubsetsOf(LedgerThreads))
  BY FS_StrictSubsetOrderingWellFounded
<1>3. PICK s \in Bad : \A y \in Bad : ~(<<y, s>> \in R)
  <2>1. Bad \subseteq FiniteSubsetsOf(LedgerThreads)
    OBVIOUS
  <2>. HIDE DEF R, Bad
  <2>. QED  BY <1>1, <1>2, <2>1, WFMin
<1>4. s \in SUBSET LedgerThreads /\ IsFiniteSet(s) /\ s # {} /\ s \notin U
  BY DEF FiniteSubsetsOf
<1>5. PICK x : x = Chosen(s)
  OBVIOUS
<1>6. x \in s
  BY <1>4, <1>5 DEF Chosen
<1>7. s \ {x} \in FiniteSubsetsOf(LedgerThreads) /\ <<s \ {x}, s>> \in R
  <2>1. IsFiniteSet(s \ {x})
    BY <1>4, FS_RemoveElement
  <2>. QED  BY <1>4, <1>6, <2>1 DEF FiniteSubsetsOf, StrictSubsetOrdering
<1>8. s \ {x} \in U
  BY <1>3, <1>7
<1>. QED  BY <1>4, <1>5, <1>8

\* The sums of f over the sets of threads, as Total computes them.
SumOf(it, f, s) == IF s = {} THEN 0 ELSE f[Chosen(s)] + it[s \ {Chosen(s)}]
Sums(it, f) == it = [s \in SUBSET LedgerThreads |-> SumOf(it, f, s)]

LEMMA SumsExist == ASSUME NEW f PROVE \E it : Sums(it, f)
<1>. DEFINE Small(n) == {s \in SUBSET LedgerThreads : Cardinality(s) <= n}
            Right(it, n) == /\ it = [s \in SUBSET LedgerThreads |-> it[s]]
                            /\ \A s \in Small(n) : it[s] = SumOf(it, f, s)
            U == {n \in Nat : \E it : Right(it, n)}
<1>0. \A s \in SUBSET LedgerThreads : IsFiniteSet(s) /\ Cardinality(s) \in Nat
  BY LedgerAssumption, FS_Subset, FS_CardinalityType
<1>1. 0 \in U
  <2>. DEFINE it == [s \in SUBSET LedgerThreads |-> 0]
  <2>1. \A s \in Small(0) : s = {}
    BY <1>0, FS_EmptySet
  <2>2. it = [s \in SUBSET LedgerThreads |-> it[s]] /\ \A s \in Small(0) : it[s] = 0
    OBVIOUS
  <2>. HIDE DEF it
  <2>3. Right(it, 0)
    BY <2>1, <2>2 DEF SumOf
  <2>. QED  BY <2>3
<1>2. ASSUME NEW n \in Nat, n \in U PROVE n + 1 \in U
  <2>1. PICK h : Right(h, n)
    BY <1>2
  <2>. DEFINE it == [s \in SUBSET LedgerThreads |-> IF s \in Small(n) THEN h[s] ELSE SumOf(h, f, s)]
  <2>2. it = [s \in SUBSET LedgerThreads |-> it[s]]
    OBVIOUS
  <2>3. \A s \in SUBSET LedgerThreads : it[s] = SumOf(h, f, s)
    BY <2>1
  <2>4. \A s \in Small(n) : it[s] = h[s]
    OBVIOUS
  <2>. HIDE DEF it
  <2>5. ASSUME NEW s \in Small(n + 1) PROVE it[s] = SumOf(it, f, s)
    <3>1. CASE s = {}
      BY <2>3, <3>1 DEF SumOf
    <3>2. CASE s # {}
      <4>1. PICK x : x = Chosen(s)
        OBVIOUS
      <4>2. x \in s
        BY <3>2, <4>1 DEF Chosen
      <4>3. Cardinality(s \ {x}) = Cardinality(s) - 1
        BY <1>0, <4>2, FS_RemoveElement
      <4>4. s \ {x} \in Small(n)
        BY <1>0, <4>3
      <4>5. it[s \ {x}] = h[s \ {x}]
        BY <2>4, <4>4
      <4>6. it[s] = f[x] + h[s \ {x}]
        BY <2>3, <3>2, <4>1 DEF SumOf
      <4>. QED  BY <3>2, <4>1, <4>5, <4>6 DEF SumOf
    <3>. QED  BY <3>1, <3>2
  <2>6. Right(it, n + 1)
    BY <2>2, <2>5
  <2>7. n + 1 \in Nat
    OBVIOUS
  <2>. HIDE DEF Right
  <2>. QED  BY <2>6, <2>7
<1>3. PICK n : n = Cardinality(LedgerThreads)
  OBVIOUS
<1>4. n \in Nat /\ \A s \in SUBSET LedgerThreads : s \in Small(n)
  BY <1>0, <1>3, LedgerAssumption, FS_Subset
<1>5. n \in U
  <2>. HIDE DEF U
  <2>. QED  BY <1>1, <1>2, <1>4, AllNumbers
<1>6. PICK it : Right(it, n)
  BY <1>5
<1>7. \A s \in SUBSET LedgerThreads : it[s] = SumOf(it, f, s)
  BY <1>4, <1>6
<1>8. it = [s \in SUBSET LedgerThreads |-> it[s]]
  BY <1>6
<1>. HIDE DEF Right, Small, U
<1>. QED  BY <1>7, <1>8 DEF Sums

LEMMA TotalIs == ASSUME NEW f PROVE \E it : Sums(it, f) /\ Total(f) = it[LedgerThreads]
<1>. DEFINE it == CHOOSE it : it = [s \in SUBSET LedgerThreads |-> IF s = {} THEN 0 ELSE f[Chosen(s)] + it[s \ {Chosen(s)}]]
<1>1. Total(f) = it[LedgerThreads]
  BY DEF Total, MapThenSumSet, MapThenFoldSet, Chosen
<1>2. Sums(it, f)
  BY SumsExist DEF Sums, SumOf
<1>. QED  BY <1>1, <1>2

LEMMA TotalType ==
  ASSUME NEW f \in [LedgerThreads -> Nat]
  PROVE  Total(f) \in Nat
<1>1. PICK it : Sums(it, f) /\ Total(f) = it[LedgerThreads]
  BY TotalIs
<1>. DEFINE U == {s \in SUBSET LedgerThreads : it[s] \in Nat}
<1>2. {} \in U
  BY <1>1 DEF Sums, SumOf
<1>3. ASSUME NEW s \in SUBSET LedgerThreads, s # {}, s \ {Chosen(s)} \in U PROVE s \in U
  <2>1. it[s] = f[Chosen(s)] + it[s \ {Chosen(s)}]
    BY <1>1, <1>3 DEF Sums, SumOf
  <2>2. Chosen(s) \in LedgerThreads
    BY <1>3 DEF Chosen
  <2>. QED  BY <1>3, <2>1, <2>2
<1>4. LedgerThreads \in U
  <2>. HIDE DEF U
  <2>. QED  BY <1>2, <1>3, AllSets
<1>. QED  BY <1>1, <1>4

LEMMA TotalGrows ==
  ASSUME NEW f \in [LedgerThreads -> Nat], NEW g \in [LedgerThreads -> Nat],
         \A t \in LedgerThreads : f[t] <= g[t]
  PROVE  Total(f) <= Total(g)
<1>1. PICK i : Sums(i, f) /\ Total(f) = i[LedgerThreads]
  BY TotalIs
<1>2. PICK j : Sums(j, g) /\ Total(g) = j[LedgerThreads]
  BY TotalIs
<1>. DEFINE U == {s \in SUBSET LedgerThreads : i[s] \in Nat /\ j[s] \in Nat /\ i[s] <= j[s]}
<1>3. {} \in U
  BY <1>1, <1>2 DEF Sums, SumOf
<1>4. ASSUME NEW s \in SUBSET LedgerThreads, s # {}, s \ {Chosen(s)} \in U PROVE s \in U
  <2>1. i[s] = f[Chosen(s)] + i[s \ {Chosen(s)}] /\ j[s] = g[Chosen(s)] + j[s \ {Chosen(s)}]
    BY <1>1, <1>2, <1>4 DEF Sums, SumOf
  <2>2. PICK x \in LedgerThreads : x = Chosen(s)
    BY <1>4 DEF Chosen
  <2>3. f[x] \in Nat /\ g[x] \in Nat /\ f[x] <= g[x]
    OBVIOUS
  <2>4. i[s \ {x}] \in Nat /\ j[s \ {x}] \in Nat /\ i[s \ {x}] <= j[s \ {x}]
    BY <1>4, <2>2
  <2>5. i[s] \in Nat /\ j[s] \in Nat /\ i[s] <= j[s]
    BY <2>1, <2>2, <2>3, <2>4
  <2>. QED  BY <2>5
<1>5. LedgerThreads \in U
  <2>. HIDE DEF U
  <2>. QED  BY <1>3, <1>4, AllSets
<1>. QED  BY <1>1, <1>2, <1>5

\* One thread's count changes.
LEMMA TotalChanges ==
  ASSUME NEW f \in [LedgerThreads -> Nat], NEW g \in [LedgerThreads -> Nat], NEW t \in LedgerThreads,
         \A x \in LedgerThreads \ {t} : g[x] = f[x]
  PROVE  Total(g) + f[t] = Total(f) + g[t]
<1>1. PICK i : Sums(i, f) /\ Total(f) = i[LedgerThreads]
  BY TotalIs
<1>2. PICK j : Sums(j, g) /\ Total(g) = j[LedgerThreads]
  BY TotalIs
<1>. DEFINE U == {s \in SUBSET LedgerThreads :
                    /\ i[s] \in Nat /\ j[s] \in Nat
                    /\ t \notin s => j[s] = i[s]
                    /\ t \in s => j[s] + f[t] = i[s] + g[t]}
<1>3. {} \in U
  BY <1>1, <1>2 DEF Sums, SumOf
<1>4. ASSUME NEW s \in SUBSET LedgerThreads, s # {}, s \ {Chosen(s)} \in U PROVE s \in U
  <2>1. i[s] = f[Chosen(s)] + i[s \ {Chosen(s)}] /\ j[s] = g[Chosen(s)] + j[s \ {Chosen(s)}]
    BY <1>1, <1>2, <1>4 DEF Sums, SumOf
  <2>2. PICK x \in LedgerThreads : x = Chosen(s) /\ x \in s
    BY <1>4 DEF Chosen
  <2>3. PICK r : r = s \ {x}
    OBVIOUS
  <2>4. /\ i[r] \in Nat /\ j[r] \in Nat
        /\ t \notin r => j[r] = i[r]
        /\ t \in r => j[r] + f[t] = i[r] + g[t]
    BY <1>4, <2>2, <2>3
  <2>5. f[x] \in Nat /\ g[x] \in Nat /\ f[t] \in Nat /\ g[t] \in Nat /\ (x # t => g[x] = f[x])
    OBVIOUS
  <2>6. i[s] = f[x] + i[r] /\ j[s] = g[x] + j[r]
    BY <2>1, <2>2, <2>3
  <2>7. t \notin s => j[s] = i[s]
    BY <2>2, <2>3, <2>4, <2>5, <2>6
  <2>8. t \in s => j[s] + f[t] = i[s] + g[t]
    <3>1. CASE x = t
      BY <2>3, <2>4, <2>5, <2>6, <3>1
    <3>2. CASE x # t
      <4>1. t \in s => t \in r
        BY <2>3, <3>2
      <4>. QED  BY <2>4, <2>5, <2>6, <3>2, <4>1
    <3>. QED  BY <3>1, <3>2
  <2>9. i[s] \in Nat /\ j[s] \in Nat
    BY <2>4, <2>5, <2>6
  <2>. QED  BY <2>7, <2>8, <2>9
<1>5. LedgerThreads \in U
  <2>. HIDE DEF U
  <2>. QED  BY <1>3, <1>4, AllSets
<1>. QED  BY <1>1, <1>2, <1>5

\* Two pairs of counts, the one nowhere more than the other.
LEMMA TotalsGrow ==
  ASSUME NEW a \in [LedgerThreads -> Nat], NEW b \in [LedgerThreads -> Nat],
         NEW c \in [LedgerThreads -> Nat], NEW d \in [LedgerThreads -> Nat],
         \A t \in LedgerThreads : a[t] + b[t] <= c[t] + d[t]
  PROVE  Total(a) + Total(b) <= Total(c) + Total(d)
<1>1. PICK i : Sums(i, a) /\ Total(a) = i[LedgerThreads]
  BY TotalIs
<1>2. PICK j : Sums(j, b) /\ Total(b) = j[LedgerThreads]
  BY TotalIs
<1>3. PICK k : Sums(k, c) /\ Total(c) = k[LedgerThreads]
  BY TotalIs
<1>4. PICK l : Sums(l, d) /\ Total(d) = l[LedgerThreads]
  BY TotalIs
<1>. DEFINE U == {s \in SUBSET LedgerThreads :
                    /\ i[s] \in Nat /\ j[s] \in Nat /\ k[s] \in Nat /\ l[s] \in Nat
                    /\ i[s] + j[s] <= k[s] + l[s]}
<1>5. {} \in U
  BY <1>1, <1>2, <1>3, <1>4 DEF Sums, SumOf
<1>6. ASSUME NEW s \in SUBSET LedgerThreads, s # {}, s \ {Chosen(s)} \in U PROVE s \in U
  <2>1. /\ i[s] = a[Chosen(s)] + i[s \ {Chosen(s)}] /\ j[s] = b[Chosen(s)] + j[s \ {Chosen(s)}]
        /\ k[s] = c[Chosen(s)] + k[s \ {Chosen(s)}] /\ l[s] = d[Chosen(s)] + l[s \ {Chosen(s)}]
    BY <1>1, <1>2, <1>3, <1>4, <1>6 DEF Sums, SumOf
  <2>2. PICK x \in LedgerThreads : x = Chosen(s)
    BY <1>6 DEF Chosen
  <2>3. PICK r : r = s \ {x}
    OBVIOUS
  <2>4. /\ i[r] \in Nat /\ j[r] \in Nat /\ k[r] \in Nat /\ l[r] \in Nat
        /\ i[r] + j[r] <= k[r] + l[r]
    BY <1>6, <2>2, <2>3
  <2>5. a[x] \in Nat /\ b[x] \in Nat /\ c[x] \in Nat /\ d[x] \in Nat /\ a[x] + b[x] <= c[x] + d[x]
    OBVIOUS
  <2>6. i[s] = a[x] + i[r] /\ j[s] = b[x] + j[r] /\ k[s] = c[x] + k[r] /\ l[s] = d[x] + l[r]
    BY <2>1, <2>2, <2>3
  <2>7. /\ i[s] \in Nat /\ j[s] \in Nat /\ k[s] \in Nat /\ l[s] \in Nat
        /\ i[s] + j[s] <= k[s] + l[s]
    BY <2>4, <2>5, <2>6
  <2>. QED  BY <2>7
<1>7. LedgerThreads \in U
  <2>. HIDE DEF U
  <2>. QED  BY <1>5, <1>6, AllSets
<1>. QED  BY <1>1, <1>2, <1>3, <1>4, <1>7

-----------------------------------------------------------------------------
(* The balance of the ledger *)

Numbers == [LedgerThreads -> Nat]
SessionTotals == [total : Nat, risen : Nat]

\* A point of each thread's rollout that the ledger may yet be told of.
Points(T, r) == {g \in [LedgerThreads -> Nat] : \A t \in LedgerThreads : r[t] <= g[t] /\ g[t] <= Len(T[t])}

\* What the ledger would add, were it told of these points now, and how much the totals had risen by then.
Added(u, T, g) == [t \in LedgerThreads |-> Rise(u[t], T[t][g[t]].total)]
RisenBy(T, g) == [t \in LedgerThreads |-> T[t][g[t]].risen]

\* The totals of a session: from one to a later one it has risen by at least the difference.
Rising(s) ==
  /\ s \in Seq(SessionTotals) /\ Len(s) > 0
  /\ \A i, j \in 1..Len(s) : i <= j => s[i].risen + Rise(s[i].total, s[j].total) <= s[j].risen

\* What is being written is the last total reported.
SavesReported ==
  \/ saving = <<>>
  \/ \E t \in LedgerThreads :
       \/ \E c : saving = <<SaveContext(t, c)>>
       \/ saving = <<SaveUsage(t, totals[t][reported[t]].total)>>
       \/ \E c : saving = <<SaveContext(t, c), SaveUsage(t, totals[t][reported[t]].total)>>

LedgerNumbers ==
  /\ usage = [threads |-> usage.threads, days |-> usage.days]
  /\ usage.threads \in Numbers /\ usage.days \in Nat

SessionsRise ==
  /\ totals = [t \in LedgerThreads |-> totals[t]]
  /\ \A t \in LedgerThreads : Rising(totals[t])
  /\ reported \in Numbers
  /\ \A t \in LedgerThreads : reported[t] \in 1..Len(totals[t])

Owing(u, d, T, r) == \A g \in Points(T, r) : d + Total(Added(u, T, g)) <= Total(RisenBy(T, g))

LedgerInv ==
  /\ LedgerNumbers
  /\ SessionsRise
  /\ SavesReported
  /\ Total(usage.threads) <= usage.days
  /\ Owing(usage.threads, usage.days, totals, reported)

LEMMA RiseType ==
  ASSUME NEW a \in Nat, NEW b \in Nat
  PROVE  Rise(a, b) \in Nat /\ b <= a + Rise(a, b) /\ (b <= a => Rise(a, b) = 0) /\ (a <= b => Rise(a, b) = b - a)
BY DEF Rise

\* Two rises are at least the one from the first total to the last.
LEMMA RisesAdd ==
  ASSUME NEW a \in Nat, NEW b \in Nat, NEW c \in Nat
  PROVE  Rise(a, c) <= Rise(a, b) + Rise(b, c)
BY DEF Rise

LEMMA AfterType ==
  ASSUME NEW l \in SessionTotals, NEW new \in Nat
  PROVE  /\ After(l, new) \in SessionTotals
         /\ After(l, new) = [total |-> new, risen |-> l.risen + Rise(l.total, new)]
         /\ l.total \in Nat /\ l.risen \in Nat /\ Rise(l.total, new) \in Nat
<1>1. l.total \in Nat /\ l.risen \in Nat
  BY DEF SessionTotals
<1>2. Rise(l.total, new) \in Nat
  BY <1>1, RiseType
<1>. QED  BY <1>1, <1>2 DEF After, SessionTotals

\* T is what a history of totals is: every thread's rises.
Histories(T) == T = [t \in LedgerThreads |-> T[t]] /\ \A t \in LedgerThreads : Rising(T[t])

LEMMA PointTypes ==
  ASSUME NEW u \in Numbers, NEW T, Histories(T), NEW r, \A t \in LedgerThreads : r[t] \in 1..Len(T[t]),
         NEW g \in Points(T, r)
  PROVE  /\ Added(u, T, g) \in Numbers /\ RisenBy(T, g) \in Numbers
         /\ \A t \in LedgerThreads :
              /\ g[t] \in 1..Len(T[t]) /\ r[t] <= g[t]
              /\ T[t][g[t]] \in SessionTotals
              /\ Added(u, T, g)[t] = Rise(u[t], T[t][g[t]].total)
              /\ RisenBy(T, g)[t] = T[t][g[t]].risen
<1>1. \A t \in LedgerThreads : g[t] \in 1..Len(T[t]) /\ r[t] <= g[t]
  <2>. TAKE t \in LedgerThreads
  <2>1. r[t] \in Nat /\ 1 <= r[t] /\ g[t] \in Nat /\ r[t] <= g[t] /\ g[t] <= Len(T[t]) /\ Len(T[t]) \in Nat
    BY DEF Points, Histories, Rising
  <2>. QED  BY <2>1
<1>2. \A t \in LedgerThreads : T[t][g[t]] \in SessionTotals
  BY <1>1 DEF Histories, Rising
<1>3. \A t \in LedgerThreads : Rise(u[t], T[t][g[t]].total) \in Nat /\ T[t][g[t]].risen \in Nat
  BY <1>2, RiseType DEF Numbers, SessionTotals
<1>. QED  BY <1>1, <1>2, <1>3 DEF Added, RisenBy, Numbers

\* Every point of the histories S has one of the histories T, from which its
\* thread has risen by at least what the ledger would add more.
Covers(u, T, r, S, q, h) ==
  \A g \in Points(S, q) :
    /\ h[g] \in Points(T, r)
    /\ \A t \in LedgerThreads :
         Rise(u[t], S[t][g[t]].total) + T[t][h[g][t]].risen <= S[t][g[t]].risen + Rise(u[t], T[t][h[g][t]].total)

Reports(T, r) == Histories(T) /\ \A t \in LedgerThreads : r[t] \in 1..Len(T[t])

LEMMA OwingKept ==
  ASSUME NEW u \in Numbers, NEW d \in Nat, NEW T, NEW r, NEW S, NEW q, NEW h,
         Reports(T, r), Reports(S, q), Owing(u, d, T, r), Covers(u, T, r, S, q, h)
  PROVE  Owing(u, d, S, q)
<1>0. /\ Histories(T) /\ \A t \in LedgerThreads : r[t] \in 1..Len(T[t])
      /\ Histories(S) /\ \A t \in LedgerThreads : q[t] \in 1..Len(S[t])
  BY DEF Reports
<1>. SUFFICES ASSUME NEW g \in Points(S, q) PROVE d + Total(Added(u, S, g)) <= Total(RisenBy(S, g))
  BY DEF Owing
<1>1. PICK p : p = h[g]
  OBVIOUS
<1>2. p \in Points(T, r)
  BY <1>1 DEF Covers
<1>3. /\ Added(u, S, g) \in Numbers /\ RisenBy(S, g) \in Numbers
      /\ \A t \in LedgerThreads : /\ Added(u, S, g)[t] = Rise(u[t], S[t][g[t]].total)
                                  /\ RisenBy(S, g)[t] = S[t][g[t]].risen
  BY <1>0, PointTypes
<1>4. /\ Added(u, T, p) \in Numbers /\ RisenBy(T, p) \in Numbers
      /\ \A t \in LedgerThreads : /\ Added(u, T, p)[t] = Rise(u[t], T[t][p[t]].total)
                                  /\ RisenBy(T, p)[t] = T[t][p[t]].risen
  BY <1>0, <1>2, PointTypes, SMTT(40)
<1>5. \A t \in LedgerThreads : Added(u, S, g)[t] + RisenBy(T, p)[t] <= RisenBy(S, g)[t] + Added(u, T, p)[t]
  BY <1>1, <1>3, <1>4 DEF Covers
<1>6. PICK a, b, c, k : a = Added(u, S, g) /\ b = RisenBy(T, p) /\ c = RisenBy(S, g) /\ k = Added(u, T, p)
  OBVIOUS
<1>7. Total(a) + Total(b) <= Total(c) + Total(k)
  BY <1>3, <1>4, <1>5, <1>6, TotalsGrow DEF Numbers
<1>8. Total(a) \in Nat /\ Total(b) \in Nat /\ Total(c) \in Nat /\ Total(k) \in Nat
  BY <1>3, <1>4, <1>6, TotalType DEF Numbers
<1>9. d + Total(k) <= Total(b)
  BY <1>2, <1>6 DEF Owing
<1>10. d + Total(a) <= Total(c)
  BY <1>7, <1>8, <1>9
<1>. QED  BY <1>6, <1>10

LEMMA RisingAppended ==
  ASSUME NEW s, Rising(s), NEW new \in Nat
  PROVE  /\ Rising(Append(s, After(s[Len(s)], new)))
         /\ Len(Append(s, After(s[Len(s)], new))) = Len(s) + 1
         /\ \A i \in 1..Len(s) : Append(s, After(s[Len(s)], new))[i] = s[i]
         /\ Append(s, After(s[Len(s)], new))[Len(s) + 1] = After(s[Len(s)], new)
<1>1. PICK l, n : l = s[Len(s)] /\ n = Len(s)
  OBVIOUS
<1>2. s \in Seq(SessionTotals) /\ n \in Nat /\ n > 0 /\ l \in SessionTotals
  BY <1>1 DEF Rising
<1>3. PICK a : a = After(l, new)
  OBVIOUS
<1>4. a = [total |-> new, risen |-> l.risen + Rise(l.total, new)] /\ a \in SessionTotals
  BY <1>2, <1>3, AfterType
<1>5. PICK z : z = Append(s, a)
  OBVIOUS
<1>6. z \in Seq(SessionTotals) /\ Len(z) = n + 1 /\ (\A i \in 1..n : z[i] = s[i]) /\ z[n + 1] = a
  BY <1>1, <1>2, <1>4, <1>5
<1>7. \A i, j \in 1..Len(z) : i <= j => z[i].risen + Rise(z[i].total, z[j].total) <= z[j].risen
  <2>. SUFFICES ASSUME NEW i \in 1..(n + 1), NEW j \in 1..(n + 1), i <= j
                PROVE  z[i].risen + Rise(z[i].total, z[j].total) <= z[j].risen
    BY <1>6
  <2>1. CASE j <= n
    <3>1. i \in 1..n /\ j \in 1..n
      BY <1>2, <2>1
    <3>. QED  BY <1>1, <1>6, <3>1 DEF Rising
  <2>2. CASE i <= n /\ j = n + 1
    <3>1. i \in 1..n /\ n \in 1..n
      BY <1>2, <2>2
    <3>2. s[i].risen + Rise(s[i].total, l.total) <= l.risen
      BY <1>1, <3>1 DEF Rising
    <3>3. s[i] \in SessionTotals
      BY <1>1, <1>2, <3>1
    <3>4. PICK x, y, m, k : x = s[i].total /\ y = s[i].risen /\ m = l.total /\ k = l.risen
      OBVIOUS
    <3>5. x \in Nat /\ y \in Nat /\ m \in Nat /\ k \in Nat
      BY <1>2, <3>3, <3>4 DEF SessionTotals
    <3>6. Rise(x, new) <= Rise(x, m) + Rise(m, new)
      BY <3>5, RisesAdd
    <3>7. Rise(x, new) \in Nat /\ Rise(x, m) \in Nat /\ Rise(m, new) \in Nat
      BY <3>5, RiseType
    <3>8. y + Rise(x, new) <= k + Rise(m, new)
      BY <3>2, <3>4, <3>5, <3>6, <3>7
    <3>. QED  BY <1>4, <1>6, <2>2, <3>1, <3>4, <3>8
  <2>3. CASE i = n + 1 /\ j = n + 1
    <3>0. a.total \in Nat /\ a.risen \in Nat
      BY <1>4 DEF SessionTotals
    <3>1. Rise(a.total, a.total) = 0
      BY <3>0 DEF Rise
    <3>. QED  BY <1>6, <2>3, <3>0, <3>1
  <2>. QED  BY <1>2, <2>1, <2>2, <2>3
<1>. QED  BY <1>1, <1>2, <1>3, <1>5, <1>6, <1>7 DEF Rising

LEMMA RisingResumed ==
  ASSUME NEW s, Rising(s), NEW n \in 1..Len(s), NEW z,
         z = [SubSeq(s, 1, n) EXCEPT ![n] = After(s[Len(s)], s[n].total)]
  PROVE  Rising(z) /\ Len(z) = n /\ z[n] = After(s[Len(s)], s[n].total)
<1>1. PICK l, m : l = s[Len(s)] /\ m = Len(s)
  OBVIOUS
<1>2. s \in Seq(SessionTotals) /\ m \in Nat /\ n \in 1..m /\ m \in 1..m /\ l \in SessionTotals /\ s[n] \in SessionTotals
  BY <1>1 DEF Rising
<1>3. PICK a : a = After(l, s[n].total)
  OBVIOUS
<1>4. a = [total |-> s[n].total, risen |-> l.risen + Rise(l.total, s[n].total)] /\ a \in SessionTotals
  <2>1. s[n].total \in Nat
    BY <1>2 DEF SessionTotals
  <2>. QED  BY <1>2, <1>3, <2>1, AfterType
<1>5. PICK w : w = SubSeq(s, 1, n)
  OBVIOUS
<1>6. w \in Seq(SessionTotals) /\ Len(w) = n /\ \A i \in 1..n : w[i] = s[i]
  BY <1>1, <1>2, <1>5
<1>7. z = [w EXCEPT ![n] = a]
  BY <1>1, <1>3, <1>5
<1>8. z \in Seq(SessionTotals) /\ Len(z) = n
  BY <1>2, <1>4, <1>6, <1>7
<1>9. z[n] = a /\ \A i \in 1..n : i # n => z[i] = s[i]
  BY <1>2, <1>6, <1>7
<1>10. \A i, j \in 1..n : i <= j => z[i].risen + Rise(z[i].total, z[j].total) <= z[j].risen
  <2>. SUFFICES ASSUME NEW i \in 1..n, NEW j \in 1..n, i <= j
                PROVE  z[i].risen + Rise(z[i].total, z[j].total) <= z[j].risen
    OBVIOUS
  <2>0. i \in 1..m /\ j \in 1..m /\ n <= m
    BY <1>2
  <2>1. CASE j # n
    <3>1. i # n
      BY <2>1
    <3>. QED  BY <1>1, <1>9, <2>0, <2>1, <3>1 DEF Rising
  <2>2. CASE i # n /\ j = n
    <3>1. s[i].risen + Rise(s[i].total, s[n].total) <= s[n].risen
      BY <1>1, <2>0, <2>2 DEF Rising
    <3>2. s[n].risen + Rise(s[n].total, l.total) <= l.risen
      BY <1>1, <1>2, <2>0 DEF Rising
    <3>3. /\ s[i].risen \in Nat /\ s[n].risen \in Nat /\ l.risen \in Nat
          /\ s[i].total \in Nat /\ s[n].total \in Nat /\ l.total \in Nat
      <4>1. s[i] \in SessionTotals
        BY <1>1, <1>2, <2>0
      <4>. QED  BY <1>2, <4>1 DEF SessionTotals
    <3>4. Rise(s[i].total, s[n].total) \in Nat /\ Rise(s[n].total, l.total) \in Nat /\ Rise(l.total, s[n].total) \in Nat
      BY <3>3, RiseType
    <3>5. s[i].risen + Rise(s[i].total, s[n].total) <= l.risen + Rise(l.total, s[n].total)
      <4>1. PICK x, y, k, p, q, o : /\ x = s[i].risen /\ y = s[n].risen /\ k = l.risen
                                    /\ p = Rise(s[i].total, s[n].total) /\ q = Rise(s[n].total, l.total) /\ o = Rise(l.total, s[n].total)
        OBVIOUS
      <4>2. x \in Nat /\ y \in Nat /\ k \in Nat /\ p \in Nat /\ q \in Nat /\ o \in Nat
        BY <3>3, <3>4, <4>1
      <4>3. x + p <= y /\ y + q <= k
        BY <3>1, <3>2, <4>1
      <4>4. x + p <= k + o
        BY <4>2, <4>3
      <4>. QED  BY <4>1, <4>4
    <3>. QED  BY <1>4, <1>9, <2>2, <3>5
  <2>3. CASE i = n /\ j = n
    <3>0. a.total \in Nat /\ a.risen \in Nat
      BY <1>4 DEF SessionTotals
    <3>1. Rise(a.total, a.total) = 0
      BY <3>0 DEF Rise
    <3>. QED  BY <1>9, <2>3, <3>0, <3>1
  <2>. QED  BY <2>1, <2>2, <2>3
<1>. QED  BY <1>1, <1>2, <1>3, <1>8, <1>9, <1>10 DEF Rising

LEMMA ZeroTotal ==
  ASSUME NEW z \in Numbers, \A t \in LedgerThreads : z[t] = 0
  PROVE  Total(z) = 0
<1>1. PICK it : Sums(it, z) /\ Total(z) = it[LedgerThreads]
  BY TotalIs
<1>. DEFINE U == {s \in SUBSET LedgerThreads : it[s] = 0}
<1>2. {} \in U
  BY <1>1 DEF Sums, SumOf
<1>3. ASSUME NEW s \in SUBSET LedgerThreads, s # {}, s \ {Chosen(s)} \in U PROVE s \in U
  <2>1. it[s] = z[Chosen(s)] + it[s \ {Chosen(s)}]
    BY <1>1, <1>3 DEF Sums, SumOf
  <2>2. Chosen(s) \in LedgerThreads
    BY <1>3 DEF Chosen
  <2>. QED  BY <1>3, <2>1, <2>2
<1>4. LedgerThreads \in U
  <2>. HIDE DEF U
  <2>. QED  BY <1>2, <1>3, AllSets
<1>. QED  BY <1>1, <1>4

LEMMA LedgerStart == LedgerInit => LedgerInv
<1>. SUFFICES ASSUME LedgerInit PROVE LedgerInv
  OBVIOUS
<1>. DEFINE zero == [t \in LedgerThreads |-> 0]
<1>1. zero \in Numbers /\ \A t \in LedgerThreads : zero[t] = 0
  BY DEF Numbers
<1>2. usage.threads = zero /\ usage.days = 0 /\ usage = [threads |-> usage.threads, days |-> usage.days]
  BY DEF LedgerInit
<1>3. /\ totals = [t \in LedgerThreads |-> totals[t]]
      /\ \A t \in LedgerThreads : totals[t] = <<[total |-> 0, risen |-> 0]>> /\ reported[t] = 1
      /\ reported \in Numbers /\ saving = <<>>
  BY DEF LedgerInit, Numbers
<1>. HIDE DEF zero
<1>4. PICK s : s = <<[total |-> 0, risen |-> 0]>>
  OBVIOUS
<1>5. s \in Seq(SessionTotals) /\ Len(s) = 1 /\ s[1] = [total |-> 0, risen |-> 0]
  BY <1>4 DEF SessionTotals
<1>6. Rising(s)
  <2>1. Rise(0, 0) = 0
    BY RiseType
  <2>. QED  BY <1>5, <2>1 DEF Rising
<1>7. SessionsRise
  BY <1>3, <1>4, <1>5, <1>6 DEF SessionsRise
<1>8. Total(zero) = 0
  BY <1>1, ZeroTotal
<1>9. Owing(zero, 0, totals, reported)
  <2>. SUFFICES ASSUME NEW g \in Points(totals, reported)
                PROVE  0 + Total(Added(zero, totals, g)) <= Total(RisenBy(totals, g))
    BY DEF Owing
  <2>1. Histories(totals)
    BY <1>7 DEF SessionsRise, Histories
  <2>2. /\ Added(zero, totals, g) \in Numbers /\ RisenBy(totals, g) \in Numbers
        /\ \A t \in LedgerThreads :
             /\ g[t] \in 1..Len(totals[t])
             /\ Added(zero, totals, g)[t] = Rise(zero[t], totals[t][g[t]].total)
             /\ RisenBy(totals, g)[t] = totals[t][g[t]].risen
    BY <1>1, <1>7, <2>1, PointTypes DEF SessionsRise
  <2>3. \A t \in LedgerThreads : totals[t][g[t]] = [total |-> 0, risen |-> 0]
    BY <1>3, <1>4, <1>5, <2>2
  <2>4. \A t \in LedgerThreads : Added(zero, totals, g)[t] = 0 /\ RisenBy(totals, g)[t] = 0
    <3>1. Rise(0, 0) = 0
      BY RiseType
    <3>. QED  BY <1>1, <2>2, <2>3, <3>1
  <2>5. Total(Added(zero, totals, g)) = 0 /\ Total(RisenBy(totals, g)) = 0
    BY <2>2, <2>4, ZeroTotal
  <2>. QED  BY <2>5
<1>10. LedgerNumbers /\ SavesReported
  BY <1>1, <1>2, <1>3 DEF LedgerNumbers, SavesReported
<1>. QED  BY <1>2, <1>7, <1>8, <1>9, <1>10 DEF LedgerInv

LEMMA SessionsAre ==
  SessionsRise => Histories(totals) /\ reported \in Numbers /\ \A t \in LedgerThreads : reported[t] \in 1..Len(totals[t])
BY DEF SessionsRise, Histories

LEMMA NewTotalStep ==
  ASSUME LedgerInv, NEW t \in LedgerThreads, NEW new \in Nat, NewTotal(t, new)
  PROVE  LedgerInv'
<1>1. PICK T, S, r, u, d : T = totals /\ S = totals' /\ r = reported /\ u = usage.threads /\ d = usage.days
  OBVIOUS
<1>2. /\ S = [T EXCEPT ![t] = Append(@, After(T[t][Len(T[t])], new))]
      /\ usage' = usage /\ saving' = saving /\ reported' = r
  BY <1>1 DEF NewTotal, Latest
<1>3. Histories(T) /\ r \in Numbers /\ (\A x \in LedgerThreads : r[x] \in 1..Len(T[x])) /\ u \in Numbers /\ d \in Nat
  BY <1>1, SessionsAre DEF LedgerInv, LedgerNumbers
<1>4. PICK l : l = T[t][Len(T[t])]
  OBVIOUS
<1>5. /\ S[t] = Append(T[t], After(l, new))
      /\ \A x \in LedgerThreads \ {t} : S[x] = T[x]
      /\ S = [x \in LedgerThreads |-> S[x]]
  BY <1>2, <1>3, <1>4 DEF Histories
<1>6. /\ Rising(S[t]) /\ Len(S[t]) = Len(T[t]) + 1
      /\ \A i \in 1..Len(T[t]) : S[t][i] = T[t][i]
      /\ S[t][Len(T[t]) + 1] = After(l, new)
  BY <1>3, <1>4, <1>5, RisingAppended DEF Histories
<1>7. Histories(S)
  BY <1>3, <1>5, <1>6 DEF Histories
<1>8. \A x \in LedgerThreads : /\ Len(T[x]) \in Nat /\ Len(T[x]) > 0
                               /\ T[x] \in Seq(SessionTotals)
                               /\ r[x] \in Nat /\ r[x] <= Len(T[x]) /\ r[x] \in 1..Len(S[x])
                               /\ \A i \in 1..Len(T[x]) : S[x][i] = T[x][i]
  <2>. TAKE x \in LedgerThreads
  <2>1. Len(T[x]) \in Nat /\ Len(T[x]) > 0 /\ r[x] \in 1..Len(T[x]) /\ T[x] \in Seq(SessionTotals)
    BY <1>3 DEF Histories, Rising
  <2>2. CASE x = t
    BY <1>6, <2>1, <2>2
  <2>3. CASE x # t
    BY <1>5, <2>1, <2>3
  <2>. QED  BY <2>2, <2>3
<1>9. Owing(u, d, S, r)
  <2>. DEFINE at(g) == [x \in LedgerThreads |-> IF g[x] <= Len(T[x]) THEN g[x] ELSE Len(T[x])]
              h == [g \in Points(S, r) |-> at(g)]
  <2>1. ASSUME NEW g \in Points(S, r) PROVE h[g] = at(g) /\ h[g] \in Points(T, r)
    <3>1. \A x \in LedgerThreads : g[x] \in Nat /\ r[x] <= g[x]
      BY DEF Points
    <3>2. at(g) \in [LedgerThreads -> Nat] /\ \A x \in LedgerThreads : r[x] <= at(g)[x] /\ at(g)[x] <= Len(T[x])
      BY <1>8, <3>1
    <3>. QED  BY <3>2 DEF Points
  <2>2. ASSUME NEW g \in Points(S, r), NEW x \in LedgerThreads
        PROVE  Rise(u[x], S[x][g[x]].total) + T[x][h[g][x]].risen <= S[x][g[x]].risen + Rise(u[x], T[x][h[g][x]].total)
    <3>1. g[x] \in Nat /\ r[x] <= g[x] /\ g[x] <= Len(S[x]) /\ r[x] \in Nat /\ 1 <= r[x]
      BY <1>3 DEF Points
    <3>2. u[x] \in Nat
      BY <1>3 DEF Numbers
    <3>3. CASE g[x] <= Len(T[x])
      <4>1. h[g][x] = g[x]
        BY <2>1, <3>3
      <4>2. g[x] \in 1..Len(T[x])
        BY <1>8, <3>1, <3>3
      <4>3. S[x][g[x]] = T[x][g[x]] /\ T[x][g[x]] \in SessionTotals
        BY <1>8, <4>2
      <4>4. Rise(u[x], T[x][g[x]].total) \in Nat /\ T[x][g[x]].risen \in Nat
        BY <3>2, <4>3, RiseType DEF SessionTotals
      <4>. QED  BY <4>1, <4>3, <4>4
    <3>4. CASE ~(g[x] <= Len(T[x]))
      <4>1. h[g][x] = Len(T[x])
        BY <2>1, <3>4
      <4>2. x = t
        BY <1>5, <3>1, <3>4
      <4>3. g[x] = Len(T[x]) + 1
        BY <1>6, <1>8, <3>1, <3>4, <4>2
      <4>4. S[x][g[x]] = After(l, new) /\ T[x][h[g][x]] = l
        BY <1>4, <1>6, <4>1, <4>2, <4>3
      <4>5. l \in SessionTotals
        BY <1>4, <1>8
      <4>6. PICK a, b, c : a = l.total /\ b = l.risen /\ c = u[x]
        OBVIOUS
      <4>7. a \in Nat /\ b \in Nat /\ c \in Nat
        BY <3>2, <4>5, <4>6 DEF SessionTotals
      <4>8. /\ Rise(c, new) <= Rise(c, a) + Rise(a, new)
            /\ Rise(c, new) \in Nat /\ Rise(c, a) \in Nat /\ Rise(a, new) \in Nat
        BY <4>7, RisesAdd, RiseType
      <4>9. Rise(c, new) + b <= (b + Rise(a, new)) + Rise(c, a)
        BY <4>7, <4>8
      <4>. QED  BY <4>4, <4>6, <4>9 DEF After
    <3>. QED  BY <3>3, <3>4
  <2>3. Owing(u, d, T, r)
    BY <1>1 DEF LedgerInv
  <2>4. \A x \in LedgerThreads : r[x] \in 1..Len(S[x])
    BY <1>8
  <2>5. Reports(T, r) /\ Reports(S, r)
    BY <1>3, <1>7, <2>4 DEF Reports
  <2>. HIDE DEF h
  <2>6. Covers(u, T, r, S, r, h)
    BY <2>1, <2>2 DEF Covers
  <2>. QED  BY <1>3, <2>3, <2>5, <2>6, OwingKept
<1>10. SessionsRise'
  BY <1>1, <1>2, <1>3, <1>7, <1>8 DEF SessionsRise, Histories
<1>11. SavesReported'
  <2>1. \A x \in LedgerThreads : totals'[x][reported'[x]] = totals[x][reported[x]]
    BY <1>1, <1>2, <1>3, <1>8
  <2>. QED  BY <1>2, <2>1 DEF LedgerInv, SavesReported
<1>12. LedgerNumbers'
  BY <1>2 DEF LedgerInv, LedgerNumbers
<1>13. usage'.threads = u /\ usage'.days = d /\ totals' = S /\ reported' = r
  BY <1>1, <1>2
<1>14. Total(usage'.threads) <= usage'.days
  BY <1>2 DEF LedgerInv
<1>15. Owing(usage'.threads, usage'.days, totals', reported')
  BY <1>9, <1>13
<1>. QED  BY <1>10, <1>11, <1>12, <1>14, <1>15 DEF LedgerInv

LEMMA UsageUpdatedStep ==
  ASSUME LedgerInv, NEW t \in LedgerThreads, UsageUpdated(t)
  PROVE  LedgerInv'
<1>1. PICK i \in reported[t]..Len(totals[t]) :
        /\ reported' = [reported EXCEPT ![t] = i]
        /\ saving' = <<SaveContext(t, totals[t][i].total), SaveUsage(t, totals[t][i].total)>>
  BY DEF UsageUpdated
<1>2. usage' = usage /\ totals' = totals
  BY DEF UsageUpdated
<1>3. PICK T, r, q, u, d : T = totals /\ r = reported /\ q = reported' /\ u = usage.threads /\ d = usage.days
  OBVIOUS
<1>4. Histories(T) /\ r \in Numbers /\ (\A x \in LedgerThreads : r[x] \in 1..Len(T[x])) /\ u \in Numbers /\ d \in Nat
  BY <1>3, SessionsAre DEF LedgerInv, LedgerNumbers
<1>5. \A x \in LedgerThreads : Len(T[x]) \in Nat /\ r[x] \in Nat /\ 1 <= r[x] /\ r[x] <= Len(T[x])
  BY <1>4 DEF Histories, Rising
<1>6. i \in Nat /\ i \in 1..Len(T[t]) /\ r[t] <= i
  BY <1>1, <1>3, <1>5
<1>7. q \in Numbers /\ q[t] = i /\ \A x \in LedgerThreads \ {t} : q[x] = r[x]
  BY <1>1, <1>3, <1>4, <1>6 DEF Numbers
<1>8. \A x \in LedgerThreads : q[x] \in 1..Len(T[x]) /\ r[x] <= q[x] /\ q[x] \in Nat
  BY <1>4, <1>5, <1>6, <1>7
<1>9. Points(T, q) \subseteq Points(T, r)
  BY <1>5, <1>8 DEF Points
<1>10. Owing(u, d, T, q)
  BY <1>3, <1>9 DEF LedgerInv, Owing
<1>11. SessionsRise'
  BY <1>2, <1>3, <1>7, <1>8 DEF LedgerInv, SessionsRise
<1>12. SavesReported'
  <2>1. totals'[t][reported'[t]].total = totals[t][i].total
    BY <1>2, <1>3, <1>7
  <2>. QED  BY <1>1, <2>1 DEF SavesReported
<1>13. LedgerNumbers' /\ Total(usage'.threads) <= usage'.days
  BY <1>2 DEF LedgerInv, LedgerNumbers
<1>14. Owing(usage'.threads, usage'.days, totals', reported')
  BY <1>2, <1>3, <1>10
<1>. QED  BY <1>11, <1>12, <1>13, <1>14 DEF LedgerInv

LEMMA ArchiveStep ==
  ASSUME LedgerInv, NEW t \in LedgerThreads, Archive(t)
  PROVE  LedgerInv'
<1>1. /\ usage' = usage /\ totals' = totals /\ reported' = reported
      /\ saving' = <<SaveContext(t, NoTotal)>>
  BY DEF Archive
<1>2. LedgerNumbers' /\ SessionsRise'
  BY <1>1 DEF LedgerInv, LedgerNumbers, SessionsRise
<1>3. SavesReported'
  BY <1>1 DEF SavesReported
<1>4. Owing(usage'.threads, usage'.days, totals', reported') /\ Total(usage'.threads) <= usage'.days
  BY <1>1 DEF LedgerInv
<1>. QED  BY <1>2, <1>3, <1>4 DEF LedgerInv

LEMMA LedgerKillStep ==
  ASSUME LedgerInv, LedgerKill
  PROVE  LedgerInv'
<1>1. usage' = usage /\ saving' = <<>>
  BY DEF LedgerKill
<1>2. PICK k \in [LedgerThreads -> 1..MaxTotals] :
        /\ \A t \in LedgerThreads : k[t] <= Len(totals[t])
        /\ totals' = [t \in LedgerThreads |-> Resumed(t, k[t])]
        /\ reported' = k
  BY DEF LedgerKill
<1>3. PICK T, S, r, u, d : T = totals /\ S = totals' /\ r = reported /\ u = usage.threads /\ d = usage.days
  OBVIOUS
<1>4. Histories(T) /\ r \in Numbers /\ (\A x \in LedgerThreads : r[x] \in 1..Len(T[x])) /\ u \in Numbers /\ d \in Nat
  BY <1>3, SessionsAre DEF LedgerInv, LedgerNumbers
<1>5. \A x \in LedgerThreads : Rising(T[x]) /\ Len(T[x]) \in Nat /\ T[x] \in Seq(SessionTotals)
  BY <1>4 DEF Histories, Rising
<1>6. \A x \in LedgerThreads : k[x] \in Nat /\ k[x] \in 1..Len(T[x])
  BY <1>2, <1>3, <1>5, LedgerAssumption
<1>7. S = [x \in LedgerThreads |-> S[x]]
  BY <1>2, <1>3
<1>8. \A x \in LedgerThreads :
        S[x] = [SubSeq(T[x], 1, k[x]) EXCEPT ![k[x]] = After(T[x][Len(T[x])], T[x][k[x]].total)]
  BY <1>2, <1>3 DEF Resumed, Latest
<1>9. \A x \in LedgerThreads :
        /\ Rising(S[x]) /\ Len(S[x]) = k[x]
        /\ S[x][k[x]] = After(T[x][Len(T[x])], T[x][k[x]].total)
  <2>. TAKE x \in LedgerThreads
  <2>1. PICK s, n, z : s = T[x] /\ n = k[x] /\ z = S[x]
    OBVIOUS
  <2>2. Rising(s) /\ n \in 1..Len(s) /\ z = [SubSeq(s, 1, n) EXCEPT ![n] = After(s[Len(s)], s[n].total)]
    BY <1>5, <1>6, <1>8, <2>1
  <2>3. Rising(z) /\ Len(z) = n /\ z[n] = After(s[Len(s)], s[n].total)
    BY <2>2, RisingResumed
  <2>. QED  BY <2>1, <2>3
<1>10. Histories(S) /\ \A x \in LedgerThreads : k[x] \in 1..Len(S[x])
  BY <1>6, <1>7, <1>9 DEF Histories
<1>11. Owing(u, d, S, k)
  <2>. DEFINE last == [x \in LedgerThreads |-> Len(T[x])]
              h == [g \in Points(S, k) |-> last]
  <2>1. last \in Points(T, r)
    BY <1>4, <1>5 DEF Points
  <2>2. ASSUME NEW g \in Points(S, k), NEW x \in LedgerThreads
        PROVE  Rise(u[x], S[x][g[x]].total) + T[x][h[g][x]].risen <= S[x][g[x]].risen + Rise(u[x], T[x][h[g][x]].total)
    <3>1. g[x] = k[x]
      BY <1>6, <1>9 DEF Points
    <3>2. h[g][x] = Len(T[x])
      OBVIOUS
    <3>3. PICK l, n : l = T[x][Len(T[x])] /\ n = T[x][k[x]].total
      OBVIOUS
    <3>4. S[x][g[x]] = After(l, n) /\ T[x][h[g][x]] = l
      BY <1>9, <3>1, <3>2, <3>3
    <3>5. l \in SessionTotals /\ T[x][k[x]] \in SessionTotals
      BY <1>5, <1>6, <3>3
    <3>6. PICK a, b, c : a = l.total /\ b = l.risen /\ c = u[x]
      OBVIOUS
    <3>7. a \in Nat /\ b \in Nat /\ c \in Nat /\ n \in Nat
      BY <1>4, <3>3, <3>5, <3>6 DEF SessionTotals, Numbers
    <3>8. /\ Rise(c, n) <= Rise(c, a) + Rise(a, n)
          /\ Rise(c, n) \in Nat /\ Rise(c, a) \in Nat /\ Rise(a, n) \in Nat
      BY <3>7, RisesAdd, RiseType
    <3>9. Rise(c, n) + b <= (b + Rise(a, n)) + Rise(c, a)
      BY <3>7, <3>8
    <3>. QED  BY <3>4, <3>6, <3>9 DEF After
  <2>3. Reports(T, r) /\ Reports(S, k)
    BY <1>4, <1>10 DEF Reports
  <2>4. \A g \in Points(S, k) : h[g] \in Points(T, r)
    BY <2>1
  <2>5. Owing(u, d, T, r)
    BY <1>3 DEF LedgerInv
  <2>. HIDE DEF h
  <2>6. Covers(u, T, r, S, k, h)
    BY <2>2, <2>4 DEF Covers
  <2>. QED  BY <1>4, <2>3, <2>5, <2>6, OwingKept
<1>12. SessionsRise'
  <2>1. k \in Numbers
    BY <1>2, <1>6 DEF Numbers
  <2>. QED  BY <1>2, <1>3, <1>10, <2>1 DEF SessionsRise, Histories
<1>13. SavesReported'
  BY <1>1 DEF SavesReported
<1>14. LedgerNumbers' /\ Total(usage'.threads) <= usage'.days
  BY <1>1 DEF LedgerInv, LedgerNumbers
<1>15. Owing(usage'.threads, usage'.days, totals', reported')
  BY <1>1, <1>2, <1>3, <1>11
<1>. QED  BY <1>12, <1>13, <1>14, <1>15 DEF LedgerInv

\* A report is written: what the days grow by, the thread has risen by.
LEMMA CountedKeeps ==
  ASSUME NEW u \in Numbers, NEW d \in Nat, NEW T, NEW r \in Numbers, Reports(T, r), Owing(u, d, T, r),
         Total(u) <= d, NEW t \in LedgerThreads,
         NEW v, NEW x, x = T[t][r[t]].total, v = [u EXCEPT ![t] = x], NEW e, e = d + Rise(u[t], x)
  PROVE  v \in Numbers /\ e \in Nat /\ Total(v) <= e /\ Owing(v, e, T, r)
<1>1. Histories(T) /\ \A y \in LedgerThreads : r[y] \in 1..Len(T[y])
  BY DEF Reports
<1>2. T[t][r[t]] \in SessionTotals /\ Rising(T[t]) /\ T[t] \in Seq(SessionTotals)
  BY <1>1 DEF Histories, Rising
<1>3. x \in Nat /\ u[t] \in Nat
  BY <1>2 DEF SessionTotals, Numbers
<1>4. Rise(u[t], x) \in Nat /\ x <= u[t] + Rise(u[t], x)
  BY <1>3, RiseType
<1>5. v \in Numbers /\ v[t] = x /\ \A y \in LedgerThreads \ {t} : v[y] = u[y]
  BY <1>3 DEF Numbers
<1>6. e \in Nat
  BY <1>4
<1>7. Total(v) <= e
  <2>1. Total(v) + u[t] = Total(u) + v[t] /\ Total(v) \in Nat /\ Total(u) \in Nat
    BY <1>5, TotalChanges, TotalType DEF Numbers
  <2>. QED  BY <1>3, <1>4, <1>5, <2>1
<1>8. ASSUME NEW g \in Points(T, r) PROVE e + Total(Added(v, T, g)) <= Total(RisenBy(T, g))
  <2>1. PICK p : p = [g EXCEPT ![t] = r[t]]
    OBVIOUS
  <2>2. g \in Numbers /\ p \in Numbers /\ p[t] = r[t] /\ \A y \in LedgerThreads \ {t} : p[y] = g[y]
    BY <2>1 DEF Points, Numbers
  <2>3. p \in Points(T, r)
    <3>1. \A y \in LedgerThreads : r[y] \in Nat /\ r[y] <= r[y] /\ r[y] <= Len(T[y])
      BY <1>1 DEF Numbers
    <3>. QED  BY <2>2, <3>1 DEF Points, Numbers
  <2>4. PICK a, b, c, k : a = Added(v, T, g) /\ b = RisenBy(T, g) /\ c = Added(u, T, p) /\ k = RisenBy(T, p)
    OBVIOUS
  <2>5. /\ a \in Numbers /\ b \in Numbers
        /\ \A y \in LedgerThreads : /\ g[y] \in 1..Len(T[y]) /\ r[y] <= g[y] /\ T[y][g[y]] \in SessionTotals
                                    /\ a[y] = Rise(v[y], T[y][g[y]].total) /\ b[y] = T[y][g[y]].risen
    <3>1. PICK w : w = v
      OBVIOUS
    <3>2. w \in Numbers
      BY <1>5, <3>1
    <3>3. /\ Added(w, T, g) \in Numbers /\ RisenBy(T, g) \in Numbers
          /\ \A y \in LedgerThreads : /\ g[y] \in 1..Len(T[y]) /\ r[y] <= g[y] /\ T[y][g[y]] \in SessionTotals
                                      /\ Added(w, T, g)[y] = Rise(w[y], T[y][g[y]].total)
                                      /\ RisenBy(T, g)[y] = T[y][g[y]].risen
      BY <1>1, <1>8, <3>2, PointTypes
    <3>. QED  BY <2>4, <3>1, <3>3
  <2>6. /\ c \in Numbers /\ k \in Numbers
        /\ \A y \in LedgerThreads : c[y] = Rise(u[y], T[y][p[y]].total) /\ k[y] = T[y][p[y]].risen
    BY <1>1, <2>3, <2>4, PointTypes
  <2>7. \A y \in LedgerThreads \ {t} : a[y] = c[y] /\ b[y] = k[y]
    BY <1>5, <2>2, <2>5, <2>6
  <2>8. c[t] = Rise(u[t], x) /\ k[t] = T[t][r[t]].risen /\ a[t] = Rise(x, T[t][g[t]].total) /\ b[t] = T[t][g[t]].risen
    BY <1>5, <2>2, <2>5, <2>6
  <2>9. k[t] + a[t] <= b[t]
    <3>1. r[t] \in 1..Len(T[t]) /\ g[t] \in 1..Len(T[t]) /\ r[t] <= g[t]
      BY <1>1, <2>5
    <3>2. T[t][r[t]].risen + Rise(T[t][r[t]].total, T[t][g[t]].total) <= T[t][g[t]].risen
      BY <1>2, <3>1 DEF Rising
    <3>. QED  BY <2>8, <3>2
  <2>10. /\ Total(a) + c[t] = Total(c) + a[t] /\ Total(b) + k[t] = Total(k) + b[t]
    <3>1. /\ a \in [LedgerThreads -> Nat] /\ b \in [LedgerThreads -> Nat]
          /\ c \in [LedgerThreads -> Nat] /\ k \in [LedgerThreads -> Nat]
      BY <2>5, <2>6 DEF Numbers
    <3>2. \A y \in LedgerThreads \ {t} : a[y] = c[y]
      BY <2>7
    <3>3. \A y \in LedgerThreads \ {t} : b[y] = k[y]
      BY <2>7
    <3>4. Total(a) + c[t] = Total(c) + a[t]
      BY <3>1, <3>2, TotalChanges
    <3>5. Total(b) + k[t] = Total(k) + b[t]
      BY <3>1, <3>3, TotalChanges
    <3>. QED  BY <3>4, <3>5
  <2>11. /\ Total(a) \in Nat /\ Total(b) \in Nat /\ Total(c) \in Nat /\ Total(k) \in Nat
         /\ a[t] \in Nat /\ b[t] \in Nat /\ c[t] \in Nat /\ k[t] \in Nat
    BY <2>5, <2>6, TotalType DEF Numbers
  <2>12. d + Total(c) <= Total(k)
    BY <2>3, <2>4 DEF Owing
  <2>13. e = d + c[t]
    BY <2>8
  <2>14. e + Total(a) <= Total(b)
    BY <2>9, <2>10, <2>11, <2>12, <2>13
  <2>. QED  BY <2>4, <2>14
<1>9. Owing(v, e, T, r)
  BY <1>8 DEF Owing
<1>. QED  BY <1>5, <1>6, <1>7, <1>9

LEMMA SaveStep ==
  ASSUME LedgerInv, SaveNext
  PROVE  LedgerInv'
<1>1. /\ totals' = totals /\ reported' = reported
      /\ saving' = Tail(saving) /\ saving # <<>>
  BY DEF SaveNext
<1>2. PICK t \in LedgerThreads :
        \/ \E c : saving = <<SaveContext(t, c)>>
        \/ saving = <<SaveUsage(t, totals[t][reported[t]].total)>>
        \/ \E c : saving = <<SaveContext(t, c), SaveUsage(t, totals[t][reported[t]].total)>>
  BY <1>1 DEF LedgerInv, SavesReported
<1>3. SavesReported'
  <2>1. \A x, y : Tail(<<x>>) = <<>> /\ Tail(<<x, y>>) = <<y>>
    OBVIOUS
  <2>2. saving' = <<>> \/ saving' = <<SaveUsage(t, totals[t][reported[t]].total)>>
    BY <1>1, <1>2, <2>1
  <2>. QED  BY <1>1, <2>2 DEF SavesReported
<1>4. SessionsRise'
  BY <1>1 DEF LedgerInv, SessionsRise
<1>5. CASE usage' = usage
  BY <1>1, <1>3, <1>4, <1>5 DEF LedgerInv, LedgerNumbers
<1>6. CASE usage' # usage
  <2>1. Head(saving).file = "usage" /\ usage' = Counted(usage, Head(saving).thread, Head(saving).total)
    BY <1>6 DEF SaveNext
  <2>2. Head(saving) = SaveUsage(t, totals[t][reported[t]].total)
    <3>1. \A c : SaveContext(t, c).file = "context"
      BY DEF SaveContext
    <3>2. \A x, y : Head(<<x>>) = x /\ Head(<<x, y>>) = x
      OBVIOUS
    <3>. QED  BY <1>2, <2>1, <3>1, <3>2
  <2>3. usage' = Counted(usage, t, totals[t][reported[t]].total)
    BY <2>1, <2>2 DEF SaveUsage
  <2>4. PICK u, d, T, r, x : u = usage.threads /\ d = usage.days /\ T = totals /\ r = reported /\ x = T[t][r[t]].total
    OBVIOUS
  <2>5. PICK v, e : v = usage'.threads /\ e = usage'.days
    OBVIOUS
  <2>6. usage' = [threads |-> v, days |-> e] /\ v = [u EXCEPT ![t] = x] /\ e = d + Rise(u[t], x)
    BY <2>3, <2>4, <2>5 DEF Counted
  <2>7. Reports(T, r) /\ r \in Numbers /\ u \in Numbers /\ d \in Nat /\ Total(u) <= d /\ Owing(u, d, T, r)
    BY <2>4, SessionsAre DEF LedgerInv, LedgerNumbers, Reports
  <2>8. v \in Numbers /\ e \in Nat /\ Total(v) <= e /\ Owing(v, e, T, r)
    BY <2>4, <2>6, <2>7, CountedKeeps
  <2>9. LedgerNumbers'
    BY <2>5, <2>6, <2>8 DEF LedgerNumbers
  <2>10. Total(usage'.threads) <= usage'.days /\ Owing(usage'.threads, usage'.days, totals', reported')
    BY <1>1, <2>4, <2>5, <2>8
  <2>. QED  BY <1>3, <1>4, <2>9, <2>10 DEF LedgerInv
<1>. QED  BY <1>5, <1>6

\* No rise of a thread's total is in the days twice, and none of the threads'
\* totals is missing in them: whatever usages and estimates the sessions report,
\* whatever reports are dropped, late or made again, and whatever of a rollout,
\* of a file or of a save is lost when the process is killed.
THEOREM LedgerStaysBalanced == LedgerSpec => []LedgerBalanced
<1>1. LedgerInv /\ [LedgerNext]_ledgerVars => LedgerInv'
  <2>. SUFFICES ASSUME LedgerInv, [LedgerNext]_ledgerVars PROVE LedgerInv'
    OBVIOUS
  <2>1. CASE UNCHANGED ledgerVars
    BY <2>1 DEF ledgerVars, LedgerInv, LedgerNumbers, SessionsRise, SavesReported
  <2>2. ASSUME NEW t \in LedgerThreads, Spend(t) PROVE LedgerInv'
    <3>1. Latest(t).total + 1 \in Nat
      <4>1. Rising(totals[t])
        BY DEF LedgerInv, SessionsRise
      <4>2. Latest(t) \in SessionTotals
        BY <4>1 DEF Rising, Latest
      <4>. QED  BY <4>2 DEF SessionTotals
    <3>. QED  BY <2>2, <3>1, NewTotalStep DEF Spend
  <2>3. ASSUME NEW t \in LedgerThreads, Recompute(t) PROVE LedgerInv'
    <3>1. PICK new \in 0..MaxTokens : NewTotal(t, new)
      BY <2>3 DEF Recompute
    <3>2. new \in Nat
      BY LedgerAssumption
    <3>. QED  BY <3>1, <3>2, NewTotalStep
  <2>4. ASSUME NEW t \in LedgerThreads, UsageUpdated(t) PROVE LedgerInv'
    BY <2>4, UsageUpdatedStep
  <2>5. ASSUME NEW t \in LedgerThreads, Archive(t) PROVE LedgerInv'
    BY <2>5, ArchiveStep
  <2>6. CASE SaveNext
    BY <2>6, SaveStep
  <2>7. CASE LedgerKill
    BY <2>7, LedgerKillStep
  <2>. QED  BY <2>1, <2>2, <2>3, <2>4, <2>5, <2>6, <2>7 DEF LedgerNext
<1>2. LedgerInv => LedgerBalanced
  <2>. SUFFICES ASSUME LedgerInv PROVE LedgerBalanced
    OBVIOUS
  <2>1. PICK T, r, u, d : T = totals /\ r = reported /\ u = usage.threads /\ d = usage.days
    OBVIOUS
  <2>2. Reports(T, r) /\ Histories(T) /\ r \in Numbers /\ u \in Numbers /\ d \in Nat /\ Owing(u, d, T, r)
    BY <2>1, SessionsAre DEF LedgerInv, LedgerNumbers, Reports
  <2>3. PICK g : g = [t \in LedgerThreads |-> Len(T[t])]
    OBVIOUS
  <2>4. g \in Points(T, r)
    BY <2>2, <2>3 DEF Points, Reports, Histories, Rising
  <2>5. RisenBy(T, g) = [t \in LedgerThreads |-> Latest(t).risen]
    BY <2>1, <2>3 DEF RisenBy, Latest
  <2>6. PICK a, b : a = Added(u, T, g) /\ b = RisenBy(T, g)
    OBVIOUS
  <2>7. a \in Numbers /\ b \in Numbers
    BY <2>2, <2>4, <2>6, PointTypes DEF Reports
  <2>8. Total(a) \in Nat /\ Total(b) \in Nat /\ d + Total(a) <= Total(b)
    BY <2>2, <2>4, <2>6, <2>7, TotalType DEF Owing, Numbers
  <2>9. d <= Total(b)
    BY <2>2, <2>8
  <2>. QED  BY <2>1, <2>5, <2>6, <2>9 DEF LedgerInv, LedgerBalanced
<1>. QED  BY LedgerStart, <1>1, <1>2, PTL DEF LedgerSpec

-----------------------------------------------------------------------------
(* The skills: types *)

FileSteps == {"copy", "manifest", "unlink", "rmdir"}
DirSteps == FileSteps \cup {"on", "off", "set", "kept"}
Doings == DirSteps \cup {"registry", "marker", "tell", "list"}
Steps == {w \in [do : Doings, dir : Dirs \cup {NoDir},
                 src : Sources, reg : SUBSET Entries] : w.do \in DirSteps => w.dir \in Dirs}

FlowPlaces == {"idle", "read", "scan", "check", "download", "copy", "copying", "copied"}
CopyPlaces == {"copy", "copying", "copied"}
FlowStates == {g \in [pc : FlowPlaces, src : Sources, dir : Dirs \cup {NoDir}, left : SUBSET Dirs,
                      read : SUBSET Entries, new : SUBSET Entries, stale : BOOLEAN] :
                 g.pc \in CopyPlaces => g.dir \in Dirs}

SkillFilesOK ==
  /\ entries \in SUBSET Entries /\ halfWritten \in BOOLEAN
  /\ files \in [Dirs -> {"none", "some", "skill"}]
  /\ off \in SUBSET Dirs /\ bundledMarker \in BOOLEAN
SkillPageOK == installedStore \in SUBSET Entries /\ listed \in BOOLEAN
SkillPastOK == told \in SUBSET Entries /\ lost \in SUBSET Dirs /\ halved \in SUBSET Dirs /\ spoiled \in BOOLEAN
SkillsTypeOK ==
  /\ SkillFilesOK
  /\ phase \in {"boot", "timer", "open"}
  /\ writes \in Seq(Steps)
  /\ flow \in [Flows -> FlowStates]
  /\ skillHalts \in Nat
  /\ SkillPageOK
  /\ SkillPastOK

LEMMA EntryType ==
  ASSUME NEW s \in Sources, NEW d \in Dirs, NEW b \in BOOLEAN
  PROVE  /\ Entry(s, d, b) \in Entries
         /\ Entry(s, d, b).src = s /\ Entry(s, d, b).dir = d /\ Entry(s, d, b).on = b
BY DEF Entry, Entries

LEMMA EntryFields ==
  ASSUME NEW e \in Entries
  PROVE  e.src \in Sources /\ e.dir \in Dirs /\ e.on \in BOOLEAN /\ e = Entry(e.src, e.dir, e.on)
BY DEF Entries, Entry

LEMMA SomeSources == {"local", "zip", "bundled"} \subseteq Sources /\ Repos \subseteq Sources /\ Kinds \subseteq Sources
BY SkillsAssumption DEF Sources

LEMMA StepType ==
  ASSUME NEW what \in Doings, NEW d \in Dirs \cup {NoDir},
         NEW s \in Sources, NEW R \in SUBSET Entries, what \in DirSteps => d \in Dirs
  PROVE  /\ Step(what, d, s, R) \in Steps
         /\ Step(what, d, s, R).do = what /\ Step(what, d, s, R).dir = d
         /\ Step(what, d, s, R).src = s /\ Step(what, d, s, R).reg = R
BY DEF Step, Steps

LEMMA StepFields ==
  ASSUME NEW w \in Steps
  PROVE  /\ w.do \in Doings
         /\ w.src \in Sources /\ w.reg \in SUBSET Entries
         /\ w.do \in DirSteps => w.dir \in Dirs
BY DEF Steps

LEMMA OneStep ==
  ASSUME NEW R \in SUBSET Entries, NEW d \in Dirs, NEW s \in Sources, NEW b \in BOOLEAN
  PROVE  /\ SaveSkills(R) \in Seq(Steps) /\ Tell(R) \in Seq(Steps) /\ MarkBundled \in Seq(Steps) /\ ReadList \in Seq(Steps)
         /\ TellSet(Entry(s, d, b), R) \in Seq(Steps) /\ TellKept(Entry(s, d, b), R) \in Seq(Steps)
         /\ SetConfig(Entry(s, d, b)) \in Seq(Steps) /\ CopyDir(s, d) \in Seq(Steps) /\ RemoveDir(d) \in Seq(Steps)
<1>1. \A w \in Steps : <<w>> \in Seq(Steps)
  OBVIOUS
<1>2. \A v, w \in Steps : <<v, w>> \in Seq(Steps)
  OBVIOUS
<1>3. <<>> \in Seq(Steps)
  OBVIOUS
<1>4. {} \in SUBSET Entries /\ "local" \in Sources
  BY SomeSources
<1>5. SaveSkills(R) \in Seq(Steps) /\ Tell(R) \in Seq(Steps) /\ MarkBundled \in Seq(Steps) /\ ReadList \in Seq(Steps)
  BY <1>1, <1>4, StepType DEF SaveSkills, Tell, MarkBundled, ReadList, Doings, DirSteps, FileSteps
<1>6. SetConfig(Entry(s, d, b)) \in Seq(Steps)
  BY <1>1, <1>4, StepType, EntryType DEF SetConfig, Doings, DirSteps
<1>7. CopyDir(s, d) \in Seq(Steps)
  BY <1>2, <1>4, StepType DEF CopyDir, Doings, DirSteps, FileSteps
<1>8. RemoveDir(d) \in Seq(Steps)
  BY <1>2, <1>3, <1>4, StepType DEF RemoveDir, Doings, DirSteps, FileSteps
<1>9. TellSet(Entry(s, d, b), R) \in Seq(Steps) /\ TellKept(Entry(s, d, b), R) \in Seq(Steps)
  <2>1. Entry(s, d, b).dir = d /\ Entry(s, d, b).src = s
    BY EntryType
  <2>2. Step("set", d, s, R) \in Steps /\ Step("kept", d, s, R) \in Steps
    BY StepType DEF Doings, DirSteps
  <2>. QED  BY <1>1, <2>1, <2>2 DEF TellSet, TellKept
<1>. QED  BY <1>5, <1>6, <1>7, <1>8, <1>9

LEMMA JoinedType == ASSUME NEW v \in Seq(Steps), NEW w \in Seq(Steps) PROVE v \o w \in Seq(Steps)
OBVIOUS

LEMMA NewLocalType == ASSUME NEW R PROVE NewLocal(R) \in SUBSET Entries
<1>1. \A d \in Dirs : Entry("local", d, TRUE) \in Entries
  BY EntryType, SomeSources
<1>. QED  BY <1>1 DEF NewLocal

LEMMA ListsType ==
  ASSUME NEW R \in SUBSET Entries, NEW e \in Entries
  PROVE  /\ Upsert(R, e) \in SUBSET Entries /\ Without(R, e) \in SUBSET Entries
         /\ Valid(R) \in SUBSET Entries /\ NewLocal(R) \in SUBSET Entries /\ Reconciled(R) \in SUBSET Entries
<1>1. /\ Upsert(R, e) \in SUBSET Entries /\ Without(R, e) \in SUBSET Entries
      /\ \A S \in SUBSET Entries : Valid(S) \in SUBSET Entries
  BY DEF Upsert, Without, Valid
<1>. QED  BY <1>1, NewLocalType DEF Reconciled

LEMMA RegisteredType == SkillsTypeOK => Registered \in SUBSET Entries
  BY DEF SkillsTypeOK, SkillFilesOK, Registered

LEMMA ReconcileWritesType == ASSUME NEW R \in SUBSET Entries PROVE ReconcileWrites(R) \in Seq(Steps)
<1>1. Valid(R) \in SUBSET Entries /\ Reconciled(R) \in SUBSET Entries
  BY NewLocalType DEF Valid, Reconciled
<1>2. SaveSkills(Valid(R)) \in Seq(Steps) /\ SaveSkills(Reconciled(R)) \in Seq(Steps) /\ <<>> \in Seq(Steps)
  <2>1. \A S \in SUBSET Entries : SaveSkills(S) \in Seq(Steps)
    <3>1. {} \in SUBSET Entries /\ "local" \in Sources
      BY SomeSources
    <3>. QED  BY <3>1, StepType DEF SaveSkills, Doings, DirSteps, FileSteps
  <2>. QED  BY <1>1, <2>1
<1>. QED  BY <1>2, JoinedType DEF ReconcileWrites

LEMMA BundledType ==
  /\ BundledEntries \in SUBSET Entries
  /\ CopyBundled \in Seq(Steps) /\ Len(CopyBundled) = 2 * Len(Bundled)
  /\ \A i \in 1..2 * Len(Bundled) : CopyBundled[i].do \in {"copy", "manifest"}
  /\ \A e \in BundledEntries : /\ e.src = "bundled" /\ e.on
                               /\ \E i \in 1..2 * Len(Bundled) : CopyBundled[i].do = "manifest" /\ CopyBundled[i].dir = e.dir
<1>1. PICK n \in Nat : n = Len(Bundled) /\ \A i \in 1..n : Bundled[i] \in Dirs
  BY SkillsAssumption
<1>2. DOMAIN Bundled = 1..n
  BY <1>1, SkillsAssumption
<1>3. \A i \in 1..n : Entry("bundled", Bundled[i], TRUE) \in Entries
  BY <1>1, EntryType, SomeSources
<1>4. BundledEntries \in SUBSET Entries
  BY <1>2, <1>3 DEF BundledEntries
<1>5. PICK c : c = CopyBundled
  OBVIOUS
<1>6. c = [i \in 1..2 * n |-> CopyDir("bundled", Bundled[(i + 1) \div 2])[2 - (i % 2)]]
  BY <1>1, <1>5 DEF CopyBundled
<1>7. \A d \in Dirs : /\ CopyDir("bundled", d)[1] \in Steps /\ CopyDir("bundled", d)[1].do = "copy"
                      /\ CopyDir("bundled", d)[2] \in Steps /\ CopyDir("bundled", d)[2].do = "manifest"
                      /\ CopyDir("bundled", d)[2].dir = d
  <2>. TAKE d \in Dirs
  <2>1. {} \in SUBSET Entries /\ "bundled" \in Sources
    BY SomeSources
  <2>2. CopyDir("bundled", d) = <<Step("copy", d, "bundled", {}), Step("manifest", d, "bundled", {})>>
    BY DEF CopyDir
  <2>. QED  BY <2>1, <2>2, StepType DEF Doings, DirSteps, FileSteps
<1>8. ASSUME NEW i \in 1..2 * n PROVE c[i] \in Steps /\ c[i].do \in {"copy", "manifest"}
  <2>1. (i + 1) \div 2 \in 1..n
    BY <1>1
  <2>2. PICK k, d : k = 2 - (i % 2) /\ d = Bundled[(i + 1) \div 2]
    OBVIOUS
  <2>3. k \in {1, 2} /\ d \in Dirs
    BY <1>1, <2>1, <2>2
  <2>4. c[i] = CopyDir("bundled", d)[k]
    BY <1>6, <2>2
  <2>. QED  BY <1>7, <2>3, <2>4
<1>9. c \in Seq(Steps) /\ Len(c) = 2 * n
  <2>1. 2 * n \in Nat /\ c \in [1..2 * n -> Steps]
    BY <1>1, <1>6, <1>8
  <2>. QED  BY <2>1, IsASeq
<1>10. ASSUME NEW e \in BundledEntries
       PROVE  e.src = "bundled" /\ e.on /\ \E i \in 1..2 * n : c[i].do = "manifest" /\ c[i].dir = e.dir
  <2>1. PICK j \in 1..n : e = Entry("bundled", Bundled[j], TRUE)
    BY <1>2 DEF BundledEntries
  <2>2. e.src = "bundled" /\ e.on /\ e.dir = Bundled[j]
    BY <1>1, <2>1, EntryType, SomeSources
  <2>3. PICK i : i = 2 * j
    OBVIOUS
  <2>4. i \in 1..2 * n /\ (i + 1) \div 2 = j /\ 2 - (i % 2) = 2
    BY <1>1, <2>3
  <2>5. c[i] = CopyDir("bundled", Bundled[j])[2]
    BY <1>6, <2>4
  <2>. QED  BY <1>1, <1>7, <2>2, <2>4, <2>5
<1>. QED  BY <1>1, <1>4, <1>5, <1>8, <1>9, <1>10

\* What a call returns with, when it is planned.
LEMMA JustCalled ==
  ASSUME SkillsTypeOK, writes' \in Seq(Steps), UNCHANGED <<skillDisk, flow, skillPage, skillHalts, lost, halved, spoiled>>,
         phase' \in {"boot", "timer", "open"}, told' \in SUBSET Entries
  PROVE  SkillsTypeOK'
BY DEF SkillsTypeOK, SkillFilesOK, SkillPageOK, SkillPastOK, skillDisk, skillPage

LEMMA RetoldType ==
  ASSUME SkillsTypeOK, NEW e \in Entries
  PROVE  Retold(e) \in SUBSET Entries /\ ToldAs(e) \in SUBSET Entries
BY DEF SkillsTypeOK, SkillPastOK, Retold, ToldAs

LEMMA CallTypes ==
  ASSUME SkillsTypeOK
  PROVE  /\ ReconcileAtStart \/ InstallBundled \/ LoadInstalled => SkillsTypeOK'
         /\ \A e \in installedStore : Uninstall(e) \/ Toggle(e) => SkillsTypeOK'
<1>1. Registered \in SUBSET Entries /\ installedStore \in SUBSET Entries /\ told \in SUBSET Entries /\ phase \in {"boot", "timer", "open"}
  BY RegisteredType DEF SkillsTypeOK, SkillPageOK, SkillPastOK
<1>2. \A S \in SUBSET Entries : SaveSkills(S) \in Seq(Steps) /\ Tell(S) \in Seq(Steps)
  <2>1. {} \in SUBSET Entries /\ "local" \in Sources
    BY SomeSources
  <2>. QED  BY <2>1, StepType DEF SaveSkills, Tell, Doings, DirSteps, FileSteps
<1>3. ReadList \in Seq(Steps) /\ MarkBundled \in Seq(Steps) /\ <<>> \in Seq(Steps)
  <2>1. {} \in SUBSET Entries /\ "local" \in Sources
    BY SomeSources
  <2>. QED  BY <2>1, StepType DEF ReadList, MarkBundled, Doings, DirSteps, FileSteps
<1>4. ASSUME ReconcileAtStart PROVE SkillsTypeOK'
  <2>1. writes' \in Seq(Steps)
    BY <1>1, <1>4, ReconcileWritesType DEF ReconcileAtStart
  <2>. QED  BY <1>1, <1>4, <2>1, JustCalled DEF ReconcileAtStart, skillPast
<1>5. ASSUME InstallBundled PROVE SkillsTypeOK'
  <2>1. told \cup BundledEntries \in SUBSET Entries
    BY <1>1, BundledType
  <2>2. CopyBundled \o SaveSkills(BundledEntries) \o MarkBundled \o Tell(told \cup BundledEntries) \in Seq(Steps)
    BY <1>2, <1>3, <2>1, BundledType, JoinedType
  <2>3. writes' \in Seq(Steps)
    BY <1>3, <1>5, <2>2 DEF InstallBundled
  <2>. QED  BY <1>1, <1>5, <2>3, JustCalled DEF InstallBundled, skillPast
<1>6. ASSUME LoadInstalled PROVE SkillsTypeOK'
  <2>1. {} \in SUBSET Entries
    OBVIOUS
  <2>2. ReconcileWrites({}) \in Seq(Steps)
    BY <2>1, ReconcileWritesType
  <2>3. writes' \in Seq(Steps)
    BY <1>3, <1>6, <2>2, JoinedType DEF LoadInstalled
  <2>. QED  BY <1>1, <1>6, <2>3, JustCalled DEF LoadInstalled, skillPast
<1>7. ASSUME NEW e \in installedStore, Uninstall(e) PROVE SkillsTypeOK'
  <2>1. PICK x \in Registered : /\ told' = told \ Of(told, x.dir)
                                /\ writes' = RemoveDir(x.dir) \o SaveSkills(Without(Registered, x)) \o Tell(told')
    BY <1>7 DEF Uninstall
  <2>2. x \in Entries /\ x.dir \in Dirs /\ Without(Registered, x) \in SUBSET Entries /\ told' \in SUBSET Entries
    BY <1>1, <2>1, EntryFields, ListsType
  <2>3. "local" \in Sources /\ TRUE \in BOOLEAN
    BY SomeSources
  <2>4. RemoveDir(x.dir) \in Seq(Steps)
    BY <2>2, <2>3, OneStep
  <2>5. writes' \in Seq(Steps)
    BY <1>2, <2>1, <2>2, <2>4, JoinedType
  <2>. QED  BY <1>1, <1>7, <2>2, <2>5, JustCalled DEF Uninstall
<1>8. ASSUME NEW e \in installedStore, Toggle(e) PROVE SkillsTypeOK'
  <2>0. PICK x \in Registered : LET set == [x EXCEPT !.on = ~e.on] IN
                                 /\ writes' = SaveSkills(Upsert(Registered, set)) \o SetConfig(set) \o TellSet(set, ToldAs(set))
                                 /\ told' = told \cup ToldAs(e) \cup ToldAs(set)
    BY <1>8 DEF Toggle
  <2>1. PICK set : /\ set = [x EXCEPT !.on = ~e.on]
                   /\ writes' = SaveSkills(Upsert(Registered, set)) \o SetConfig(set) \o TellSet(set, ToldAs(set))
                   /\ told' = told \cup ToldAs(e) \cup ToldAs(set)
    BY <2>0
  <2>2. PICK b \in BOOLEAN : b = ~e.on
    OBVIOUS
  <2>3. set \in Entries /\ set = Entry(set.src, set.dir, set.on) /\ set.src \in Sources /\ set.dir \in Dirs /\ set.on \in BOOLEAN
    BY <1>1, <2>0, <2>1, <2>2 DEF Entries, Entry
  <2>4. Upsert(Registered, set) \in SUBSET Entries /\ ToldAs(set) \in SUBSET Entries
    BY <1>1, <2>3, ListsType, RetoldType
  <2>5. SetConfig(set) \in Seq(Steps) /\ TellSet(set, ToldAs(set)) \in Seq(Steps)
    BY <2>3, <2>4, OneStep
  <2>6. writes' \in Seq(Steps)
    BY <1>2, <2>1, <2>4, <2>5, JoinedType
  <2>7. told' \in SUBSET Entries
    <3>1. e \in Entries
      BY <1>1
    <3>2. ToldAs(e) \in SUBSET Entries
      BY <3>1, RetoldType
    <3>. QED  BY <1>1, <2>1, <2>4, <3>2
  <2>. QED  BY <1>1, <1>8, <2>6, <2>7, JustCalled DEF Toggle
<1>. QED  BY <1>4, <1>5, <1>6, <1>7, <1>8

LEMMA FlowTyped ==
  ASSUME NEW g \in FlowStates
  PROVE  /\ g.pc \in FlowPlaces /\ g.src \in Sources /\ g.dir \in Dirs \cup {NoDir} /\ g.left \in SUBSET Dirs
         /\ g.read \in SUBSET Entries /\ g.new \in SUBSET Entries /\ g.stale \in BOOLEAN
         /\ g.pc \in CopyPlaces => g.dir \in Dirs
         /\ \A p \in FlowPlaces : (p \in CopyPlaces => g.pc \in CopyPlaces) => [g EXCEPT !.pc = p] \in FlowStates
         /\ \A p \in {"scan", "check"}, R \in SUBSET Entries : [g EXCEPT !.pc = p, !.read = R] \in FlowStates
         /\ \A s \in Sources, S \in SUBSET Dirs : [g EXCEPT !.pc = "read", !.src = s, !.left = S] \in FlowStates
         /\ \A S \in SUBSET Dirs : [g EXCEPT !.left = S] \in FlowStates
         /\ \A d \in Dirs, S \in SUBSET Dirs : [g EXCEPT !.pc = "copy", !.dir = d, !.left = S] \in FlowStates
         /\ \A R \in SUBSET Entries : [g EXCEPT !.pc = "check", !.dir = NoDir, !.new = R] \in FlowStates
         /\ \A b \in BOOLEAN : [g EXCEPT !.stale = b] \in FlowStates
BY DEF FlowStates, FlowPlaces, CopyPlaces

LEMMA IdleTyped == IdleFlow \in FlowStates
  BY SomeSources DEF IdleFlow, FlowStates, FlowPlaces, CopyPlaces

LEMMA SaveInstalledType ==
  ASSUME SkillsTypeOK, NEW R \in SUBSET Entries, NEW S \in SUBSET Entries, NEW f \in Flows, SaveInstalled(f, R, S)
  PROVE  writes' \in Seq(Steps) /\ spoiled' \in BOOLEAN
<1>1. {} \in SUBSET Entries /\ "local" \in Sources
  BY SomeSources
<1>2. SaveSkills(R) \in Seq(Steps) /\ Tell(S) \in Seq(Steps)
  BY <1>1, StepType DEF SaveSkills, Tell, Doings, DirSteps, FileSteps
<1>3. writes' \in Seq(Steps)
  BY <1>2, JoinedType DEF SaveInstalled
<1>4. flow[f].stale \in BOOLEAN /\ spoiled \in BOOLEAN
  BY FlowTyped DEF SkillsTypeOK, SkillPastOK
<1>. QED  BY <1>3, <1>4 DEF SaveInstalled

LEMMA FlowTypes ==
  ASSUME SkillsTypeOK, NEW f \in Flows, FlowStep(f)
  PROVE  SkillsTypeOK'
<1>1. /\ Registered \in SUBSET Entries /\ told \in SUBSET Entries /\ flow[f] \in FlowStates
      /\ flow \in [Flows -> FlowStates] /\ writes \in Seq(Steps) /\ spoiled \in BOOLEAN /\ IdleFlow \in FlowStates
      /\ phase \in {"boot", "timer", "open"} /\ skillHalts \in Nat /\ SkillFilesOK /\ SkillPageOK
      /\ lost \in SUBSET Dirs /\ halved \in SUBSET Dirs
  BY RegisteredType, IdleTyped DEF SkillsTypeOK, SkillPastOK
<1>2. ASSUME NEW g \in FlowStates, flow' = [flow EXCEPT ![f] = g], writes' \in Seq(Steps), spoiled' \in BOOLEAN,
             SkillFilesOK', told' \in SUBSET Entries, UNCHANGED <<phase, skillHalts, skillPage, lost, halved>>
      PROVE  SkillsTypeOK'
  BY <1>1, <1>2 DEF SkillsTypeOK, SkillPageOK, SkillPastOK, skillPage
<1>3. UNCHANGED skillDisk => SkillFilesOK'
  BY <1>1 DEF SkillFilesOK, skillDisk
<1>4. PICK g : g = flow[f]
  OBVIOUS
<1>5. g \in FlowStates
  BY <1>1, <1>4
<1>6. ASSUME NEW src \in Sources, NEW S \in SUBSET Dirs, BeginFlow(f, src, S) PROVE SkillsTypeOK'
  <2>1. flow' = [flow EXCEPT ![f] = [g EXCEPT !.pc = "read", !.src = src, !.left = S]]
    BY <1>4, <1>6 DEF BeginFlow
  <2>2. [g EXCEPT !.pc = "read", !.src = src, !.left = S] \in FlowStates
    BY <1>5, FlowTyped DEF FlowPlaces, CopyPlaces
  <2>3. {} \in SUBSET Entries /\ <<>> \in Seq(Steps)
    OBVIOUS
  <2>4. writes' \in Seq(Steps)
    BY <1>6, <2>3, ReconcileWritesType DEF BeginFlow
  <2>. QED  BY <1>1, <1>2, <1>3, <1>6, <2>1, <2>2, <2>4 DEF BeginFlow, skillPast
<1>7. ASSUME NEW d \in Dirs, NEW repo \in Repos, Install(f, repo, d) PROVE SkillsTypeOK'
  BY <1>6, <1>7, SomeSources DEF Install
<1>8. ASSUME NEW S \in SUBSET Dirs \ {{}}, NEW src \in Kinds, Import(f, src, S) PROVE SkillsTypeOK'
  BY <1>6, <1>8, SomeSources DEF Import
<1>9. ASSUME ReadInstalled(f) PROVE SkillsTypeOK'
  <2>1. PICK p \in {"scan", "check"} : flow' = [flow EXCEPT ![f] = [g EXCEPT !.pc = p, !.read = Registered]]
    BY <1>4, <1>9 DEF ReadInstalled
  <2>2. [g EXCEPT !.pc = p, !.read = Registered] \in FlowStates
    BY <1>1, <1>5, <2>1, FlowTyped DEF FlowPlaces, CopyPlaces
  <2>. QED  BY <1>1, <1>2, <1>3, <1>9, <2>1, <2>2 DEF ReadInstalled, skillPast
<1>10. ASSUME Scan(f) PROVE SkillsTypeOK'
  <2>1. flow' = [flow EXCEPT ![f] = [g EXCEPT !.pc = "check", !.read = NewLocal({})]]
    BY <1>4, <1>10 DEF Scan
  <2>2. [g EXCEPT !.pc = "check", !.read = NewLocal({})] \in FlowStates
    BY <1>1, <1>5, NewLocalType, FlowTyped DEF FlowPlaces, CopyPlaces
  <2>. QED  BY <1>1, <1>2, <1>3, <1>10, <2>1, <2>2 DEF Scan, skillPast
<1>11. ASSUME CheckInstall(f) PROVE SkillsTypeOK'
  <2>1. PICK d \in g.left :
          \/ flow' = [flow EXCEPT ![f].pc = "download"] /\ UNCHANGED <<writes, told, spoiled>>
          \/ \E e \in Of(g.read, d) :
               /\ flow' = [flow EXCEPT ![f] = IdleFlow]
               /\ \/ UNCHANGED <<writes, told, spoiled>>
                  \/ writes' = Tell(told) /\ UNCHANGED <<told, spoiled>>
                  \/ /\ Asked([e EXCEPT !.on = TRUE])
                     /\ SaveInstalled(f, Upsert(g.read, [e EXCEPT !.on = TRUE]), ToldAs([e EXCEPT !.on = TRUE]))
    BY <1>4, <1>11 DEF CheckInstall, Ends
  <2>2. CASE flow' = [flow EXCEPT ![f].pc = "download"] /\ UNCHANGED <<writes, told, spoiled>>
    <3>1. [g EXCEPT !.pc = "download"] \in FlowStates
      BY <1>5, FlowTyped DEF FlowPlaces, CopyPlaces
    <3>2. flow' = [flow EXCEPT ![f] = [g EXCEPT !.pc = "download"]]
      BY <1>4, <2>2
    <3>. QED  BY <1>1, <1>2, <1>3, <1>11, <2>2, <3>1, <3>2 DEF CheckInstall
  <2>3. ASSUME NEW e \in Of(g.read, d), flow' = [flow EXCEPT ![f] = IdleFlow],
               \/ UNCHANGED <<writes, told, spoiled>>
               \/ writes' = Tell(told) /\ UNCHANGED <<told, spoiled>>
               \/ /\ Asked([e EXCEPT !.on = TRUE])
                  /\ SaveInstalled(f, Upsert(g.read, [e EXCEPT !.on = TRUE]), ToldAs([e EXCEPT !.on = TRUE]))
        PROVE  SkillsTypeOK'
    <3>1. PICK set : set = [e EXCEPT !.on = TRUE]
      OBVIOUS
    <3>2. g.read \in SUBSET Entries /\ set \in Entries
      BY <1>5, <3>1, FlowTyped DEF Of, Entries
    <3>3. Upsert(g.read, set) \in SUBSET Entries /\ ToldAs(set) \in SUBSET Entries
      BY <3>2, ListsType, RetoldType
    <3>4. writes' \in Seq(Steps) /\ spoiled' \in BOOLEAN /\ told' \in SUBSET Entries
      <4>1. CASE UNCHANGED <<writes, told, spoiled>>
        BY <1>1, <4>1
      <4>2. CASE writes' = Tell(told) /\ UNCHANGED <<told, spoiled>>
        <5>1. {} \in SUBSET Entries /\ "local" \in Sources
          BY SomeSources
        <5>2. \A S \in SUBSET Entries : Tell(S) \in Seq(Steps)
          BY <5>1, StepType DEF Tell, Doings, DirSteps, FileSteps
        <5>. QED  BY <1>1, <4>2, <5>2
      <4>3. CASE Asked(set) /\ SaveInstalled(f, Upsert(g.read, set), ToldAs(set))
        BY <1>1, <3>3, <4>3, SaveInstalledType DEF Asked
      <4>. QED  BY <2>3, <3>1, <4>1, <4>2, <4>3
    <3>. QED  BY <1>1, <1>2, <1>3, <1>11, <2>3, <3>4 DEF CheckInstall
  <2>. QED  BY <2>1, <2>2, <2>3
<1>12. ASSUME Downloaded(f) PROVE SkillsTypeOK'
  <2>1. flow' = [flow EXCEPT ![f] = IdleFlow]
    BY <1>12 DEF Downloaded, Ends
  <2>2. writes' \in Seq(Steps) /\ told' \in SUBSET Entries
    <3>1. CASE UNCHANGED <<writes, told>>
      BY <1>1, <3>1
    <3>2. CASE ~UNCHANGED <<writes, told>>
      <4>1. PICK d \in g.left : LET e == Entry(g.src, d, TRUE) IN
              Asked(e) /\ writes' = CopyDir(e.src, d) \o SaveSkills(Upsert(Registered, e)) \o Tell(Retold(e))
        BY <1>4, <1>12, <3>2 DEF Downloaded
      <4>. DEFINE e == Entry(g.src, d, TRUE)
      <4>2. d \in Dirs /\ g.src \in Sources
        BY <1>5, FlowTyped
      <4>3. e \in Entries /\ e.src \in Sources
        BY <4>1, <4>2, EntryType
      <4>4. Upsert(Registered, e) \in SUBSET Entries /\ Retold(e) \in SUBSET Entries /\ ToldAs(e) \in SUBSET Entries
        BY <1>1, <4>3, ListsType, RetoldType
      <4>5. TRUE \in BOOLEAN
        OBVIOUS
      <4>6. CopyDir(e.src, d) \in Seq(Steps) /\ SaveSkills(Upsert(Registered, e)) \in Seq(Steps) /\ Tell(Retold(e)) \in Seq(Steps)
        BY <4>2, <4>3, <4>4, <4>5, OneStep
      <4>. QED  BY <1>1, <4>1, <4>4, <4>6, JoinedType DEF Asked
    <3>. QED  BY <3>1, <3>2
  <2>. QED  BY <1>1, <1>2, <1>3, <1>12, <2>1, <2>2 DEF Downloaded
<1>13. ASSUME NextSource(f) PROVE SkillsTypeOK'
  <2>1. UNCHANGED <<skillDisk, phase, skillPage, skillHalts, told, lost, halved>>
    BY <1>13 DEF NextSource
  <2>2. \/ /\ flow' = [flow EXCEPT ![f] = IdleFlow]
           /\ \/ writes' \in {<<>>, Tell(told)} /\ UNCHANGED spoiled
              \/ SaveInstalled(f, g.read \cup g.new, told \cup g.new)
        \/ \E d \in g.left :
             /\ \/ flow' = [flow EXCEPT ![f].left = g.left \ {d}]
                \/ flow' = [flow EXCEPT ![f] = IdleFlow]
                \/ flow' = [flow EXCEPT ![f].pc = "copy", ![f].dir = d, ![f].left = g.left \ {d}]
             /\ UNCHANGED <<writes, spoiled>>
    BY <1>4, <1>13 DEF NextSource, Ends
  <2>3. CASE /\ flow' = [flow EXCEPT ![f] = IdleFlow]
             /\ \/ writes' \in {<<>>, Tell(told)} /\ UNCHANGED spoiled
                \/ SaveInstalled(f, g.read \cup g.new, told \cup g.new)
    <3>1. g.read \cup g.new \in SUBSET Entries /\ told \cup g.new \in SUBSET Entries
      BY <1>1, <1>5, FlowTyped
    <3>2. <<>> \in Seq(Steps) /\ \A S \in SUBSET Entries : Tell(S) \in Seq(Steps)
      <4>1. {} \in SUBSET Entries /\ "local" \in Sources
        BY SomeSources
      <4>. QED  BY <4>1, StepType DEF Tell, Doings, DirSteps, FileSteps
    <3>3. writes' \in Seq(Steps) /\ spoiled' \in BOOLEAN
      BY <1>1, <2>3, <3>1, <3>2, SaveInstalledType
    <3>. QED  BY <1>1, <1>2, <1>3, <2>1, <2>3, <3>3
  <2>4. ASSUME NEW d \in g.left, UNCHANGED <<writes, spoiled>>,
               \/ flow' = [flow EXCEPT ![f].left = g.left \ {d}]
               \/ flow' = [flow EXCEPT ![f] = IdleFlow]
               \/ flow' = [flow EXCEPT ![f].pc = "copy", ![f].dir = d, ![f].left = g.left \ {d}]
        PROVE  SkillsTypeOK'
    <3>1. PICK S : S = g.left \ {d}
      OBVIOUS
    <3>2. S \in SUBSET Dirs /\ d \in Dirs
      BY <1>5, <3>1, FlowTyped
    <3>3. [g EXCEPT !.left = S] \in FlowStates /\ [g EXCEPT !.pc = "copy", !.dir = d, !.left = S] \in FlowStates
      BY <1>5, <3>2, FlowTyped DEF FlowPlaces, CopyPlaces
    <3>4. \E h \in FlowStates : flow' = [flow EXCEPT ![f] = h]
      BY <1>1, <1>4, <2>4, <3>1, <3>3
    <3>. QED  BY <1>1, <1>2, <1>3, <2>1, <2>4, <3>4
  <2>. QED  BY <2>2, <2>3, <2>4
<1>14. ASSUME CopySome(f) \/ CopyRest(f) PROVE SkillsTypeOK'
  <2>1. PICK p \in {"copying", "copied"} : flow' = [flow EXCEPT ![f] = [g EXCEPT !.pc = p]]
    BY <1>4, <1>14 DEF CopySome, CopyRest
  <2>2. [g EXCEPT !.pc = p] \in FlowStates
    <3>1. g.pc \in CopyPlaces
      BY <1>4, <1>14 DEF CopySome, CopyRest, CopyPlaces
    <3>. QED  BY <1>5, <2>1, <3>1, FlowTyped DEF FlowPlaces, CopyPlaces
  <2>3. files' \in [Dirs -> {"none", "some", "skill"}]
    BY <1>1, <1>14 DEF CopySome, CopyRest, SkillFilesOK
  <2>4. SkillFilesOK'
    BY <1>1, <1>14, <2>3 DEF CopySome, CopyRest, SkillFilesOK
  <2>. QED  BY <1>1, <1>2, <1>14, <2>1, <2>2, <2>4 DEF CopySome, CopyRest, skillPast
<1>15. ASSUME Copied(f) PROVE SkillsTypeOK'
  <2>1. PICK N : N = g.new \cup {Entry(g.src, g.dir, TRUE)}
    OBVIOUS
  <2>2. flow' = [flow EXCEPT ![f] = [g EXCEPT !.pc = "check", !.dir = NoDir, !.new = N]]
    BY <1>4, <1>15, <2>1 DEF Copied
  <2>3. g.dir \in Dirs
    BY <1>4, <1>5, <1>15, FlowTyped DEF Copied, CopyPlaces
  <2>4. N \in SUBSET Entries
    <3>1. g.src \in Sources /\ g.new \in SUBSET Entries /\ TRUE \in BOOLEAN
      BY <1>5, FlowTyped
    <3>2. Entry(g.src, g.dir, TRUE) \in Entries
      BY <2>3, <3>1, EntryType
    <3>. QED  BY <2>1, <3>1, <3>2
  <2>. QED  BY <1>1, <1>2, <1>3, <1>5, <1>15, <2>2, <2>4, FlowTyped DEF Copied, skillPast
<1>. QED  BY <1>7, <1>8, <1>9, <1>10, <1>11, <1>12, <1>13, <1>14, <1>15 DEF FlowStep

LEMMA WriteTypes ==
  ASSUME SkillsTypeOK, WriteStep
  PROVE  SkillsTypeOK'
<1>1. /\ told \in SUBSET Entries /\ lost \in SUBSET Dirs /\ halved \in SUBSET Dirs
      /\ installedStore \in SUBSET Entries /\ listed \in BOOLEAN /\ Registered \in SUBSET Entries
      /\ flow \in [Flows -> FlowStates] /\ writes \in Seq(Steps) /\ SkillFilesOK
      /\ spoiled \in BOOLEAN /\ phase \in {"boot", "timer", "open"} /\ skillHalts \in Nat
  BY RegisteredType DEF SkillsTypeOK, SkillPageOK, SkillPastOK
<1>2. writes # <<>> /\ writes' = Tail(writes) /\ UNCHANGED <<phase, skillHalts, spoiled>>
  BY DEF WriteStep
<1>3. PICK w \in Steps : w = Head(writes)
  BY <1>1, <1>2, HeadTailProperties
<1>4. writes' \in Seq(Steps)
  BY <1>1, <1>2, HeadTailProperties
<1>5. flow' \in [Flows -> FlowStates]
  <2>1. ASSUME NEW f \in Flows PROVE [flow[f] EXCEPT !.stale = flow[f].stale \/ flow[f].pc \notin {"idle", "read", "download"}] \in FlowStates
    <3>1. PICK g, b : g = flow[f] /\ b = (flow[f].stale \/ flow[f].pc \notin {"idle", "read", "download"})
      OBVIOUS
    <3>2. g \in FlowStates /\ g.stale \in BOOLEAN
      BY <1>1, <3>1, FlowTyped
    <3>3. b \in BOOLEAN
      BY <3>1, <3>2
    <3>4. [g EXCEPT !.stale = b] \in FlowStates
      BY <3>2, <3>3, FlowTyped
    <3>. QED  BY <3>1, <3>4
  <2>2. flow' = flow \/ flow' = [f \in Flows |-> [flow[f] EXCEPT !.stale = flow[f].stale \/ flow[f].pc \notin {"idle", "read", "download"}]]
    BY DEF WriteStep
  <2>. QED  BY <1>1, <2>1, <2>2
<1>6. w.reg \in SUBSET Entries /\ (w.do \in DirSteps => w.dir \in Dirs)
  BY StepFields
<1>7. SkillFilesOK'
  <2>1. CASE w.do = "registry"
    BY <1>1, <1>3, <1>6, <2>1 DEF WriteStep, Doing, SkillFilesOK
  <2>2. CASE w.do \in FileSteps
    BY <1>1, <1>3, <1>6, <2>2 DEF WriteStep, Doing, SkillFilesOK, FileSteps, DirSteps
  <2>3. CASE w.do \in {"on", "off"}
    BY <1>1, <1>3, <1>6, <2>3 DEF WriteStep, Doing, SkillFilesOK, DirSteps
  <2>4. CASE w.do \in {"marker", "tell", "set", "kept", "list"}
    BY <1>1, <1>3, <1>6, <2>4 DEF WriteStep, Doing, SkillFilesOK, skillDisk
  <2>. QED  BY <2>1, <2>2, <2>3, <2>4, StepFields DEF Doings, DirSteps
<1>8. SkillPageOK'
  <2>1. NewLocal({}) \in SUBSET Entries
    BY NewLocalType
  <2>2. Without(installedStore, w) \cup {x \in Registered : SameId(x, w)} \in SUBSET Entries
    BY <1>1 DEF Without
  <2>3. installedStore' \in SUBSET Entries
    BY <1>1, <1>3, <2>1, <2>2 DEF WriteStep, Doing, skillPage
  <2>4. listed' \in BOOLEAN
    BY <1>1 DEF WriteStep, skillPage
  <2>. QED  BY <2>3, <2>4 DEF SkillPageOK
<1>9. SkillPastOK'
  <2>1. told' \in SUBSET Entries /\ lost' \in SUBSET Dirs
    BY <1>1, <1>3, <1>6 DEF WriteStep, Doing
  <2>2. halved' \in SUBSET Dirs
    BY <1>1 DEF WriteStep
  <2>. QED  BY <1>1, <1>2, <2>1, <2>2 DEF SkillPastOK
<1>. QED  BY <1>1, <1>2, <1>4, <1>5, <1>7, <1>8, <1>9 DEF SkillsTypeOK

LEMMA HaltTypes ==
  ASSUME SkillsTypeOK, SkillWriteFails \/ SkillRestart
  PROVE  SkillsTypeOK'
<1>1. /\ told \in SUBSET Entries /\ lost \in SUBSET Dirs /\ halved \in SUBSET Dirs
      /\ installedStore \in SUBSET Entries /\ listed \in BOOLEAN /\ Registered \in SUBSET Entries
      /\ flow \in [Flows -> FlowStates] /\ writes \in Seq(Steps) /\ SkillFilesOK
      /\ spoiled \in BOOLEAN /\ phase \in {"boot", "timer", "open"} /\ skillHalts \in Nat
  BY RegisteredType DEF SkillsTypeOK, SkillPageOK, SkillPastOK
<1>2. ASSUME CutShort PROVE SkillFilesOK' /\ halved' \in SUBSET Dirs
  <2>1. halfWritten' \in BOOLEAN
    BY <1>1, <1>2 DEF CutShort, SkillFilesOK, Doing
  <2>2. Halfway \subseteq Dirs
    <3>. SUFFICES ASSUME NEW d \in Halfway PROVE d \in Dirs
      OBVIOUS
    <3>1. PICK i \in DOMAIN writes : d = writes[i].dir /\ writes[i].do \in {"set", "kept"}
      BY DEF Halfway
    <3>2. writes[i] \in Steps
      BY <1>1
    <3>. QED  BY <3>1, <3>2, StepFields DEF DirSteps
  <2>. QED  BY <1>1, <1>2, <2>1, <2>2 DEF CutShort, SkillFilesOK
<1>3. skillHalts' \in Nat
  BY <1>1 DEF SkillWriteFails, SkillRestart
<1>4. CASE SkillRestart
  <2>1. flow' \in [Flows -> FlowStates]
    BY <1>4, IdleTyped DEF SkillRestart
  <2>2. <<>> \in Seq(Steps) /\ {} \in SUBSET Entries
    OBVIOUS
  <2>3. lost' \in SUBSET Dirs
    <3>1. \A e \in told : e.dir \in Dirs
      BY <1>1, EntryFields
    <3>. QED  BY <1>1, <1>4, <3>1 DEF SkillRestart
  <2>4. SkillPageOK' /\ SkillPastOK'
    BY <1>1, <1>2, <1>4, <2>2, <2>3 DEF SkillRestart, SkillPageOK, SkillPastOK
  <2>. QED  BY <1>2, <1>3, <1>4, <2>1, <2>2, <2>4 DEF SkillRestart, SkillsTypeOK
<1>5. CASE SkillWriteFails
  <2>1. /\ UNCHANGED <<phase, flow, skillPage, told, lost>> /\ writes # <<>>
        /\ SkillFilesOK' /\ halved' \in SUBSET Dirs
    BY <1>1, <1>2, <1>5 DEF SkillWriteFails, skillDisk, SkillFilesOK
  <2>2. spoiled' \in BOOLEAN
    BY <1>1, <1>5, <2>1 DEF SkillWriteFails, SkillFilesOK
  <2>3. writes' \in Seq(Steps)
    <3>1. CASE Doing("on") \/ Doing("off")
      <4>1. PICK w \in Steps : w = Head(writes)
        BY <1>1, <2>1, HeadTailProperties
      <4>2. PICK b, e : b = Doing("off") /\ e = Entry(w.src, w.dir, b)
        OBVIOUS
      <4>3. b \in BOOLEAN /\ w.src \in Sources /\ w.dir \in Dirs
        BY <3>1, <4>1, <4>2, StepFields DEF Doing, DirSteps
      <4>4. e \in Entries
        BY <4>2, <4>3, EntryType
      <4>5. writes' = RolledBack(e)
        BY <1>5, <3>1, <4>1, <4>2 DEF SkillWriteFails
      <4>6. Upsert(Registered, e) \in SUBSET Entries /\ ToldAs(e) \in SUBSET Entries
        BY <1>1, <4>4, ListsType, RetoldType
      <4>7. SaveSkills(Upsert(Registered, e)) \in Seq(Steps) /\ TellKept(e, ToldAs(e)) \in Seq(Steps)
        BY <4>2, <4>3, <4>6, OneStep
      <4>. QED  BY <4>5, <4>7, JoinedType DEF RolledBack
    <3>2. CASE ~(Doing("on") \/ Doing("off"))
      <4>1. writes' = Tail(writes) \/ writes' = <<>>
        BY <1>5, <3>2 DEF SkillWriteFails
      <4>2. <<>> \in Seq(Steps) /\ Tail(writes) \in Seq(Steps)
        BY <1>1, <2>1, HeadTailProperties
      <4>. QED  BY <4>1, <4>2
    <3>. QED  BY <3>1, <3>2
  <2>4. SkillPageOK' /\ SkillPastOK'
    BY <1>1, <2>1, <2>2 DEF SkillPageOK, SkillPastOK, skillPage
  <2>. QED  BY <1>1, <1>3, <2>1, <2>3, <2>4 DEF SkillsTypeOK
<1>. QED  BY <1>4, <1>5

LEMMA SkillsTypesStep == SkillsTypeOK /\ [SkillsNext]_skillVars => SkillsTypeOK'
<1>. SUFFICES ASSUME SkillsTypeOK, [SkillsNext]_skillVars PROVE SkillsTypeOK'
  OBVIOUS
<1>1. CASE UNCHANGED skillVars
  BY <1>1 DEF skillVars, skillDisk, skillPage, skillPast, SkillsTypeOK, SkillFilesOK, SkillPageOK, SkillPastOK
<1>2. CASE ReconcileAtStart \/ InstallBundled \/ LoadInstalled
  BY <1>2, CallTypes
<1>3. ASSUME NEW e \in installedStore, Toggle(e) \/ Uninstall(e) PROVE SkillsTypeOK'
  BY <1>3, CallTypes
<1>4. ASSUME NEW f \in Flows, FlowStep(f) PROVE SkillsTypeOK'
  BY <1>4, FlowTypes
<1>5. CASE WriteStep
  BY <1>5, WriteTypes
<1>6. CASE SkillWriteFails \/ SkillRestart
  BY <1>6, HaltTypes
<1>. QED  BY <1>1, <1>2, <1>3, <1>4, <1>5, <1>6 DEF SkillsNext

LEMMA SkillsTypesInitially == SkillsInit => SkillsTypeOK
<1>. SUFFICES ASSUME SkillsInit PROVE SkillsTypeOK
  OBVIOUS
<1>1. flow \in [Flows -> FlowStates]
  BY IdleTyped DEF SkillsInit
<1>2. SkillFilesOK
  BY DEF SkillsInit, SkillFilesOK
<1>3. writes \in Seq(Steps) /\ skillHalts \in Nat /\ phase \in {"boot", "timer", "open"} /\ SkillPageOK /\ SkillPastOK
  <2>1. <<>> \in Seq(Steps) /\ {} \in SUBSET Entries /\ {} \in SUBSET Dirs /\ 0 \in Nat
    OBVIOUS
  <2>. QED  BY <2>1 DEF SkillsInit, SkillPageOK, SkillPastOK
<1>. QED  BY <1>1, <1>2, <1>3 DEF SkillsTypeOK

\* The files, what the running operation has still to write, the installs and imports under
\* way and what the user was told keep their types, for any directories, repositories and
\* operations at once (skills_registry.rs, SkillsBackendService.ets).
THEOREM SkillsTypeCorrect == SkillsSpec => []SkillsTypeOK
BY SkillsTypesInitially, SkillsTypesStep, PTL DEF SkillsSpec-----------------------------------------------------------------------------
(* The skills: what is left to do of an operation, and where it leads *)

Todo(w) == {w[i] : i \in 1..Len(w)}
Will(Q, what, d) == \E s \in Q : s.do = what /\ s.dir = d
WillSave(Q) == \E s \in Q : s.do = "registry"
WillFlag(Q) == \E s \in Q : s.do \in {"on", "off"}

\* Directories first, the registry next, config.toml or the marker then; the call returns last.
Tells == {"tell", "set", "kept"}
Before(s, t) ==
  \/ s.do \in FileSteps
  \/ s.do = "registry" /\ t.do \notin FileSteps /\ t # s
  \/ s.do \in {"on", "off", "marker"} /\ t.do \in Tells
InTurn(w) == \A i, j \in 1..Len(w) : i < j => Before(w[i], w[j])

\* No two entries share a directory; each has one.
Apart(R) == \A x, y \in R : x.dir = y.dir => x = y
Housed(R, F) == \A x \in R : F[x.dir] # "none"

\* x is as the user was told, or what reconciling a lost registry makes of its directory;
\* there is such an entry for all that was told, and still is when A is told in place of T.
Fine(x, T, L) == x \in T \/ (x.dir \in L /\ x = Entry("local", x.dir, TRUE))
HasTold(R, T, L) == \A e \in T : \E x \in R : x.dir = e.dir /\ Fine(x, T, L)
Leads(A, R, T, L) ==
  \A e \in A : \E x \in R : x.dir = e.dir /\ (x \in A \/ (Of(A, e.dir) = Of(T, e.dir) /\ Fine(x, T, L)))

\* What is registered as off is off, but for the directories in D.
OffIn(R, O, D) == \A x \in R : ~x.on => x.dir \in O \cup D
WillOff(Q) == {s.dir : s \in {t \in Q : t.do = "off"}}
Half(Q) == {s.dir : s \in {t \in Q : t.do \in {"set", "kept"} /\ (WillSave(Q) <=> ~WillFlag(Q))}}

\* A registry that is saved.
SavedWell(s, Q, T, L, F, O) ==
  /\ Apart(s.reg) /\ HasTold(s.reg, T, L)
  /\ \A x \in s.reg : /\ F[x.dir] # "none" \/ Will(Q, "copy", x.dir) \/ Will(Q, "manifest", x.dir)
                      /\ ~Will(Q, "unlink", x.dir) /\ ~Will(Q, "rmdir", x.dir)
  /\ OffIn(s.reg, O, WillOff(Q))
SavesWell(Q, T, L, F, O) == \A s \in Q : s.do = "registry" => SavedWell(s, Q, T, L, F, O)

\* A flag that is set, in both files.
FlagWell(s, Q, T, reg, O) ==
  /\ \A t \in Q : t.do = "registry" => Entry(s.src, s.dir, s.do = "on") \in t.reg
  /\ ~WillSave(Q) => Entry(s.src, s.dir, s.do = "on") \in reg
  /\ Of(T, s.dir) # {} => \A b \in BOOLEAN : Entry(s.src, s.dir, b) \in T
  /\ s.do = "on" => s.dir \in O
  /\ Will(Q, "set", s.dir)
  /\ \A t \in Q : t.do \in {"set", "kept"} => t.dir = s.dir
  /\ \A t \in Q : t.do \notin FileSteps
FlagsWell(Q, T, reg, O) == \A s \in Q : s.do \in {"on", "off"} => FlagWell(s, Q, T, reg, O)

\* What the user is told at the end.
ToldWell(t, Q, T, L, reg, F, V) ==
  /\ \A e \in t.reg : F[e.dir] = "skill" \/ Will(Q, "manifest", e.dir)
  /\ \A s \in Q : s.do = "registry" => Leads(t.reg, s.reg, T, L)
  /\ ~WillSave(Q) => Leads(t.reg, reg, T, L)
  /\ t.do \in {"set", "kept"} => \A s, r \in Q : s.do = "registry" /\ r.do = "registry" => s = r
  /\ t.do \in {"set", "kept"} => \A s \in Q : s.do # "marker"
  /\ t.do = "set" => \A e \in V : e.dir = t.dir => SameId(e, t)
ToldsWell(Q, T, L, reg, F, V) == \A t \in Q : t.do \in Tells => ToldWell(t, Q, T, L, reg, F, V)

FilesFirst(Q) == \A s \in Q : s.do \in FileSteps => WillSave(Q)

PlanOK(Q, T, L, reg, F, O, V) ==
  /\ FilesFirst(Q)
  /\ SavesWell(Q, T, L, F, O)
  /\ FlagsWell(Q, T, reg, O)
  /\ ToldsWell(Q, T, L, reg, F, V)

\* The page.
ListOK(V, Q, O) ==
  /\ Apart(V)
  /\ \A e \in V : ~e.on => e.dir \in O \/ (Will(Q, "set", e.dir) /\ ~WillFlag(Q))

\* The registry has what was told; if it is lost, that can be found.
RegistryOK(hw, ent, T, L) ==
  /\ ~hw => Apart(ent) /\ HasTold(ent, T, L)
  /\ hw => \A e \in T : e.dir \in L

Made(T, F) == \A e \in T : F[e.dir] = "skill"

Stands(Q, hw, T, reg, F) == WillSave(Q) \/ (Housed(reg, F) /\ (hw => T = {}))

LEMMA TodoNone == Todo(<<>>) = {} /\ InTurn(<<>>)
<1>1. \A i : i \notin 1..Len(<<>>)
  OBVIOUS
<1>. QED  BY <1>1 DEF Todo, InTurn

LEMMA TodoOne == ASSUME NEW s PROVE Todo(<<s>>) = {s} /\ InTurn(<<s>>)
<1>1. Len(<<s>>) = 1 /\ <<s>>[1] = s
  OBVIOUS
<1>2. PICK w : w = <<s>>
  OBVIOUS
<1>3. Len(w) = 1 /\ w[1] = s
  BY <1>1, <1>2
<1>4. Todo(w) = {s} /\ InTurn(w)
  BY <1>3 DEF Todo, InTurn
<1>. QED  BY <1>2, <1>4

LEMMA TodoFirst ==
  ASSUME NEW w \in Seq(Steps), w # <<>>
  PROVE  /\ Head(w) \in Steps /\ Tail(w) \in Seq(Steps)
         /\ Todo(w) = {Head(w)} \cup Todo(Tail(w))
         /\ InTurn(w) => InTurn(Tail(w)) /\ \A t \in Todo(Tail(w)) : Before(Head(w), t)
<1>1. PICK n \in Nat : n + 1 = Len(w)
  <2>1. Len(w) \in Nat /\ Len(w) # 0
    OBVIOUS
  <2>2. Len(w) - 1 \in Nat /\ (Len(w) - 1) + 1 = Len(w)
    BY <2>1
  <2>. QED  BY <2>2
<1>2. PICK v : v = Tail(w)
  OBVIOUS
<1>3. v \in Seq(Steps) /\ Len(v) = n /\ \A i \in 1..n : v[i] = w[i + 1]
  BY <1>1, <1>2
<1>4. Head(w) = w[1] /\ w[1] \in Steps
  BY <1>1
<1>5. \A i \in 1..n : i + 1 \in 1..n + 1 /\ 1 \in 1..n + 1 /\ 1 < i + 1
  OBVIOUS
<1>6. Todo(w) = {w[1]} \cup Todo(v)
  <2>1. \A x \in Todo(v) : x \in Todo(w)
    BY <1>1, <1>3, <1>5 DEF Todo
  <2>2. w[1] \in Todo(w)
    <3>1. 1 \in 1..Len(w)
      BY <1>1
    <3>. QED  BY <3>1 DEF Todo
  <2>3. ASSUME NEW i \in 1..n + 1 PROVE w[i] = w[1] \/ w[i] \in Todo(v)
    <3>1. CASE i = 1
      BY <3>1
    <3>2. CASE i # 1
      <4>1. PICK j : j = i - 1
        OBVIOUS
      <4>2. j \in 1..n /\ i = j + 1
        BY <3>2, <4>1
      <4>. QED  BY <1>3, <4>2 DEF Todo
    <3>. QED  BY <3>1, <3>2
  <2>. QED  BY <1>1, <2>1, <2>2, <2>3 DEF Todo
<1>7. ASSUME InTurn(w) PROVE InTurn(v) /\ \A t \in Todo(v) : Before(w[1], t)
  <2>1. \A i, j \in 1..n : i < j => i + 1 < j + 1
    OBVIOUS
  <2>2. \A i, j \in 1..n + 1 : i < j => Before(w[i], w[j])
    BY <1>1, <1>7 DEF InTurn
  <2>3. \A i, j \in 1..n : i < j => Before(v[i], v[j])
    BY <1>3, <1>5, <2>1, <2>2
  <2>4. \A i \in 1..n : Before(w[1], v[i])
    BY <1>3, <1>5, <2>2
  <2>. QED  BY <1>3, <2>3, <2>4 DEF InTurn, Todo
<1>. QED  BY <1>2, <1>3, <1>4, <1>6, <1>7

LEMMA TodoJoined ==
  ASSUME NEW v \in Seq(Steps), NEW w \in Seq(Steps)
  PROVE  /\ v \o w \in Seq(Steps) /\ Todo(v \o w) = Todo(v) \cup Todo(w)
         /\ InTurn(v) /\ InTurn(w) /\ (\A s \in Todo(v), t \in Todo(w) : Before(s, t)) => InTurn(v \o w)
<1>1. PICK u : u = v \o w
  OBVIOUS
<1>2. PICK n \in Nat, m \in Nat : n = Len(v) /\ m = Len(w)
  <2>1. Len(v) \in Nat /\ Len(w) \in Nat
    OBVIOUS
  <2>. QED  BY <2>1
<1>3. /\ u \in Seq(Steps) /\ Len(u) = n + m
      /\ \A i \in 1..n : u[i] = v[i]
      /\ \A i \in 1..m : u[n + i] = w[i]
  BY <1>1, <1>2
<1>4. \A i \in 1..n + m : i \in 1..n \/ \E j \in 1..m : i = n + j
  <2>. TAKE i \in 1..n + m
  <2>1. CASE i <= n
    BY <2>1
  <2>2. CASE ~(i <= n)
    <3>1. i - n \in 1..m /\ i = n + (i - n)
      BY <2>2
    <3>. QED  BY <3>1
  <2>. QED  BY <2>1, <2>2
<1>5. (\A i \in 1..n : i \in 1..n + m) /\ (\A i \in 1..m : n + i \in 1..n + m)
  OBVIOUS
<1>6. Todo(u) = Todo(v) \cup Todo(w)
  <2>1. Todo(u) \subseteq Todo(v) \cup Todo(w)
    <3>1. ASSUME NEW i \in 1..n + m PROVE u[i] \in Todo(v) \cup Todo(w)
      BY <1>2, <1>3, <1>4 DEF Todo
    <3>. QED  BY <1>3, <3>1 DEF Todo
  <2>2. Todo(v) \subseteq Todo(u)
    BY <1>2, <1>3, <1>5 DEF Todo
  <2>3. Todo(w) \subseteq Todo(u)
    BY <1>2, <1>3, <1>5 DEF Todo
  <2>. QED  BY <2>1, <2>2, <2>3
<1>7. ASSUME InTurn(v), InTurn(w), \A s \in Todo(v), t \in Todo(w) : Before(s, t)
      PROVE  InTurn(u)
  <2>1. SUFFICES ASSUME NEW i \in 1..n + m, NEW j \in 1..n + m, i < j PROVE Before(u[i], u[j])
    BY <1>3 DEF InTurn
  <2>2. CASE i \in 1..n /\ j \in 1..n
    <3>1. Before(v[i], v[j])
      BY <1>2, <1>7, <2>1, <2>2 DEF InTurn
    <3>. QED  BY <1>3, <2>2, <3>1
  <2>3. ASSUME i \in 1..n, NEW l \in 1..m, j = n + l PROVE Before(u[i], u[j])
    <3>1. v[i] \in Todo(v) /\ w[l] \in Todo(w)
      BY <1>2, <2>3 DEF Todo
    <3>2. u[i] = v[i] /\ u[j] = w[l]
      BY <1>3, <2>3
    <3>. QED  BY <1>7, <3>1, <3>2
  <2>4. ASSUME NEW k \in 1..m, i = n + k, NEW l \in 1..m, j = n + l PROVE Before(u[i], u[j])
    <3>1. k < l
      BY <2>1, <2>4
    <3>2. Before(w[k], w[l])
      BY <1>2, <1>7, <3>1 DEF InTurn
    <3>3. u[i] = w[k] /\ u[j] = w[l]
      BY <1>3, <2>4
    <3>. QED  BY <3>2, <3>3
  <2>5. ASSUME NEW k \in 1..m, i = n + k, j \in 1..n PROVE FALSE
    BY <2>1, <2>5
  <2>. QED  BY <1>4, <2>2, <2>3, <2>4, <2>5
<1>. QED  BY <1>1, <1>3, <1>6, <1>7

DiskOK ==
  /\ Made(told, files)
  /\ RegistryOK(halfWritten, entries, told, lost)
  /\ OffIn(Registered, off \cup halved, Half(Todo(writes)))
  /\ InTurn(writes)
  /\ PlanOK(Todo(writes), told, lost, Registered, files, off \cup halved, installedStore)
  /\ ListOK(installedStore, Todo(writes), off \cup halved)
  /\ phase = "boot" => writes = <<>>
  /\ phase # "boot" => Stands(Todo(writes), halfWritten, told, Registered, files)

\* What a flow has read and copied, if no operation has changed the registry or the
\* directories since.
Listed(g, reg, F) ==
  /\ IF reg # {} THEN g.read = reg ELSE \A e \in g.read : e.on
  /\ Apart(g.read) /\ Housed(g.read, F)
  /\ \A e \in g.new : e.src = g.src /\ e.on /\ F[e.dir] = "skill" /\ \A x \in g.read : x.dir # e.dir
  /\ g.pc \in CopyPlaces => \A x \in g.read : x.dir # g.dir
  /\ g.pc = "copying" => F[g.dir] # "none"
  /\ g.pc = "copied" => F[g.dir] = "skill"

FlowFits(g, reg, F) ==
  /\ g.pc \in {"idle", "read", "scan"} => g.new = {}
  /\ g.pc = "scan" /\ ~g.stale => reg = {}
  /\ g.pc \in {"check"} \cup CopyPlaces /\ ~g.stale => Listed(g, reg, F)

FlowsOK == \A f \in Flows : FlowFits(flow[f], Registered, files) /\ (phase = "boot" => flow[f].pc = "idle")

SkillsInv == SkillsTypeOK /\ (~spoiled => DiskOK /\ FlowsOK)

-----------------------------------------------------------------------------
(* The skills: each step of a plan leaves a plan that leads there *)

LEMMA WithoutFirst ==
  ASSUME NEW h, NEW Q
  PROVE  /\ \A what, d : Will({h} \cup Q, what, d) <=> (h.do = what /\ h.dir = d) \/ Will(Q, what, d)
         /\ WillSave({h} \cup Q) <=> h.do = "registry" \/ WillSave(Q)
         /\ WillFlag({h} \cup Q) <=> h.do \in {"on", "off"} \/ WillFlag(Q)
         /\ h.do # "off" => WillOff({h} \cup Q) = WillOff(Q)
         /\ h.do \notin {"registry", "on", "off", "set", "kept"} => Half({h} \cup Q) = Half(Q)
<1>1. \A what, d : Will({h} \cup Q, what, d) <=> (h.do = what /\ h.dir = d) \/ Will(Q, what, d)
  BY DEF Will
<1>2. /\ WillSave({h} \cup Q) <=> h.do = "registry" \/ WillSave(Q)
      /\ WillFlag({h} \cup Q) <=> h.do \in {"on", "off"} \/ WillFlag(Q)
  BY DEF WillSave, WillFlag
<1>3. h.do # "off" => WillOff({h} \cup Q) = WillOff(Q)
  BY DEF WillOff
<1>4. ASSUME h.do \notin {"registry", "on", "off", "set", "kept"} PROVE Half({h} \cup Q) = Half(Q)
  <2>1. /\ WillSave({h} \cup Q) <=> WillSave(Q)
        /\ WillFlag({h} \cup Q) <=> WillFlag(Q)
    BY <1>2, <1>4
  <2>. QED  BY <1>4, <2>1 DEF Half
<1>. QED  BY <1>1, <1>2, <1>3, <1>4

LEMMA NothingLeft ==
  ASSUME NEW T, NEW L, NEW reg, NEW F, NEW O, NEW V
  PROVE  PlanOK({}, T, L, reg, F, O, V) /\ ~WillSave({}) /\ ~WillFlag({}) /\ Half({}) = {} /\ \A what, d : ~Will({}, what, d)
BY DEF PlanOK, FilesFirst, SavesWell, FlagsWell, ToldsWell, WillSave, WillFlag, Half, Will

\* Files that only come, and only get more complete.
Grown(F, G) == \A d \in Dirs : (F[d] # "none" => G[d] # "none") /\ (F[d] = "skill" => G[d] = "skill")

FileStates == [Dirs -> {"none", "some", "skill"}]

FileStep(h, F, G) ==
  /\ h.do = "copy" => G = [F EXCEPT ![h.dir] = IF @ = "none" THEN "some" ELSE @]
  /\ h.do = "manifest" => G = [F EXCEPT ![h.dir] = "skill"]
  /\ h.do = "unlink" => G = [F EXCEPT ![h.dir] = "some"]
  /\ h.do = "rmdir" => G = [F EXCEPT ![h.dir] = "none"]

\* What a file step does to a directory.
LEMMA FileStepDoes ==
  ASSUME NEW h \in Steps, h.do \in FileSteps, NEW F \in FileStates, NEW G, FileStep(h, F, G)
  PROVE  /\ h.dir \in Dirs /\ G \in FileStates
         /\ \A d \in Dirs : d # h.dir => G[d] = F[d]
         /\ h.do = "copy" => G[h.dir] # "none" /\ (F[h.dir] = "skill" => G[h.dir] = "skill")
         /\ h.do = "manifest" => G[h.dir] = "skill"
BY StepFields DEF FileStep, FileStates, FileSteps, DirSteps

\* A directory that is neither to be emptied nor removed: what was there is there still,
\* and what was to come comes.
LEMMA FileStepKeeps ==
  ASSUME NEW h \in Steps, h.do \in FileSteps, NEW F \in FileStates, NEW G, FileStep(h, F, G), NEW Q,
         NEW d \in Dirs, ~Will({h} \cup Q, "unlink", d), ~Will({h} \cup Q, "rmdir", d)
  PROVE  /\ F[d] = "skill" => G[d] = "skill"
         /\ F[d] = "skill" \/ Will({h} \cup Q, "manifest", d) => G[d] = "skill" \/ Will(Q, "manifest", d)
         /\ F[d] # "none" \/ Will({h} \cup Q, "copy", d) \/ Will({h} \cup Q, "manifest", d)
              => G[d] # "none" \/ Will(Q, "copy", d) \/ Will(Q, "manifest", d)
<1>1. /\ h.dir \in Dirs /\ G \in FileStates
      /\ d # h.dir => G[d] = F[d]
      /\ h.do = "copy" => G[h.dir] # "none" /\ (F[h.dir] = "skill" => G[h.dir] = "skill")
      /\ h.do = "manifest" => G[h.dir] = "skill"
  BY FileStepDoes
<1>2. \A what : Will({h} \cup Q, what, d) <=> (h.do = what /\ h.dir = d) \/ Will(Q, what, d)
  BY WithoutFirst
<1>3. CASE d # h.dir
  BY <1>1, <1>2, <1>3
<1>4. CASE d = h.dir
  <2>1. h.do \in {"copy", "manifest"}
    BY <1>2, <1>4 DEF FileSteps
  <2>. QED  BY <1>1, <1>2, <1>4, <2>1
<1>. QED  BY <1>3, <1>4

\* A save that is planned tells which directories stay.
LEMMA SavedStay ==
  ASSUME NEW Q \in SUBSET Steps, NEW T, NEW L, NEW reg, NEW F, NEW O, NEW V,
         PlanOK(Q, T, L, reg, F, O, V), WillSave(Q)
  PROVE  /\ \A e \in T : ~Will(Q, "unlink", e.dir) /\ ~Will(Q, "rmdir", e.dir)
         /\ \A t \in Q : t.do \in Tells => \A e \in t.reg : ~Will(Q, "unlink", e.dir) /\ ~Will(Q, "rmdir", e.dir)
<1>1. PICK s \in Q : s.do = "registry"
  BY DEF WillSave
<1>2. /\ HasTold(s.reg, T, L)
      /\ \A x \in s.reg : ~Will(Q, "unlink", x.dir) /\ ~Will(Q, "rmdir", x.dir)
  BY <1>1 DEF PlanOK, SavesWell, SavedWell
<1>3. \A t \in Q : t.do \in Tells => Leads(t.reg, s.reg, T, L)
  BY <1>1 DEF PlanOK, ToldsWell, ToldWell
<1>4. \A e \in T : \E x \in s.reg : x.dir = e.dir
  BY <1>2 DEF HasTold
<1>5. \A t \in Q : t.do \in Tells => \A e \in t.reg : \E x \in s.reg : x.dir = e.dir
  BY <1>3 DEF Leads
<1>. QED  BY <1>2, <1>4, <1>5

\* A step on a directory.
LEMMA FileStepDone ==
  ASSUME NEW h \in Steps, NEW Q \in SUBSET Steps, NEW T \in SUBSET Entries, NEW L, NEW reg, NEW F \in FileStates, NEW O, NEW V,
         NEW G, h.do \in FileSteps, FileStep(h, F, G), PlanOK({h} \cup Q, T, L, reg, F, O, V), Made(T, F)
  PROVE  WillSave(Q) /\ PlanOK(Q, T, L, reg, G, O, V) /\ Made(T, G)
<1>1. h.do \notin {"registry", "on", "off"} \cup Tells
  BY DEF FileSteps, Tells
<1>2. WillSave({h} \cup Q) /\ WillSave(Q)
  <2>1. WillSave({h} \cup Q)
    BY DEF PlanOK, FilesFirst
  <2>2. WillSave({h} \cup Q) => WillSave(Q)
    BY <1>1, WithoutFirst
  <2>. QED  BY <2>1, <2>2
<1>3. \A t \in Q : t.do \notin {"on", "off"}
  BY DEF PlanOK, FlagsWell, FlagWell
<1>4. {h} \cup Q \in SUBSET Steps
  OBVIOUS
<1>5. /\ \A e \in T : ~Will({h} \cup Q, "unlink", e.dir) /\ ~Will({h} \cup Q, "rmdir", e.dir)
      /\ \A t \in Q : t.do \in Tells => \A e \in t.reg : ~Will({h} \cup Q, "unlink", e.dir) /\ ~Will({h} \cup Q, "rmdir", e.dir)
  BY <1>2, <1>4, SavedStay
<1>6. \A d \in Dirs : ~Will({h} \cup Q, "unlink", d) /\ ~Will({h} \cup Q, "rmdir", d) =>
        /\ F[d] = "skill" => G[d] = "skill"
        /\ F[d] = "skill" \/ Will({h} \cup Q, "manifest", d) => G[d] = "skill" \/ Will(Q, "manifest", d)
        /\ F[d] # "none" \/ Will({h} \cup Q, "copy", d) \/ Will({h} \cup Q, "manifest", d)
             => G[d] # "none" \/ Will(Q, "copy", d) \/ Will(Q, "manifest", d)
  BY FileStepKeeps
<1>7. \A R \in SUBSET Entries : \A e \in R : e.dir \in Dirs
  BY EntryFields
<1>8. \A t \in Q : t.reg \in SUBSET Entries
  BY StepFields
<1>9. Made(T, G)
  BY <1>5, <1>6, <1>7 DEF Made
<1>10. FilesFirst(Q)
  BY <1>2 DEF FilesFirst
<1>11. FlagsWell(Q, T, reg, O)
  BY <1>3 DEF FlagsWell
<1>12. SavesWell(Q, T, L, G, O)
  <2>. SUFFICES ASSUME NEW s \in Q, s.do = "registry" PROVE SavedWell(s, Q, T, L, G, O)
    BY DEF SavesWell
  <2>1. SavedWell(s, {h} \cup Q, T, L, F, O)
    BY DEF PlanOK, SavesWell
  <2>2. WillOff({h} \cup Q) = WillOff(Q)
    BY <1>1, WithoutFirst
  <2>3. \A d : /\ ~Will({h} \cup Q, "unlink", d) => ~Will(Q, "unlink", d)
               /\ ~Will({h} \cup Q, "rmdir", d) => ~Will(Q, "rmdir", d)
    BY WithoutFirst
  <2>4. ASSUME NEW x \in s.reg
        PROVE  /\ G[x.dir] # "none" \/ Will(Q, "copy", x.dir) \/ Will(Q, "manifest", x.dir)
               /\ ~Will(Q, "unlink", x.dir) /\ ~Will(Q, "rmdir", x.dir)
    <3>1. x.dir \in Dirs
      BY <1>7, <1>8
    <3>2. /\ F[x.dir] # "none" \/ Will({h} \cup Q, "copy", x.dir) \/ Will({h} \cup Q, "manifest", x.dir)
          /\ ~Will({h} \cup Q, "unlink", x.dir) /\ ~Will({h} \cup Q, "rmdir", x.dir)
      BY <2>1 DEF SavedWell
    <3>. QED  BY <1>6, <2>3, <3>1, <3>2
  <2>. QED  BY <2>1, <2>2, <2>4 DEF SavedWell
<1>13. ToldsWell(Q, T, L, reg, G, V)
  <2>. SUFFICES ASSUME NEW t \in Q, t.do \in Tells PROVE ToldWell(t, Q, T, L, reg, G, V)
    BY DEF ToldsWell
  <2>1. ToldWell(t, {h} \cup Q, T, L, reg, F, V)
    BY DEF PlanOK, ToldsWell
  <2>2. \A e \in t.reg : G[e.dir] = "skill" \/ Will(Q, "manifest", e.dir)
    <3>. TAKE e \in t.reg
    <3>1. e.dir \in Dirs
      BY <1>7, <1>8
    <3>2. F[e.dir] = "skill" \/ Will({h} \cup Q, "manifest", e.dir)
      BY <2>1 DEF ToldWell
    <3>. QED  BY <1>5, <1>6, <3>1, <3>2
  <2>. QED  BY <1>2, <2>1, <2>2 DEF ToldWell
<1>. QED  BY <1>2, <1>9, <1>10, <1>11, <1>12, <1>13 DEF PlanOK

\* A flag in a plan: one save, the flag, and the call that returns.
LEMMA FlagPlan ==
  ASSUME NEW Q, NEW T, NEW L, NEW reg, NEW F, NEW O, NEW V, PlanOK(Q, T, L, reg, F, O, V),
         NEW s \in Q, s.do \in {"on", "off"}
  PROVE  /\ FlagWell(s, Q, T, reg, O) /\ \E t \in Q : t.do = "set" /\ t.dir = s.dir
         /\ \A t, r \in Q : t.do = "registry" /\ r.do = "registry" => t = r
<1>1. FlagWell(s, Q, T, reg, O)
  BY DEF PlanOK, FlagsWell
<1>2. PICK t \in Q : t.do = "set" /\ t.dir = s.dir
  BY <1>1 DEF FlagWell, Will
<1>3. ToldWell(t, Q, T, L, reg, F, V)
  BY <1>2 DEF PlanOK, ToldsWell, Tells
<1>. QED  BY <1>1, <1>2, <1>3 DEF ToldWell

\* The registry is saved.
LEMMA SaveDone ==
  ASSUME NEW h \in Steps, NEW Q \in SUBSET Steps, NEW T \in SUBSET Entries, NEW L, NEW reg, NEW F, NEW O, NEW V,
         h.do = "registry", \A t \in Q : Before(h, t), PlanOK({h} \cup Q, T, L, reg, F, O, V), ListOK(V, {h} \cup Q, O)
  PROVE  /\ PlanOK(Q, T, L, h.reg, F, O, V) /\ ListOK(V, Q, O)
         /\ Apart(h.reg) /\ HasTold(h.reg, T, L) /\ Housed(h.reg, F) /\ OffIn(h.reg, O, Half(Q))
<1>1. \A t \in Q : t # h /\ t.do \notin FileSteps
  BY DEF Before, FileSteps
<1>2. /\ \A what \in FileSteps : \A d : ~Will({h} \cup Q, what, d) /\ ~Will(Q, what, d)
      /\ \A d : Will({h} \cup Q, "set", d) <=> Will(Q, "set", d)
      /\ WillFlag({h} \cup Q) <=> WillFlag(Q)
      /\ WillOff({h} \cup Q) = WillOff(Q)
      /\ WillSave({h} \cup Q)
  <2>1. \A what \in FileSteps : h.do # what /\ \A d : ~Will(Q, what, d)
    BY <1>1 DEF FileSteps, Will
  <2>2. \A what \in FileSteps : \A d : ~Will({h} \cup Q, what, d)
    BY <2>1, WithoutFirst
  <2>3. /\ \A d : Will({h} \cup Q, "set", d) <=> Will(Q, "set", d)
        /\ WillFlag({h} \cup Q) <=> WillFlag(Q)
        /\ WillSave({h} \cup Q)
    BY WithoutFirst
  <2>4. WillOff({h} \cup Q) = WillOff(Q)
    BY WithoutFirst
  <2>. QED  BY <2>1, <2>2, <2>3, <2>4
<1>3. SavedWell(h, {h} \cup Q, T, L, F, O)
  BY DEF PlanOK, SavesWell
<1>4. Apart(h.reg) /\ HasTold(h.reg, T, L) /\ OffIn(h.reg, O, WillOff(Q)) /\ Housed(h.reg, F)
  BY <1>2, <1>3 DEF SavedWell, Housed, FileSteps
<1>5. OffIn(h.reg, O, Half(Q))
  <2>1. ASSUME NEW s \in Q, s.do = "off" PROVE s.dir \in Half(Q)
    <3>1. /\ \E t \in {h} \cup Q : t.do = "set" /\ t.dir = s.dir
          /\ \A t, r \in {h} \cup Q : t.do = "registry" /\ r.do = "registry" => t = r
      BY <2>1, FlagPlan
    <3>2. PICK t \in Q : t.do = "set" /\ t.dir = s.dir
      BY <3>1
    <3>3. ~WillSave(Q)
      BY <1>1, <3>1 DEF WillSave
    <3>4. WillFlag(Q)
      BY <2>1 DEF WillFlag
    <3>. QED  BY <3>2, <3>3, <3>4 DEF Half
  <2>2. WillOff(Q) \subseteq Half(Q)
    BY <2>1 DEF WillOff
  <2>. QED  BY <1>4, <2>2 DEF OffIn
<1>6. FilesFirst(Q)
  BY <1>1 DEF FilesFirst
<1>7. SavesWell(Q, T, L, F, O)
  <2>. SUFFICES ASSUME NEW s \in Q, s.do = "registry" PROVE SavedWell(s, Q, T, L, F, O)
    BY DEF SavesWell
  <2>1. SavedWell(s, {h} \cup Q, T, L, F, O)
    BY DEF PlanOK, SavesWell
  <2>. QED  BY <1>2, <2>1 DEF SavedWell, FileSteps
<1>8. FlagsWell(Q, T, h.reg, O)
  <2>. SUFFICES ASSUME NEW s \in Q, s.do \in {"on", "off"} PROVE FlagWell(s, Q, T, h.reg, O)
    BY DEF FlagsWell
  <2>1. FlagWell(s, {h} \cup Q, T, reg, O)
    BY DEF PlanOK, FlagsWell
  <2>. QED  BY <1>2, <2>1 DEF FlagWell
<1>9. ToldsWell(Q, T, L, h.reg, F, V)
  <2>. SUFFICES ASSUME NEW t \in Q, t.do \in Tells PROVE ToldWell(t, Q, T, L, h.reg, F, V)
    BY DEF ToldsWell
  <2>1. ToldWell(t, {h} \cup Q, T, L, reg, F, V)
    BY DEF PlanOK, ToldsWell
  <2>2. \A e \in t.reg : F[e.dir] = "skill"
    BY <1>2, <2>1 DEF ToldWell, FileSteps
  <2>. QED  BY <2>1, <2>2 DEF ToldWell
<1>10. ListOK(V, Q, O)
  BY <1>2 DEF ListOK
<1>. QED  BY <1>4, <1>5, <1>6, <1>7, <1>8, <1>9, <1>10 DEF PlanOK

\* The flag is set in config.toml.
LEMMA FlagDone ==
  ASSUME NEW h \in Steps, NEW Q \in SUBSET Steps, NEW T \in SUBSET Entries, NEW L, NEW reg \in SUBSET Entries,
         NEW F, NEW O, NEW V,
         NEW O2, O2 = IF h.do = "on" THEN O \ {h.dir} ELSE O \cup {h.dir}, h.do \in {"on", "off"},
         \A t \in Q : Before(h, t), PlanOK({h} \cup Q, T, L, reg, F, O, V), ListOK(V, {h} \cup Q, O),
         Apart(reg), OffIn(reg, O, Half({h} \cup Q))
  PROVE  /\ PlanOK(Q, T, L, reg, F, O2, V) /\ ListOK(V, Q, O2) /\ OffIn(reg, O2, Half(Q))
         /\ ~WillSave({h} \cup Q)
<1>1. \A t \in Q : t.do \in Tells
  BY DEF Before, FileSteps
<1>2. \A t \in Q : t.do \notin FileSteps \cup {"registry", "on", "off"}
  BY <1>1 DEF Tells, FileSteps
<1>3. /\ ~WillSave(Q) /\ ~WillFlag(Q) /\ ~WillSave({h} \cup Q) /\ WillFlag({h} \cup Q)
      /\ \A d : ~Will({h} \cup Q, "manifest", d) /\ (Will({h} \cup Q, "set", d) <=> Will(Q, "set", d))
  <2>1. ~WillSave(Q) /\ ~WillFlag(Q) /\ \A d : ~Will(Q, "manifest", d)
    BY <1>2 DEF WillSave, WillFlag, Will, FileSteps
  <2>. QED  BY <2>1, WithoutFirst
<1>4. FlagWell(h, {h} \cup Q, T, reg, O)
  BY FlagPlan
<1>5. /\ Will(Q, "set", h.dir) /\ \A t \in Q : t.do \in {"set", "kept"} => t.dir = h.dir
      /\ Entry(h.src, h.dir, h.do = "on") \in reg
  BY <1>3, <1>4 DEF FlagWell
<1>6. h.src \in Sources /\ h.dir \in Dirs
  BY StepFields DEF DirSteps
<1>7. \A x \in reg : x.dir = h.dir => x.on = (h.do = "on")
  <2>1. PICK b \in BOOLEAN : b = (h.do = "on")
    OBVIOUS
  <2>2. Entry(h.src, h.dir, b).dir = h.dir /\ Entry(h.src, h.dir, b).on = b
    BY <1>6, EntryType
  <2>3. \A x \in reg : x.dir = h.dir => x = Entry(h.src, h.dir, b)
    BY <1>5, <2>1, <2>2 DEF Apart
  <2>. QED  BY <2>1, <2>2, <2>3
<1>8. Half({h} \cup Q) \subseteq {h.dir}
  BY <1>5 DEF Half
<1>9. OffIn(reg, O2, Half(Q))
  <2>. SUFFICES ASSUME NEW x \in reg, ~x.on PROVE x.dir \in O2
    BY DEF OffIn
  <2>1. x.dir \in O \cup {h.dir}
    BY <1>8 DEF OffIn
  <2>2. CASE x.dir = h.dir
    BY <1>7, <2>2
  <2>3. CASE x.dir # h.dir
    BY <2>1, <2>3
  <2>. QED  BY <2>2, <2>3
<1>10. ListOK(V, Q, O2)
  <2>1. Apart(V) /\ \A e \in V : ~e.on => e.dir \in O
    BY <1>3 DEF ListOK
  <2>. QED  BY <1>3, <1>5, <2>1 DEF ListOK
<1>11. FilesFirst(Q) /\ SavesWell(Q, T, L, F, O2) /\ FlagsWell(Q, T, reg, O2)
  BY <1>2 DEF FilesFirst, SavesWell, FlagsWell
<1>12. ToldsWell(Q, T, L, reg, F, V)
  <2>. SUFFICES ASSUME NEW t \in Q, t.do \in Tells PROVE ToldWell(t, Q, T, L, reg, F, V)
    BY DEF ToldsWell
  <2>1. ToldWell(t, {h} \cup Q, T, L, reg, F, V)
    BY DEF PlanOK, ToldsWell
  <2>. QED  BY <1>2, <1>3, <2>1 DEF ToldWell
<1>. QED  BY <1>3, <1>9, <1>10, <1>11, <1>12 DEF PlanOK

\* The marker of the bundled skills is written.
LEMMA MarkDone ==
  ASSUME NEW h \in Steps, NEW Q \in SUBSET Steps, NEW T \in SUBSET Entries, NEW L, NEW reg, NEW F, NEW O, NEW V,
         h.do = "marker", \A t \in Q : Before(h, t), PlanOK({h} \cup Q, T, L, reg, F, O, V), ListOK(V, {h} \cup Q, O)
  PROVE  /\ PlanOK(Q, T, L, reg, F, O, V) /\ ListOK(V, Q, O) /\ ~WillSave({h} \cup Q)
         /\ Half({h} \cup Q) = Half(Q)
<1>1. \A t \in Q : t.do \in Tells
  BY DEF Before, FileSteps
<1>2. \A t \in Q : t.do \notin FileSteps \cup {"registry", "on", "off"}
  BY <1>1 DEF Tells, FileSteps
<1>3. ~WillSave(Q) /\ ~WillFlag(Q) /\ \A d : ~Will(Q, "manifest", d)
  BY <1>2 DEF WillSave, WillFlag, Will, FileSteps
<1>4. /\ ~WillSave({h} \cup Q) /\ ~WillFlag({h} \cup Q) /\ Half({h} \cup Q) = Half(Q)
      /\ \A d : ~Will({h} \cup Q, "manifest", d) /\ (Will({h} \cup Q, "set", d) <=> Will(Q, "set", d))
  BY <1>3, WithoutFirst
<1>5. FilesFirst(Q) /\ SavesWell(Q, T, L, F, O) /\ FlagsWell(Q, T, reg, O)
  BY <1>2 DEF FilesFirst, SavesWell, FlagsWell
<1>6. ToldsWell(Q, T, L, reg, F, V)
  <2>. SUFFICES ASSUME NEW t \in Q, t.do \in Tells PROVE ToldWell(t, Q, T, L, reg, F, V)
    BY DEF ToldsWell
  <2>1. ToldWell(t, {h} \cup Q, T, L, reg, F, V)
    BY DEF PlanOK, ToldsWell
  <2>. QED  BY <1>2, <1>4, <2>1 DEF ToldWell
<1>7. ListOK(V, Q, O)
  BY <1>3, <1>4 DEF ListOK
<1>. QED  BY <1>4, <1>5, <1>6, <1>7 DEF PlanOK

\* What the page lists and what is lost when the call has returned, in which h is done.
RegistryIs(reg, hw, ent) == reg = IF hw THEN {} ELSE ent
LostThen(M, h, T, L) == M = {x \in L : Of(h.reg, x) = Of(T, x)}
ListThen(W, h, V, reg) == W = IF h.do = "set" THEN Without(V, h) \cup {x \in reg : SameId(x, h)} ELSE V

\* The call returns, and the user is told.
LEMMA TellDone ==
  ASSUME NEW h \in Steps, NEW Q \in SUBSET Steps, NEW T \in SUBSET Entries, NEW L, NEW reg \in SUBSET Entries,
         NEW F, NEW O, NEW V \in SUBSET Entries, NEW hw, NEW ent,
         h.do \in Tells, \A t \in Q : Before(h, t), PlanOK({h} \cup Q, T, L, reg, F, O, V), ListOK(V, {h} \cup Q, O),
         RegistryIs(reg, hw, ent), RegistryOK(hw, ent, T, L), OffIn(reg, O, Half({h} \cup Q)),
         NEW M, NEW W, LostThen(M, h, T, L), ListThen(W, h, V, reg)
  PROVE  /\ Q = {} /\ ~WillSave({h} \cup Q) /\ Made(h.reg, F) /\ RegistryOK(hw, ent, h.reg, M)
         /\ (hw => h.reg = {}) /\ OffIn(reg, O, {}) /\ ListOK(W, {}, O)
<1>0. /\ reg = (IF hw THEN {} ELSE ent) /\ M = {x \in L : Of(h.reg, x) = Of(T, x)}
      /\ W = IF h.do = "set" THEN Without(V, h) \cup {x \in reg : SameId(x, h)} ELSE V
  BY DEF RegistryIs, LostThen, ListThen
<1>1. Q = {}
  BY DEF Before, FileSteps, Tells
<1>2. /\ ~WillSave({h}) /\ ~WillFlag({h}) /\ Half({h}) = {}
      /\ \A d : ~Will({h}, "manifest", d) /\ (Will({h}, "set", d) => h.do = "set" /\ h.dir = d)
  BY DEF WillSave, WillFlag, Half, Will, Tells
<1>3. ToldWell(h, {h}, T, L, reg, F, V)
  BY <1>1 DEF PlanOK, ToldsWell
<1>4. Made(h.reg, F)
  BY <1>2, <1>3 DEF ToldWell, Made
<1>5. Leads(h.reg, reg, T, L)
  BY <1>2, <1>3 DEF ToldWell
<1>6. hw => h.reg = {}
  BY <1>0, <1>5 DEF Leads
<1>7. ASSUME ~hw PROVE HasTold(reg, h.reg, M)
  <2>. SUFFICES ASSUME NEW e \in h.reg PROVE \E x \in reg : x.dir = e.dir /\ Fine(x, h.reg, M)
    BY DEF HasTold
  <2>1. PICK x \in reg : x.dir = e.dir /\ (x \in h.reg \/ (Of(h.reg, e.dir) = Of(T, e.dir) /\ Fine(x, T, L)))
    BY <1>5 DEF Leads
  <2>2. CASE x \in h.reg
    BY <2>1, <2>2 DEF Fine
  <2>3. CASE Of(h.reg, e.dir) = Of(T, e.dir) /\ x \in T
    <3>1. x \in Of(T, e.dir)
      BY <2>1, <2>3 DEF Of
    <3>2. x \in h.reg
      BY <2>3, <3>1 DEF Of
    <3>. QED  BY <2>1, <3>2 DEF Fine
  <2>4. CASE Of(h.reg, e.dir) = Of(T, e.dir) /\ x.dir \in L /\ x = Entry("local", x.dir, TRUE)
    <3>1. x.dir \in M
      BY <1>0, <2>1, <2>4
    <3>. QED  BY <2>1, <2>4, <3>1 DEF Fine
  <2>. QED  BY <2>1, <2>2, <2>3, <2>4 DEF Fine
<1>8. RegistryOK(hw, ent, h.reg, M)
  BY <1>0, <1>6, <1>7 DEF RegistryOK
<1>9. OffIn(reg, O, {})
  BY <1>1, <1>2
<1>10. Apart(reg)
  BY <1>0 DEF RegistryOK, Apart
<1>11. Apart(V) /\ \A e \in V : ~e.on => e.dir \in O \/ (h.do = "set" /\ h.dir = e.dir)
  BY <1>1, <1>2 DEF ListOK
<1>12. ListOK(W, {}, O)
  <2>1. CASE h.do # "set"
    BY <1>0, <1>11, <2>1 DEF ListOK
  <2>2. CASE h.do = "set"
    <3>1. \A e \in V : e.dir = h.dir => SameId(e, h)
      BY <1>3, <2>2 DEF ToldWell
    <3>2. \A x \in W : (x \in V /\ x.dir # h.dir) \/ (x \in reg /\ x.dir = h.dir)
      BY <1>0, <2>2, <3>1 DEF Without, SameId
    <3>3. Apart(W)
      BY <1>10, <1>11, <3>2 DEF Apart
    <3>4. \A x \in W : ~x.on => x.dir \in O
      BY <1>9, <1>11, <3>2 DEF OffIn
    <3>. QED  BY <3>3, <3>4 DEF ListOK
  <2>. QED  BY <2>1, <2>2
<1>. QED  BY <1>1, <1>2, <1>4, <1>6, <1>8, <1>9, <1>12

-----------------------------------------------------------------------------
(* The skills: what an operation plans *)

LEMMA RegistryStep ==
  ASSUME NEW R \in SUBSET Entries
  PROVE  \E s \in Steps : /\ SaveSkills(R) = <<s>> /\ s.do = "registry" /\ s.reg = R
<1>1. {} \in SUBSET Entries /\ "local" \in Sources
  BY SomeSources
<1>. QED  BY <1>1, StepType DEF SaveSkills, Doings, DirSteps, FileSteps

LEMMA ListStep == \E s \in Steps : ReadList = <<s>> /\ s.do = "list"
<1>1. {} \in SUBSET Entries /\ "local" \in Sources
  BY SomeSources
<1>2. Step("list", NoDir, "local", {}) \in Steps /\ Step("list", NoDir, "local", {}).do = "list"
  BY <1>1, StepType DEF Doings, DirSteps, FileSteps
<1>. QED  BY <1>2 DEF ReadList

OnlyFiles(Q) == \A x \in Q : x.do \in FileSteps
OnlyFlags(Q) == \A x \in Q : x.do \in {"on", "off", "marker"}

IsSave(s, R) == s.do = "registry" /\ s.reg = R
Whole(P, s, M, t) == P \cup {s} \cup M \cup {t}
Plan(P, R, M, E) == P \o SaveSkills(R) \o M \o E

\* Directories, the registry, the marker or a flag, and the user is told, in this order.
LEMMA Composed ==
  ASSUME NEW P \in Seq(Steps), NEW M \in Seq(Steps), NEW R \in SUBSET Entries, NEW t \in Steps, t.do \in Tells,
         NEW w, w = Plan(P, R, M, <<t>>),
         OnlyFiles(Todo(P)), InTurn(M), OnlyFlags(Todo(M))
  PROVE  \E s \in Steps : /\ w \in Seq(Steps) /\ InTurn(w) /\ Todo(w) = Whole(Todo(P), s, Todo(M), t)
                          /\ IsSave(s, R)
<1>1. PICK s \in Steps : SaveSkills(R) = <<s>> /\ s.do = "registry" /\ s.reg = R
  BY RegistryStep
<1>3. <<s>> \in Seq(Steps) /\ <<t>> \in Seq(Steps)
  OBVIOUS
<1>4. /\ Todo(<<s>>) = {s} /\ InTurn(<<s>>) /\ Todo(<<t>>) = {t} /\ InTurn(<<t>>)
  BY TodoOne
<1>5. InTurn(P)
  <2>1. \A i \in 1..Len(P) : P[i].do \in FileSteps
    BY DEF Todo, OnlyFiles
  <2>. QED  BY <2>1 DEF InTurn, Before
<1>6. PICK u : u = P \o <<s>>
  OBVIOUS
<1>7. u \in Seq(Steps) /\ Todo(u) = Todo(P) \cup {s} /\ InTurn(u)
  <2>1. \A x \in Todo(P), y \in Todo(<<s>>) : Before(x, y)
    BY DEF Before, OnlyFiles
  <2>. QED  BY <1>3, <1>4, <1>5, <1>6, <2>1, TodoJoined
<1>8. PICK v : v = u \o M
  OBVIOUS
<1>9. v \in Seq(Steps) /\ Todo(v) = Todo(P) \cup {s} \cup Todo(M) /\ InTurn(v)
  <2>1. \A x \in Todo(u), y \in Todo(M) : Before(x, y)
    BY <1>1, <1>7 DEF Before, FileSteps, OnlyFiles, OnlyFlags
  <2>. QED  BY <1>7, <1>8, <2>1, TodoJoined
<1>10. w = v \o <<t>>
  BY <1>1, <1>6, <1>8 DEF Plan
<1>11. w \in Seq(Steps) /\ Todo(w) = Todo(P) \cup {s} \cup Todo(M) \cup {t} /\ InTurn(w)
  <2>1. \A x \in Todo(v), y \in Todo(<<t>>) : Before(x, y)
    BY <1>1, <1>4, <1>9 DEF Before, FileSteps, OnlyFiles, OnlyFlags, Tells
  <2>2. w \in Seq(Steps) /\ Todo(w) = Todo(v) \cup Todo(<<t>>) /\ InTurn(w)
    <3>1. InTurn(v) /\ InTurn(<<t>>) /\ v \in Seq(Steps) /\ <<t>> \in Seq(Steps)
      BY <1>3, <1>4, <1>9
    <3>. QED  BY <1>10, <2>1, <3>1, TodoJoined
  <2>. QED  BY <1>4, <1>9, <2>2
<1>. QED  BY <1>1, <1>11 DEF Whole, IsSave

\* What such a plan has to say: of the directories of R, which is saved, of the flag that is
\* set, and of what is told by t.
HousesAll(P, R, F) ==
  \A x \in R : /\ F[x.dir] # "none" \/ Will(P, "copy", x.dir) \/ Will(P, "manifest", x.dir)
               /\ ~Will(P, "unlink", x.dir) /\ ~Will(P, "rmdir", x.dir)
FlagFits(P, M, R, t, T, O) ==
  /\ \A m \in M : m.do = "marker" => t.do = "tell"
  /\ \A m \in M : m.do \in {"on", "off"} =>
       /\ P = {} /\ t.do = "set" /\ t.dir = m.dir
       /\ Entry(m.src, m.dir, m.do = "on") \in R
       /\ Of(T, m.dir) # {} => \A b \in BOOLEAN : Entry(m.src, m.dir, b) \in T
       /\ m.do = "on" => m.dir \in O
TellFits(P, R, t, T, L, F, V) ==
  /\ t.do \in Tells
  /\ \A e \in t.reg : F[e.dir] = "skill" \/ Will(P, "manifest", e.dir)
  /\ Leads(t.reg, R, T, L)
  /\ t.do = "set" => \A e \in V : e.dir = t.dir => SameId(e, t)
PlanFits(P, M, R, t, T, L, F, O, V) ==
  /\ OnlyFiles(P) /\ OnlyFlags(M) /\ Apart(R) /\ HasTold(R, T, L)
  /\ HousesAll(P, R, F) /\ OffIn(R, O, WillOff(M)) /\ FlagFits(P, M, R, t, T, O) /\ TellFits(P, R, t, T, L, F, V)

\* Such a plan leads to what the user will be told.
LEMMA TellPlan ==
  ASSUME NEW P \in SUBSET Steps, NEW M \in SUBSET Steps, NEW s \in Steps, NEW t \in Steps,
         NEW R, NEW T, NEW L, NEW reg, NEW F, NEW O, NEW V,
         IsSave(s, R), PlanFits(P, M, R, t, T, L, F, O, V)
  PROVE  PlanOK(Whole(P, s, M, t), T, L, reg, F, O, V) /\ WillSave(Whole(P, s, M, t))
<1>1. PICK Q : Q = Whole(P, s, M, t)
  OBVIOUS
<1>2. Q = P \cup {s} \cup M \cup {t}
  BY <1>1 DEF Whole
<1>3. /\ s.do = "registry" /\ s.reg = R /\ t.do \in Tells
      /\ OnlyFiles(P) /\ OnlyFlags(M) /\ Apart(R) /\ HasTold(R, T, L)
      /\ HousesAll(P, R, F) /\ OffIn(R, O, WillOff(M)) /\ FlagFits(P, M, R, t, T, O) /\ TellFits(P, R, t, T, L, F, V)
  BY DEF IsSave, PlanFits, TellFits
<1>4. /\ \A x \in Q : x.do = "registry" <=> x = s
      /\ \A x \in Q : x.do \in Tells <=> x = t
      /\ \A x \in Q : x.do \in FileSteps <=> x \in P
      /\ \A x \in Q : x.do \in {"on", "off"} => x \in M
      /\ s \in Q /\ t \in Q /\ M \subseteq Q
  BY <1>2, <1>3 DEF FileSteps, OnlyFiles, OnlyFlags, Tells
<1>5. WillSave(Q)
  BY <1>3, <1>4 DEF WillSave
<1>6. \A what \in FileSteps : \A d : Will(Q, what, d) <=> Will(P, what, d)
  BY <1>2, <1>4 DEF Will
<1>7. FilesFirst(Q)
  BY <1>5 DEF FilesFirst
<1>8. SavesWell(Q, T, L, F, O)
  <2>1. OffIn(R, O, WillOff(Q))
    <3>1. WillOff(M) \subseteq WillOff(Q)
      BY <1>4 DEF WillOff
    <3>. QED  BY <1>3, <3>1 DEF OffIn
  <2>2. SavedWell(s, Q, T, L, F, O)
    BY <1>3, <1>6, <2>1 DEF SavedWell, FileSteps, HousesAll
  <2>. QED  BY <1>4, <2>2 DEF SavesWell
<1>9. FlagsWell(Q, T, reg, O)
  <2>. SUFFICES ASSUME NEW m \in Q, m.do \in {"on", "off"} PROVE FlagWell(m, Q, T, reg, O)
    BY DEF FlagsWell
  <2>1. m \in M
    BY <1>4
  <2>2. /\ P = {} /\ t.do = "set" /\ t.dir = m.dir
        /\ Entry(m.src, m.dir, m.do = "on") \in R
        /\ Of(T, m.dir) # {} => \A b \in BOOLEAN : Entry(m.src, m.dir, b) \in T
        /\ m.do = "on" => m.dir \in O
    BY <1>3, <2>1 DEF FlagFits
  <2>3. Will(Q, "set", m.dir) /\ \A x \in Q : x.do \in {"set", "kept"} => x.dir = m.dir
    BY <1>4, <2>2 DEF Will, Tells
  <2>4. \A x \in Q : x.do \notin FileSteps
    BY <1>4, <2>2
  <2>5. \A x \in Q : x.do = "registry" => Entry(m.src, m.dir, m.do = "on") \in x.reg
    BY <1>3, <1>4, <2>2
  <2>. QED  BY <1>5, <2>2, <2>3, <2>4, <2>5 DEF FlagWell
<1>10. ToldsWell(Q, T, L, reg, F, V)
  <2>1. \A e \in t.reg : F[e.dir] = "skill" \/ Will(Q, "manifest", e.dir)
    BY <1>3, <1>6 DEF TellFits, FileSteps
  <2>2. \A x \in Q : x.do = "registry" => Leads(t.reg, x.reg, T, L)
    BY <1>3, <1>4 DEF TellFits
  <2>3. \A x, y \in Q : x.do = "registry" /\ y.do = "registry" => x = y
    BY <1>4
  <2>4. t.do = "set" => \A e \in V : e.dir = t.dir => SameId(e, t)
    BY <1>3 DEF TellFits
  <2>5. t.do \in {"set", "kept"} => \A x \in Q : x.do # "marker"
    BY <1>2, <1>3 DEF FlagFits, OnlyFiles, FileSteps
  <2>6. ToldWell(t, Q, T, L, reg, F, V)
    BY <1>5, <2>1, <2>2, <2>3, <2>4, <2>5 DEF ToldWell
  <2>. QED  BY <1>4, <2>6 DEF ToldsWell
<1>. QED  BY <1>1, <1>5, <1>7, <1>8, <1>9, <1>10 DEF PlanOK

\* Both together.
LEMMA PlanTold ==
  ASSUME NEW P \in Seq(Steps), NEW M \in Seq(Steps), NEW R \in SUBSET Entries, NEW t \in Steps,
         NEW T, NEW L, NEW reg, NEW F, NEW O, NEW V, NEW w, w = Plan(P, R, M, <<t>>),
         InTurn(M), PlanFits(Todo(P), Todo(M), R, t, T, L, F, O, V)
  PROVE  InTurn(w) /\ PlanOK(Todo(w), T, L, reg, F, O, V) /\ WillSave(Todo(w))
<1>0. t.do \in Tells /\ OnlyFiles(Todo(P)) /\ OnlyFlags(Todo(M))
  BY DEF PlanFits, TellFits
<1>1. PICK s \in Steps :
        /\ w \in Seq(Steps) /\ InTurn(w) /\ Todo(w) = Whole(Todo(P), s, Todo(M), t)
        /\ IsSave(s, R)
  BY <1>0, Composed
<1>2. Todo(P) \in SUBSET Steps /\ Todo(M) \in SUBSET Steps
  BY DEF Todo
<1>3. PICK p, m, q : p = Todo(P) /\ m = Todo(M) /\ q = Whole(p, s, m, t)
  OBVIOUS
<1>4. p \in SUBSET Steps /\ m \in SUBSET Steps /\ PlanFits(p, m, R, t, T, L, F, O, V)
  BY <1>2, <1>3
<1>5. PlanOK(Whole(p, s, m, t), T, L, reg, F, O, V) /\ WillSave(Whole(p, s, m, t))
  BY <1>1, <1>4, TellPlan
<1>. QED  BY <1>1, <1>3, <1>5

\* What reconcile_skills plans, and then the page may read the list.
LEMMA ReconcilePlan ==
  ASSUME NEW reg \in SUBSET Entries, NEW T \in SUBSET Entries, NEW L, NEW reg2, NEW O, NEW V, NEW w,
         NEW l \in {<<>>, ReadList}, files \in FileStates, w = ReconcileWrites(reg) \o l,
         Apart(reg), OffIn(reg, O, {}), HasTold(Reconciled(reg), T, L), reg # {} => HasTold(Valid(reg), T, L)
  PROVE  /\ InTurn(w) /\ PlanOK(Todo(w), T, L, reg2, files, O, V)
         /\ WillSave(Todo(w)) \/ (Reconciled(reg) = {} /\ reg = {})
<1>1. PICK F, U, N : F = files /\ U = Valid(reg) /\ N = Reconciled(reg)
  OBVIOUS
<1>2. U \in SUBSET Entries /\ N \in SUBSET Entries
  BY <1>1, NewLocalType DEF Valid, Reconciled
<1>3. Apart(U) /\ Housed(U, F) /\ OffIn(U, O, {})
  BY <1>1 DEF Apart, Housed, OffIn, Valid, Exists
<1>4. \A d \in Dirs : /\ Entry("local", d, TRUE).dir = d /\ Entry("local", d, TRUE).on /\ Entry("local", d, TRUE) \in Entries
  BY EntryType, SomeSources
<1>5. ASSUME NEW x \in NewLocal(U)
      PROVE  x.dir \in Dirs /\ x = Entry("local", x.dir, TRUE) /\ x.on /\ F[x.dir] = "skill" /\ \A y \in U : y.dir # x.dir
  <2>1. PICK d \in Dirs : x = Entry("local", d, TRUE) /\ HasManifest(d) /\ Of(U, d) = {}
    BY DEF NewLocal
  <2>. QED  BY <1>1, <1>4, <2>1 DEF HasManifest, Of
<1>6. N = U \cup NewLocal(U)
  BY <1>1 DEF Reconciled
<1>7. Apart(N) /\ Housed(N, F) /\ OffIn(N, O, {})
  <2>1. Housed(N, F) /\ OffIn(N, O, {})
    BY <1>3, <1>5, <1>6 DEF Housed, OffIn
  <2>2. ASSUME NEW x \in N, NEW y \in N, x.dir = y.dir PROVE x = y
    <3>1. CASE x \in U /\ y \in U
      BY <1>3, <2>2, <3>1 DEF Apart
    <3>2. CASE x \in NewLocal(U) /\ y \in NewLocal(U)
      BY <1>5, <2>2, <3>2
    <3>3. CASE x \in U /\ y \in NewLocal(U)
      BY <1>5, <2>2, <3>3
    <3>4. CASE x \in NewLocal(U) /\ y \in U
      BY <1>5, <2>2, <3>4
    <3>. QED  BY <1>6, <3>1, <3>2, <3>3, <3>4
  <2>. QED  BY <2>1, <2>2 DEF Apart
<1>8. PICK a \in Steps : SaveSkills(U) = <<a>> /\ a.do = "registry" /\ a.reg = U
  BY <1>2, RegistryStep
<1>9. PICK b \in Steps : SaveSkills(N) = <<b>> /\ b.do = "registry" /\ b.reg = N
  BY <1>2, RegistryStep
<1>10. PICK u, v : /\ u = (IF reg # {} THEN <<a>> ELSE <<>>)
                   /\ v = (IF NewLocal(U) # {} THEN <<b>> ELSE <<>>)
  OBVIOUS
<1>11. w = (u \o v) \o l
  BY <1>1, <1>8, <1>9, <1>10 DEF ReconcileWrites
<1>12. <<>> \in Seq(Steps) /\ <<a>> \in Seq(Steps) /\ <<b>> \in Seq(Steps)
  OBVIOUS
<1>13. u \in Seq(Steps) /\ InTurn(u) /\ Todo(u) = IF reg # {} THEN {a} ELSE {}
  BY <1>10, <1>12, TodoNone, TodoOne
<1>14. v \in Seq(Steps) /\ InTurn(v) /\ Todo(v) = IF NewLocal(U) # {} THEN {b} ELSE {}
  BY <1>10, <1>12, TodoNone, TodoOne
<1>15. l \in Seq(Steps) /\ InTurn(l) /\ \A x \in Todo(l) : x.do = "list"
  <2>3. PICK k \in Steps : k.do = "list" /\ ReadList = <<k>>
    BY ListStep
  <2>4. <<k>> \in Seq(Steps)
    OBVIOUS
  <2>. QED  BY <1>12, <2>3, <2>4, TodoNone, TodoOne
<1>16. PICK c : c = u \o v
  OBVIOUS
<1>17. c \in Seq(Steps) /\ InTurn(c) /\ Todo(c) = Todo(u) \cup Todo(v)
  <2>1. \A x \in Todo(u), y \in Todo(v) : Before(x, y)
    <3>1. ASSUME NewLocal(U) # {} PROVE a # b
      BY <1>5, <1>6, <1>8, <1>9, <3>1
    <3>. QED  BY <1>8, <1>9, <1>13, <1>14, <3>1 DEF Before, FileSteps
  <2>. QED  BY <1>13, <1>14, <1>16, <2>1, TodoJoined
<1>18. PICK Q : Q = Todo(w)
  OBVIOUS
<1>19. InTurn(w) /\ Q = Todo(u) \cup Todo(v) \cup Todo(l)
  <2>1. \A x \in Todo(c), y \in Todo(l) : Before(x, y)
    <3>1. \A x \in Todo(c) : x.do = "registry"
      BY <1>8, <1>9, <1>13, <1>14, <1>17
    <3>. QED  BY <1>15, <3>1 DEF Before, FileSteps
  <2>2. w = c \o l
    BY <1>11, <1>16
  <2>. QED  BY <1>15, <1>17, <1>18, <2>1, <2>2, TodoJoined
<1>20. \A x \in Q : x.do = "list" \/ (x = a /\ reg # {}) \/ (x = b /\ NewLocal(U) # {})
  BY <1>13, <1>14, <1>15, <1>19
<1>21. \A x \in Q : x.do \in {"list", "registry"}
  BY <1>8, <1>9, <1>20
<1>22. \A d : ~Will(Q, "unlink", d) /\ ~Will(Q, "rmdir", d)
  BY <1>21 DEF Will
<1>23. SavesWell(Q, T, L, F, O)
  <2>1. \A R : OffIn(R, O, {}) => OffIn(R, O, WillOff(Q))
    BY DEF OffIn
  <2>2. ASSUME reg # {} PROVE SavedWell(a, Q, T, L, F, O)
    BY <1>1, <1>3, <1>8, <1>22, <2>1, <2>2 DEF SavedWell, Housed
  <2>3. SavedWell(b, Q, T, L, F, O)
    BY <1>1, <1>7, <1>9, <1>22, <2>1 DEF SavedWell, Housed
  <2>. QED  BY <1>20, <2>2, <2>3 DEF SavesWell
<1>24. FilesFirst(Q) /\ FlagsWell(Q, T, reg2, O) /\ ToldsWell(Q, T, L, reg2, F, V)
  BY <1>21 DEF FilesFirst, FlagsWell, ToldsWell, FileSteps, Tells
<1>25. WillSave(Q) \/ (N = {} /\ reg = {})
  <2>1. CASE reg # {}
    <3>1. a \in Q
      BY <1>13, <1>19, <2>1
    <3>. QED  BY <1>8, <3>1 DEF WillSave
  <2>2. CASE NewLocal(U) # {}
    <3>1. b \in Q
      BY <1>14, <1>19, <2>2
    <3>. QED  BY <1>9, <3>1 DEF WillSave
  <2>3. CASE reg = {} /\ NewLocal(U) = {}
    <3>1. U = {}
      BY <1>1, <2>3 DEF Valid
    <3>. QED  BY <1>6, <2>3, <3>1
  <2>. QED  BY <2>1, <2>2, <2>3
<1>. QED  BY <1>1, <1>18, <1>19, <1>23, <1>24, <1>25 DEF PlanOK

-----------------------------------------------------------------------------
(* The skills: between operations *)

LEMMA AtRest ==
  ASSUME DiskOK, writes = <<>>
  PROVE  /\ Made(told, files) /\ RegistryOK(halfWritten, entries, told, lost) /\ Apart(Registered)
         /\ OffIn(Registered, off \cup halved, {}) /\ Apart(installedStore) /\ OffIn(installedStore, off \cup halved, {})
         /\ phase # "boot" => /\ Housed(Registered, files) /\ HasTold(Registered, told, lost)
                              /\ Registered = {} \/ halfWritten => told = {}
<1>1. Todo(writes) = {}
  BY TodoNone
<1>2. PICK T, L, reg, F, O, V : T = told /\ L = lost /\ reg = Registered /\ F = files /\ O = off \cup halved /\ V = installedStore
  OBVIOUS
<1>3. ~WillSave({}) /\ Half({}) = {} /\ \A what, d : ~Will({}, what, d)
  BY NothingLeft
<1>4. Made(T, F) /\ RegistryOK(halfWritten, entries, T, L) /\ OffIn(reg, O, {}) /\ ListOK(V, {}, O)
  BY <1>1, <1>2, <1>3 DEF DiskOK
<1>5. reg = IF halfWritten THEN {} ELSE entries
  BY <1>2 DEF Registered
<1>6. Apart(reg)
  BY <1>4, <1>5 DEF RegistryOK, Apart
<1>7. Apart(V) /\ OffIn(V, O, {})
  BY <1>3, <1>4 DEF ListOK, OffIn
<1>8. ASSUME phase # "boot" PROVE Housed(reg, F) /\ (halfWritten => T = {})
  BY <1>1, <1>2, <1>3, <1>8 DEF DiskOK, Stands
<1>9. ASSUME phase # "boot" PROVE HasTold(reg, T, L) /\ (reg = {} => T = {})
  <2>1. HasTold(reg, T, L)
    BY <1>4, <1>5, <1>8, <1>9 DEF RegistryOK, HasTold
  <2>. QED  BY <2>1 DEF HasTold
<1>. QED  BY <1>2, <1>4, <1>6, <1>7, <1>8, <1>9

\* An operation begins: it has planned its writes, and done none.
LEMMA Begun ==
  ASSUME DiskOK, writes = <<>>, UNCHANGED <<skillDisk, installedStore, lost, halved>>, phase' # "boot",
         InTurn(writes'), Made(told', files), RegistryOK(halfWritten, entries, told', lost),
         PlanOK(Todo(writes'), told', lost, Registered, files, off \cup halved, installedStore),
         Stands(Todo(writes'), halfWritten, told', Registered, files)
  PROVE  DiskOK'
<1>1. /\ entries' = entries /\ halfWritten' = halfWritten /\ files' = files /\ off' = off
      /\ installedStore' = installedStore /\ lost' = lost /\ halved' = halved
  BY DEF skillDisk
<1>2. Registered' = Registered
  BY <1>1 DEF Registered
<1>3. OffIn(Registered, off \cup halved, {}) /\ Apart(installedStore) /\ OffIn(installedStore, off \cup halved, {})
  BY AtRest
<1>4. OffIn(Registered, off \cup halved, Half(Todo(writes')))
  BY <1>3 DEF OffIn
<1>5. ListOK(installedStore, Todo(writes'), off \cup halved)
  BY <1>3 DEF ListOK, OffIn
<1>. QED  BY <1>1, <1>2, <1>4, <1>5 DEF DiskOK

\* Nothing is planned and nothing changes on the disk.
LEMMA DiskKept ==
  ASSUME DiskOK, UNCHANGED <<skillDisk, installedStore, told, lost, halved, writes, phase>>
  PROVE  DiskOK'
<1>1. /\ entries' = entries /\ halfWritten' = halfWritten /\ files' = files /\ off' = off
      /\ told' = told /\ writes' = writes /\ phase' = phase
      /\ installedStore' = installedStore /\ lost' = lost /\ halved' = halved
  BY DEF skillDisk
<1>2. Registered' = Registered
  BY <1>1 DEF Registered
<1>. QED  BY <1>1, <1>2 DEF DiskOK

\* An operation plans nothing on the disk: at most that the user is told the same, or that the list is read.
LEMMA DiskRests ==
  ASSUME DiskOK, writes = <<>>, UNCHANGED <<skillDisk, installedStore, told, lost, halved>>, phase # "boot", phase' # "boot",
         told \in SUBSET Entries, writes' \in {<<>>, ReadList, Tell(told)}
  PROVE  DiskOK'
<1>1. /\ Made(told, files) /\ RegistryOK(halfWritten, entries, told, lost)
      /\ Housed(Registered, files) /\ HasTold(Registered, told, lost) /\ (halfWritten => told = {})
  BY AtRest
<1>2. PICK k \in Steps : ReadList = <<k>> /\ k.do = "list"
  BY ListStep
<1>3. PICK t \in Steps : Tell(told) = <<t>> /\ t.do = "tell" /\ t.reg = told
  <2>1. {} \in SUBSET Entries /\ "local" \in Sources
    BY SomeSources
  <2>. QED  BY <2>1, StepType DEF Tell, Doings, DirSteps, FileSteps
<1>4. InTurn(writes') /\ (Todo(writes') = {} \/ Todo(writes') = {k} \/ Todo(writes') = {t})
  BY <1>2, <1>3, TodoNone, TodoOne
<1>5. PICK Q, T, L, reg, F, O, V : /\ Q = Todo(writes') /\ T = told /\ L = lost /\ reg = Registered /\ F = files
                                   /\ O = off \cup halved /\ V = installedStore
  OBVIOUS
<1>6. \A x \in Q : x.do = "list" \/ (x.do = "tell" /\ x.reg = T)
  BY <1>2, <1>3, <1>4, <1>5
<1>7. FilesFirst(Q) /\ SavesWell(Q, T, L, F, O) /\ FlagsWell(Q, T, reg, O)
  BY <1>6 DEF FilesFirst, SavesWell, FlagsWell, FileSteps
<1>8. ToldsWell(Q, T, L, reg, F, V)
  <2>. SUFFICES ASSUME NEW x \in Q, x.do \in Tells PROVE ToldWell(x, Q, T, L, reg, F, V)
    BY DEF ToldsWell
  <2>1. x.do = "tell" /\ x.reg = T
    BY <1>6 DEF Tells
  <2>2. Made(T, F) /\ HasTold(reg, T, L)
    BY <1>1, <1>5
  <2>3. Leads(T, reg, T, L)
    BY <2>2 DEF Leads, HasTold
  <2>4. \A y \in Q : y.do # "registry"
    BY <1>6
  <2>. QED  BY <2>1, <2>2, <2>3, <2>4 DEF ToldWell, Made
<1>9. PlanOK(Q, T, L, reg, F, O, V)
  BY <1>7, <1>8 DEF PlanOK
<1>10. Stands(Q, halfWritten, T, reg, F)
  BY <1>1, <1>5 DEF Stands
<1>. QED  BY <1>1, <1>4, <1>5, <1>9, <1>10, Begun

\* Files come, and nothing else changes on the disk.
LEMMA GrownKeeps ==
  ASSUME NEW R \in SUBSET Entries, NEW F, NEW G, Grown(F, G)
  PROVE  /\ Housed(R, F) => Housed(R, G)
         /\ Made(R, F) => Made(R, G)
BY EntryFields DEF Housed, Made, Grown

LEMMA PlanGrown ==
  ASSUME NEW Q \in SUBSET Steps, NEW T, NEW L, NEW reg, NEW F, NEW G, NEW O, NEW V,
         Grown(F, G), PlanOK(Q, T, L, reg, F, O, V)
  PROVE  PlanOK(Q, T, L, reg, G, O, V)
<1>1. \A s \in Q : \A e \in s.reg : e.dir \in Dirs
  BY StepFields, EntryFields
<1>2. SavesWell(Q, T, L, G, O)
  <2>. SUFFICES ASSUME NEW s \in Q, s.do = "registry" PROVE SavedWell(s, Q, T, L, G, O)
    BY DEF SavesWell
  <2>1. SavedWell(s, Q, T, L, F, O)
    BY DEF PlanOK, SavesWell
  <2>2. \A x \in s.reg : F[x.dir] # "none" => G[x.dir] # "none"
    BY <1>1 DEF Grown
  <2>. QED  BY <2>1, <2>2 DEF SavedWell
<1>3. ToldsWell(Q, T, L, reg, G, V)
  <2>. SUFFICES ASSUME NEW t \in Q, t.do \in Tells PROVE ToldWell(t, Q, T, L, reg, G, V)
    BY DEF ToldsWell
  <2>1. ToldWell(t, Q, T, L, reg, F, V)
    BY DEF PlanOK, ToldsWell
  <2>2. \A x \in t.reg : F[x.dir] = "skill" => G[x.dir] = "skill"
    BY <1>1 DEF Grown
  <2>. QED  BY <2>1, <2>2 DEF ToldWell
<1>. QED  BY <1>2, <1>3 DEF PlanOK

LEMMA DiskGrown ==
  ASSUME SkillsTypeOK, DiskOK, Grown(files, files'),
         UNCHANGED <<entries, halfWritten, off, installedStore, told, lost, halved, writes, phase>>
  PROVE  DiskOK'
<1>1. PICK Q, T, L, reg, F, G, O, V : /\ Q = Todo(writes) /\ T = told /\ L = lost /\ reg = Registered /\ F = files
                                      /\ G = files' /\ O = off \cup halved /\ V = installedStore
  OBVIOUS
<1>2. Q \in SUBSET Steps /\ T \in SUBSET Entries /\ reg \in SUBSET Entries
  <2>1. Q \in SUBSET Steps /\ T \in SUBSET Entries
    BY <1>1 DEF Todo, SkillsTypeOK, SkillPastOK
  <2>. QED  BY <1>1, <2>1, RegisteredType
<1>3. Registered' = reg
  BY <1>1 DEF Registered
<1>4. Made(T, F) /\ PlanOK(Q, T, L, reg, F, O, V)
  BY <1>1 DEF DiskOK
<1>5. Grown(F, G)
  BY <1>1
<1>6. PlanOK(Q, T, L, reg, G, O, V) /\ Made(T, G)
  BY <1>2, <1>4, <1>5, PlanGrown, GrownKeeps
<1>7. phase # "boot" => Stands(Q, halfWritten, T, reg, G)
  <2>1. Housed(reg, F) => Housed(reg, G)
    BY <1>2, <1>5, GrownKeeps
  <2>. QED  BY <1>1, <2>1 DEF DiskOK, Stands
<1>. QED  BY <1>1, <1>3, <1>6, <1>7 DEF DiskOK

-----------------------------------------------------------------------------
(* The skills: the flows *)

LEMMA FlowGrown ==
  ASSUME NEW g \in FlowStates, NEW reg, NEW F, NEW G, Grown(F, G), FlowFits(g, reg, F)
  PROVE  FlowFits(g, reg, G)
<1>1. /\ \A e \in g.read : e.dir \in Dirs
      /\ \A e \in g.new : e.dir \in Dirs
      /\ g.pc \in CopyPlaces => g.dir \in Dirs
  BY FlowTyped, EntryFields
<1>2. ASSUME Listed(g, reg, F) PROVE Listed(g, reg, G)
  <2>1. Housed(g.read, G)
    BY <1>1, <1>2 DEF Listed, Housed, Grown
  <2>2. \A e \in g.new : G[e.dir] = "skill"
    BY <1>1, <1>2 DEF Listed, Grown
  <2>3. (g.pc = "copying" => G[g.dir] # "none") /\ (g.pc = "copied" => G[g.dir] = "skill")
    BY <1>1, <1>2 DEF Listed, Grown, CopyPlaces
  <2>. QED  BY <1>2, <2>1, <2>2, <2>3 DEF Listed
<1>. QED  BY <1>2 DEF FlowFits

\* Flows other than f do not change, and f fits.
LEMMA FlowsKept ==
  ASSUME FlowsOK, flow \in [Flows -> FlowStates], UNCHANGED skillDisk, NEW f \in Flows, NEW g,
         flow' = [flow EXCEPT ![f] = g], FlowFits(g, Registered, files), phase' = phase, phase # "boot"
  PROVE  FlowsOK'
<1>1. files' = files /\ Registered' = Registered
  BY DEF skillDisk, Registered
<1>2. \A k \in Flows : FlowFits(flow'[k], Registered, files)
  BY DEF FlowsOK
<1>. QED  BY <1>1, <1>2 DEF FlowsOK

\* No flow changes.
LEMMA FlowsSame ==
  ASSUME FlowsOK, UNCHANGED <<skillDisk, flow>>, phase' = "boot" => phase = "boot"
  PROVE  FlowsOK'
<1>1. files' = files /\ Registered' = Registered /\ flow' = flow
  BY DEF skillDisk, Registered
<1>. QED  BY <1>1 DEF FlowsOK

LEMMA IdleFits == ASSUME NEW reg, NEW F PROVE FlowFits(IdleFlow, reg, F)
BY DEF FlowFits, IdleFlow, CopyPlaces

-----------------------------------------------------------------------------
(* The skills: operations begin *)

LEMMA TellStep ==
  ASSUME NEW A \in SUBSET Entries
  PROVE  \E t \in Steps : Tell(A) = <<t>> /\ t.do = "tell" /\ t.reg = A
<1>1. {} \in SUBSET Entries /\ "local" \in Sources
  BY SomeSources
<1>. QED  BY <1>1, StepType DEF Tell, Doings, DirSteps, FileSteps

\* There is nothing to set, or nothing to copy or remove.
LEMMA PlainTell ==
  ASSUME NEW P \in Seq(Steps), NEW R \in SUBSET Entries, NEW t \in Steps
  PROVE  P \o SaveSkills(R) \o <<t>> = Plan(P, R, <<>>, <<t>>)
<1>1. PICK s \in Steps : SaveSkills(R) = <<s>>
  BY RegistryStep
<1>. QED  BY <1>1 DEF Plan

LEMMA JustTell ==
  ASSUME NEW M \in Seq(Steps), NEW R \in SUBSET Entries, NEW t \in Steps
  PROVE  SaveSkills(R) \o M \o <<t>> = Plan(<<>>, R, M, <<t>>)
<1>1. PICK s \in Steps : SaveSkills(R) = <<s>>
  BY RegistryStep
<1>. QED  BY <1>1 DEF Plan

LEMMA OnlyTell ==
  ASSUME NEW R \in SUBSET Entries, NEW t \in Steps
  PROVE  SaveSkills(R) \o <<t>> = Plan(<<>>, R, <<>>, <<t>>)
<1>1. PICK s \in Steps : SaveSkills(R) = <<s>>
  BY RegistryStep
<1>. QED  BY <1>1 DEF Plan

\* More is told, of directories that something was told of.
LEMMA MoreTold ==
  ASSUME NEW T, NEW T2, NEW L, T \subseteq T2, \A e \in T2 : \E y \in T : y.dir = e.dir
  PROVE  /\ \A R : HasTold(R, T, L) => HasTold(R, T2, L)
         /\ \A hw, ent : RegistryOK(hw, ent, T, L) => RegistryOK(hw, ent, T2, L)
         /\ \A F : Made(T, F) => Made(T2, F)
<1>1. \A x : Fine(x, T, L) => Fine(x, T2, L)
  BY DEF Fine
<1>2. ASSUME NEW R, HasTold(R, T, L) PROVE HasTold(R, T2, L)
  <2>. SUFFICES ASSUME NEW e \in T2 PROVE \E x \in R : x.dir = e.dir /\ Fine(x, T2, L)
    BY DEF HasTold
  <2>1. PICK y \in T : y.dir = e.dir
    OBVIOUS
  <2>2. PICK x \in R : x.dir = y.dir /\ Fine(x, T, L)
    BY <1>2 DEF HasTold
  <2>. QED  BY <1>1, <2>1, <2>2
<1>3. ASSUME NEW hw, NEW ent, RegistryOK(hw, ent, T, L) PROVE RegistryOK(hw, ent, T2, L)
  BY <1>2, <1>3 DEF RegistryOK
<1>4. ASSUME NEW F, Made(T, F) PROVE Made(T2, F)
  <2>. SUFFICES ASSUME NEW e \in T2 PROVE F[e.dir] = "skill"
    BY DEF Made
  <2>1. PICK y \in T : y.dir = e.dir
    OBVIOUS
  <2>. QED  BY <1>4, <2>1 DEF Made
<1>. QED  BY <1>2, <1>3, <1>4

\* What was told with e is of the same directories, and e itself if one of them is its own.
LEMMA ToldAsTells ==
  ASSUME NEW e \in Entries, told \in SUBSET Entries
  PROVE  /\ ToldAs(e) \in SUBSET Entries
         /\ \A x \in ToldAs(e) : \E y \in told : y.dir = x.dir
         /\ Of(told, e.dir) # {} => e \in ToldAs(e)
         /\ \A x \in ToldAs(e) : x.dir = e.dir => Of(told, e.dir) # {} /\ x \in {e} \cup told
         /\ \A d : d # e.dir => Of(ToldAs(e), d) = Of(told, d)
<1>1. Retold(e) = {x \in told : x.dir # e.dir} \cup {e}
  BY DEF Retold
<1>2. CASE Of(told, e.dir) # {}
  <2>1. ToldAs(e) = Retold(e)
    BY <1>2 DEF ToldAs
  <2>2. \E y \in told : y.dir = e.dir
    BY <1>2 DEF Of
  <2>3. \A d : d # e.dir => Of(ToldAs(e), d) = Of(told, d)
    BY <1>1, <2>1 DEF Of
  <2>. QED  BY <1>1, <1>2, <2>1, <2>2, <2>3
<1>3. CASE Of(told, e.dir) = {}
  <2>1. ToldAs(e) = told
    BY <1>3 DEF ToldAs
  <2>2. \A x \in told : x.dir # e.dir
    BY <1>3 DEF Of
  <2>. QED  BY <1>3, <2>1, <2>2
<1>. QED  BY <1>2, <1>3

LEMMA UpsertApart ==
  ASSUME NEW R \in SUBSET Entries, NEW e \in Entries, Apart(R), \A x \in R : x.dir = e.dir => SameId(x, e)
  PROVE  Apart(Upsert(R, e)) /\ e \in Upsert(R, e) /\ \A x \in Upsert(R, e) : x = e \/ (x \in R /\ x.dir # e.dir)
BY DEF Apart, Upsert, SameId

\* A plan with the save of a list, at whose end the user is told.
LEMMA TellBegins ==
  ASSUME DiskOK, writes = <<>>, UNCHANGED <<skillDisk, installedStore, lost, halved>>, phase' # "boot",
         NEW P \in Seq(Steps), NEW M \in Seq(Steps), NEW R \in SUBSET Entries, NEW t \in Steps,
         writes' = Plan(P, R, M, <<t>>), InTurn(M), Made(told', files), RegistryOK(halfWritten, entries, told', lost),
         PlanFits(Todo(P), Todo(M), R, t, told', lost, files, off \cup halved, installedStore)
  PROVE  DiskOK'
<1>1. PICK w, T, L, reg, F, O, V : /\ w = writes' /\ T = told' /\ L = lost /\ reg = Registered /\ F = files
                                   /\ O = off \cup halved /\ V = installedStore
  OBVIOUS
<1>2. w = Plan(P, R, M, <<t>>) /\ PlanFits(Todo(P), Todo(M), R, t, T, L, F, O, V)
  BY <1>1
<1>3. InTurn(w) /\ PlanOK(Todo(w), T, L, reg, F, O, V) /\ WillSave(Todo(w))
  BY <1>2, PlanTold
<1>4. Stands(Todo(w), halfWritten, T, reg, F)
  BY <1>3 DEF Stands
<1>. QED  BY <1>1, <1>3, <1>4, Begun

\* Nothing is registered: what the directories hold is, and the page may read the list.
LEMMA EmptyBegins ==
  ASSUME SkillsTypeOK, DiskOK, writes = <<>>, UNCHANGED <<skillDisk, installedStore, told, lost, halved>>,
         phase # "boot", phase' # "boot", Registered = {}, NEW l \in {<<>>, ReadList}, writes' = ReconcileWrites({}) \o l
  PROVE  DiskOK'
<1>1. PICK w, T, L, O, V : /\ w = writes' /\ T = told /\ L = lost /\ O = off \cup halved /\ V = installedStore
  OBVIOUS
<1>2. /\ Made(told, files) /\ RegistryOK(halfWritten, entries, told, lost) /\ told = {}
  BY AtRest
<1>3. files \in FileStates
  BY DEF SkillsTypeOK, SkillFilesOK, FileStates
<1>4. /\ Apart({}) /\ OffIn({}, O, {}) /\ \A R : HasTold(R, {}, L)
      /\ {} \in SUBSET Entries /\ T = {} /\ w = ReconcileWrites({}) \o l
  BY <1>1, <1>2 DEF Apart, OffIn, HasTold
<1>5. InTurn(w) /\ PlanOK(Todo(w), T, L, {}, files, O, V)
  BY <1>3, <1>4, ReconcilePlan
<1>6. Stands(Todo(w), halfWritten, T, {}, files)
  BY <1>4 DEF Stands, Housed
<1>. QED  BY <1>1, <1>2, <1>5, <1>6, Begun

LEMMA ReconcileBegins ==
  ASSUME SkillsTypeOK, DiskOK, FlowsOK, ReconcileAtStart
  PROVE  DiskOK' /\ FlowsOK'
<1>1. /\ phase = "boot" /\ phase' # "boot" /\ writes = <<>> /\ UNCHANGED <<skillDisk, flow>>
      /\ UNCHANGED <<skillDisk, installedStore, lost, halved>> /\ told' = told
      /\ writes' = ReconcileWrites(Registered)
  BY DEF ReconcileAtStart, DiskOK, skillPage, skillPast
<1>2. PICK w, T, L, reg, F, O, V : /\ w = writes' /\ T = told /\ L = lost /\ reg = Registered /\ F = files
                                   /\ O = off \cup halved /\ V = installedStore
  OBVIOUS
<1>3. Made(T, F) /\ RegistryOK(halfWritten, entries, T, L) /\ Apart(reg) /\ OffIn(reg, O, {})
  BY <1>1, <1>2, AtRest
<1>4. reg \in SUBSET Entries /\ T \in SUBSET Entries /\ files \in FileStates
  BY <1>2, RegisteredType DEF SkillsTypeOK, SkillPastOK, SkillFilesOK, FileStates
<1>5. \A e \in T : e.dir \in Dirs /\ Exists(e.dir) /\ HasManifest(e.dir)
  BY <1>2, <1>3, <1>4, EntryFields DEF Made, Exists, HasManifest
<1>6. ASSUME ~halfWritten PROVE HasTold(Valid(reg), T, L) /\ HasTold(Reconciled(reg), T, L)
  <2>1. HasTold(reg, T, L)
    BY <1>2, <1>3, <1>6 DEF RegistryOK, Registered
  <2>2. ASSUME NEW e \in T PROVE \E x \in Valid(reg) : x.dir = e.dir /\ Fine(x, T, L)
    BY <1>5, <2>1 DEF HasTold, Valid
  <2>. QED  BY <2>2 DEF HasTold, Reconciled
<1>7. ASSUME halfWritten PROVE reg = {} /\ HasTold(Reconciled(reg), T, L)
  <2>1. reg = {}
    BY <1>2, <1>7 DEF Registered
  <2>2. ASSUME NEW e \in T PROVE \E x \in Reconciled(reg) : x.dir = e.dir /\ Fine(x, T, L)
    <3>1. e.dir \in L
      BY <1>3, <1>7 DEF RegistryOK
    <3>2. PICK x : x = Entry("local", e.dir, TRUE)
      OBVIOUS
    <3>3. x.dir = e.dir
      BY <3>2 DEF Entry
    <3>4. Of(Valid(reg), e.dir) = {}
      BY <2>1 DEF Valid, Of
    <3>5. x \in NewLocal(Valid(reg))
      BY <1>5, <3>2, <3>4 DEF NewLocal
    <3>6. Fine(x, T, L)
      BY <3>1, <3>2, <3>3 DEF Fine
    <3>. QED  BY <3>3, <3>5, <3>6 DEF Reconciled
  <2>. QED  BY <2>1, <2>2 DEF HasTold
<1>8. HasTold(Reconciled(reg), T, L) /\ (reg # {} => HasTold(Valid(reg), T, L))
  BY <1>6, <1>7
<1>9. PICK l \in {<<>>, ReadList} : l = <<>>
  OBVIOUS
<1>10. w = ReconcileWrites(reg) \o l
  BY <1>1, <1>2, <1>4, <1>9, ReconcileWritesType
<1>11. /\ InTurn(w) /\ PlanOK(Todo(w), T, L, reg, files, O, V)
       /\ WillSave(Todo(w)) \/ (Reconciled(reg) = {} /\ reg = {})
  BY <1>3, <1>4, <1>8, <1>10, ReconcilePlan
<1>12. Stands(Todo(w), halfWritten, T, reg, F)
  <2>1. CASE WillSave(Todo(w))
    BY <2>1 DEF Stands
  <2>2. CASE Reconciled(reg) = {} /\ reg = {}
    <3>1. T = {}
      BY <1>8, <2>2 DEF HasTold
    <3>. QED  BY <2>2, <3>1 DEF Stands, Housed
  <2>. QED  BY <1>11, <2>1, <2>2
<1>13. DiskOK'
  BY <1>1, <1>2, <1>3, <1>11, <1>12, Begun
<1>14. FlowsOK'
  BY <1>1, FlowsSame
<1>. QED  BY <1>13, <1>14

LEMMA LoadBegins ==
  ASSUME SkillsTypeOK, DiskOK, FlowsOK, LoadInstalled
  PROVE  DiskOK' /\ FlowsOK'
<1>1. /\ phase # "boot" /\ phase' = phase /\ writes = <<>> /\ UNCHANGED <<skillDisk, flow>>
      /\ UNCHANGED <<skillDisk, installedStore, told, lost, halved>>
      /\ writes' = (IF Registered = {} THEN ReconcileWrites({}) ELSE <<>>) \o ReadList
  BY DEF LoadInstalled, Free, skillPage, skillPast
<1>2. told \in SUBSET Entries
  BY DEF SkillsTypeOK, SkillPastOK
<1>3. CASE Registered = {}
  BY <1>1, <1>3, EmptyBegins, FlowsSame
<1>4. CASE Registered # {}
  <2>1. PICK k \in Steps : ReadList = <<k>>
    BY ListStep
  <2>2. <<>> \o <<k>> = <<k>>
    OBVIOUS
  <2>3. writes' = ReadList
    BY <1>1, <1>4, <2>1, <2>2
  <2>. QED  BY <1>1, <1>2, <2>3, DiskRests, FlowsSame
<1>. QED  BY <1>3, <1>4

LEMMA BundledBegin ==
  ASSUME SkillsTypeOK, DiskOK, FlowsOK, InstallBundled
  PROVE  DiskOK' /\ FlowsOK'
<1>1. /\ phase # "boot" /\ phase' # "boot" /\ writes = <<>> /\ UNCHANGED <<skillDisk, flow>>
      /\ UNCHANGED <<skillDisk, installedStore, told, lost, halved>>
  BY DEF InstallBundled, skillPage, skillPast
<1>2. FlowsOK'
  BY <1>1, FlowsSame
<1>3. /\ Made(told, files) /\ RegistryOK(halfWritten, entries, told, lost)
      /\ Housed(Registered, files) /\ HasTold(Registered, told, lost)
      /\ Registered = {} \/ halfWritten => told = {}
  BY <1>1, AtRest
<1>4. PICK k \in Steps : MarkBundled = <<k>> /\ k.do = "marker"
  <2>1. {} \in SUBSET Entries /\ "local" \in Sources
    BY SomeSources
  <2>. QED  BY <2>1, StepType DEF MarkBundled, Doings, DirSteps, FileSteps
<1>5. <<k>> \in Seq(Steps) /\ Todo(<<k>>) = {k} /\ InTurn(<<k>>)
  <2>1. <<k>> \in Seq(Steps)
    OBVIOUS
  <2>. QED  BY <2>1, TodoOne
<1>6. PICK T, L, reg, F, O, V : /\ T = told /\ L = lost /\ reg = Registered /\ F = files
                                /\ O = off \cup halved /\ V = installedStore
  OBVIOUS
<1>7. told \in SUBSET Entries
  BY DEF SkillsTypeOK, SkillPastOK
<1>8. CASE writes' = <<>>
  BY <1>1, <1>2, <1>7, <1>8, DiskRests
<1>9. CASE Registered # {} /\ writes' = MarkBundled
  <2>1. FilesFirst({k}) /\ SavesWell({k}, T, L, F, O) /\ FlagsWell({k}, T, reg, O) /\ ToldsWell({k}, T, L, reg, F, V)
    BY <1>4 DEF FilesFirst, SavesWell, FlagsWell, ToldsWell, FileSteps, Tells
  <2>2. PlanOK({k}, T, L, reg, F, O, V)
    BY <2>1 DEF PlanOK
  <2>3. Stands({k}, halfWritten, T, reg, F)
    BY <1>3, <1>6 DEF Stands
  <2>4. Todo(writes') = {k} /\ InTurn(writes')
    BY <1>4, <1>5, <1>9
  <2>. QED  BY <1>1, <1>2, <1>3, <1>6, <2>2, <2>3, <2>4, Begun
<1>10. CASE /\ Registered = {}
            /\ writes' = CopyBundled \o SaveSkills(BundledEntries) \o MarkBundled \o Tell(told \cup BundledEntries)
  <2>1. told = {}
    BY <1>3, <1>10
  <2>2. PICK P, B : P = CopyBundled /\ B = BundledEntries
    OBVIOUS
  <2>3. PICK n : n = 2 * Len(Bundled)
    OBVIOUS
  <2>4. /\ P \in Seq(Steps) /\ Len(P) = n /\ B \in SUBSET Entries
        /\ \A i \in 1..n : P[i].do \in {"copy", "manifest"}
        /\ \A e \in B : /\ e.src = "bundled" /\ e.on
                        /\ \E i \in 1..n : P[i].do = "manifest" /\ P[i].dir = e.dir
    BY <2>2, <2>3, BundledType
  <2>5. \A x \in Todo(P) : x.do \in {"copy", "manifest"}
    BY <2>4 DEF Todo
  <2>6. \A e \in B : Will(Todo(P), "manifest", e.dir)
    BY <2>4 DEF Todo, Will
  <2>7. \A d : ~Will(Todo(P), "unlink", d) /\ ~Will(Todo(P), "rmdir", d)
    BY <2>5 DEF Will
  <2>8. Apart(B)
    <3>1. \A e \in B : e = Entry("bundled", e.dir, TRUE)
      BY <2>4, EntryFields
    <3>. QED  BY <3>1 DEF Apart
  <2>9. PICK t \in Steps : Tell(B) = <<t>> /\ t.do = "tell" /\ t.reg = B
    BY <2>4, TellStep
  <2>10. writes' = Plan(P, B, <<k>>, <<t>>)
    <3>1. told \cup B = B
      BY <2>1
    <3>. QED  BY <1>4, <1>10, <2>2, <2>9, <3>1 DEF Plan
  <2>11. PICK Q, K : Q = Todo(P) /\ K = {k}
    OBVIOUS
  <2>12. OnlyFiles(Q) /\ OnlyFlags(K) /\ FlagFits(Q, K, B, t, T, O)
    BY <1>4, <2>5, <2>9, <2>11 DEF OnlyFiles, OnlyFlags, FlagFits, FileSteps
  <2>13. HousesAll(Q, B, F)
    BY <2>6, <2>7, <2>11 DEF HousesAll
  <2>14. HasTold(B, T, L) /\ OffIn(B, O, WillOff(K)) /\ Leads(B, B, T, L)
    BY <1>6, <2>1, <2>4 DEF HasTold, OffIn, Leads
  <2>15. TellFits(Q, B, t, T, L, F, V)
    BY <2>6, <2>9, <2>11, <2>14 DEF TellFits, Tells
  <2>16. PlanFits(Q, K, B, t, T, L, F, O, V)
    BY <2>8, <2>12, <2>13, <2>14, <2>15 DEF PlanFits
  <2>17. PlanFits(Todo(P), Todo(<<k>>), B, t, told', lost, files, off \cup halved, installedStore)
    BY <1>1, <1>5, <1>6, <2>11, <2>16
  <2>18. Made(told', files) /\ RegistryOK(halfWritten, entries, told', lost)
    BY <1>1, <1>3
  <2>19. DiskOK'
    BY <1>1, <1>5, <2>4, <2>10, <2>17, <2>18, TellBegins
  <2>. QED  BY <1>2, <2>19
<1>. QED  BY <1>8, <1>9, <1>10 DEF InstallBundled

LEMMA SetSteps ==
  ASSUME NEW e \in Entries, NEW A \in SUBSET Entries
  PROVE  /\ \E k \in Steps : SetConfig(e) = <<k>> /\ k.do = (IF e.on THEN "on" ELSE "off") /\ k.dir = e.dir /\ k.src = e.src
         /\ \E t \in Steps : TellSet(e, A) = <<t>> /\ t.do = "set" /\ t.dir = e.dir /\ t.src = e.src /\ t.reg = A
         /\ \E t \in Steps : TellKept(e, A) = <<t>> /\ t.do = "kept" /\ t.dir = e.dir /\ t.src = e.src /\ t.reg = A
<1>1. {} \in SUBSET Entries /\ e.src \in Sources /\ e.dir \in Dirs
  BY EntryFields
<1>2. PICK what \in {"on", "off"} : what = IF e.on THEN "on" ELSE "off"
  OBVIOUS
<1>3. /\ what \in Doings /\ "set" \in Doings /\ "kept" \in Doings
      /\ e.dir \in Dirs \cup {NoDir}
  BY <1>1, <1>2 DEF Doings, DirSteps, FileSteps
<1>4. PICK k, t, u : k = Step(what, e.dir, e.src, {}) /\ t = Step("set", e.dir, e.src, A) /\ u = Step("kept", e.dir, e.src, A)
  OBVIOUS
<1>5. k \in Steps /\ k.do = what /\ k.dir = e.dir /\ k.src = e.src
  BY <1>1, <1>3, <1>4, StepType
<1>6. t \in Steps /\ t.do = "set" /\ t.dir = e.dir /\ t.src = e.src /\ t.reg = A
  BY <1>1, <1>3, <1>4, StepType
<1>7. u \in Steps /\ u.do = "kept" /\ u.dir = e.dir /\ u.src = e.src /\ u.reg = A
  BY <1>1, <1>3, <1>4, StepType
<1>8. SetConfig(e) = <<k>> /\ TellSet(e, A) = <<t>> /\ TellKept(e, A) = <<u>>
  BY <1>2, <1>4 DEF SetConfig, TellSet, TellKept
<1>. QED  BY <1>2, <1>5, <1>6, <1>7, <1>8

\* A list that covered what is told covers it with e in it too, and leads to what e is told with.
LEMMA UpsertLeads ==
  ASSUME NEW T, NEW L, NEW R, NEW e, NEW A, HasTold(R, T, L),
         \A y \in T : y.dir = e.dir => e \in T,
         \A y \in A : y.dir = e.dir => e \in A,
         \A d : d # e.dir => Of(A, d) = Of(T, d)
  PROVE  HasTold(Upsert(R, e), T, L) /\ Leads(A, Upsert(R, e), T, L)
<1>1. PICK S : S = Upsert(R, e)
  OBVIOUS
<1>2. e \in S /\ \A y \in R : y.dir # e.dir => y \in S
  BY <1>1 DEF Upsert, SameId
<1>3. HasTold(S, T, L)
  <2>. SUFFICES ASSUME NEW y \in T PROVE \E z \in S : z.dir = y.dir /\ Fine(z, T, L)
    BY DEF HasTold
  <2>1. CASE y.dir = e.dir
    BY <1>2, <2>1 DEF Fine
  <2>2. CASE y.dir # e.dir
    <3>1. PICK z \in R : z.dir = y.dir /\ Fine(z, T, L)
      BY DEF HasTold
    <3>. QED  BY <1>2, <2>2, <3>1
  <2>. QED  BY <2>1, <2>2
<1>4. Leads(A, S, T, L)
  <2>. SUFFICES ASSUME NEW y \in A
                PROVE  \E z \in S : z.dir = y.dir /\ (z \in A \/ (Of(A, y.dir) = Of(T, y.dir) /\ Fine(z, T, L)))
    BY DEF Leads
  <2>1. CASE y.dir = e.dir
    BY <1>2, <2>1
  <2>2. CASE y.dir # e.dir
    <3>1. Of(A, y.dir) = Of(T, y.dir) /\ y \in Of(A, y.dir)
      BY <2>2 DEF Of
    <3>2. y \in T
      BY <3>1 DEF Of
    <3>3. PICK z \in R : z.dir = y.dir /\ Fine(z, T, L)
      BY <3>2 DEF HasTold
    <3>. QED  BY <1>2, <2>2, <3>1, <3>3
  <2>. QED  BY <2>1, <2>2
<1>. QED  BY <1>1, <1>3, <1>4

LEMMA ToggleBegins ==
  ASSUME SkillsTypeOK, DiskOK, FlowsOK, NEW e \in installedStore, Toggle(e)
  PROVE  DiskOK' /\ FlowsOK'
<1>1. PICK T, L, reg, F, O, V : /\ T = told /\ L = lost /\ reg = Registered /\ F = files
                                /\ O = off \cup halved /\ V = installedStore
  OBVIOUS
<1>0. PICK x \in reg :
        /\ SameId(x, e)
        /\ writes' = SaveSkills(Upsert(reg, [x EXCEPT !.on = ~e.on])) \o SetConfig([x EXCEPT !.on = ~e.on])
                       \o TellSet([x EXCEPT !.on = ~e.on], ToldAs([x EXCEPT !.on = ~e.on]))
        /\ told' = T \cup ToldAs(e) \cup ToldAs([x EXCEPT !.on = ~e.on])
  BY <1>1 DEF Toggle
<1>2. PICK set : /\ set = [x EXCEPT !.on = ~e.on] /\ SameId(x, e)
                 /\ writes' = SaveSkills(Upsert(reg, set)) \o SetConfig(set) \o TellSet(set, ToldAs(set))
                 /\ told' = T \cup ToldAs(e) \cup ToldAs(set)
  BY <1>0
<1>3. /\ phase # "boot" /\ phase' = phase /\ writes = <<>> /\ UNCHANGED <<skillDisk, flow>>
      /\ UNCHANGED <<skillDisk, installedStore, lost, halved>>
  BY DEF Toggle, Free, skillPage
<1>4. reg \in SUBSET Entries /\ T \in SUBSET Entries /\ told \in SUBSET Entries /\ e \in Entries /\ e \in V
  BY <1>1, RegisteredType DEF SkillsTypeOK, SkillPastOK, SkillPageOK
<1>5. /\ Made(T, F) /\ RegistryOK(halfWritten, entries, T, L) /\ Apart(reg)
      /\ OffIn(reg, O, {}) /\ Apart(V) /\ OffIn(V, O, {}) /\ Housed(reg, F) /\ HasTold(reg, T, L)
  BY <1>1, <1>3, AtRest
<1>6. /\ set \in Entries /\ set.src = e.src /\ set.dir = e.dir /\ x.dir = e.dir
      /\ set.on \in BOOLEAN /\ e.on \in BOOLEAN /\ set.on = ~e.on
  BY <1>2, <1>4 DEF Entries, SameId
<1>7. \A b \in BOOLEAN : Entry(set.src, set.dir, b) \in {e, set}
  <2>1. e = Entry(e.src, e.dir, e.on) /\ set = Entry(set.src, set.dir, set.on)
    BY <1>4, <1>6, EntryFields
  <2>. QED  BY <1>6, <2>1
<1>8. PICK R, A, B, T2 : R = Upsert(reg, set) /\ A = ToldAs(set) /\ B = ToldAs(e) /\ T2 = T \cup B \cup A
  OBVIOUS
<1>9. /\ A \in SUBSET Entries /\ B \in SUBSET Entries
      /\ \A y \in A : \E z \in T : z.dir = y.dir
      /\ \A y \in B : \E z \in T : z.dir = y.dir
      /\ Of(T, e.dir) # {} => set \in A /\ e \in B
      /\ \A y \in A : y.dir = e.dir => Of(T, e.dir) # {}
      /\ \A d : d # e.dir => Of(A, d) = Of(T, d) /\ Of(B, d) = Of(T, d)
  <2>1. /\ A \in SUBSET Entries /\ (\A y \in A : \E z \in T : z.dir = y.dir)
        /\ (Of(T, set.dir) # {} => set \in A) /\ (\A y \in A : y.dir = set.dir => Of(T, set.dir) # {})
        /\ \A d : d # set.dir => Of(A, d) = Of(T, d)
    BY <1>1, <1>4, <1>6, <1>8, ToldAsTells
  <2>2. /\ B \in SUBSET Entries /\ (\A y \in B : \E z \in T : z.dir = y.dir)
        /\ (Of(T, e.dir) # {} => e \in B)
        /\ \A d : d # e.dir => Of(B, d) = Of(T, d)
    BY <1>1, <1>4, <1>8, ToldAsTells
  <2>. QED  BY <1>6, <2>1, <2>2
<1>10. /\ T2 \in SUBSET Entries /\ T \subseteq T2 /\ \A y \in T2 : \E z \in T : z.dir = y.dir
  BY <1>4, <1>8, <1>9
<1>11. HasTold(reg, T2, L) /\ RegistryOK(halfWritten, entries, T2, L) /\ Made(T2, F)
  BY <1>5, <1>10, MoreTold
<1>12. R \in SUBSET Entries /\ Apart(R) /\ set \in R /\ \A y \in R : y = set \/ (y \in reg /\ y.dir # set.dir)
  <2>1. \A y \in reg : y.dir = set.dir => SameId(y, set)
    BY <1>2, <1>5, <1>6 DEF Apart, SameId
  <2>. QED  BY <1>4, <1>5, <1>6, <1>8, <2>1, ListsType, UpsertApart
<1>14. ASSUME NEW y \in T2, y.dir = e.dir PROVE set \in A /\ e \in B
  <2>1. PICK z \in T : z.dir = e.dir
    BY <1>10, <1>14
  <2>2. Of(T, e.dir) # {}
    BY <2>1 DEF Of
  <2>. QED  BY <1>9, <2>2
<1>15. HasTold(R, T2, L) /\ Leads(A, R, T2, L)
  <2>1. /\ \A y \in T2 : y.dir = set.dir => set \in T2
        /\ \A y \in A : y.dir = set.dir => set \in A
    BY <1>6, <1>8, <1>14
  <2>2. \A d : d # set.dir => Of(A, d) = Of(T2, d)
    <3>1. \A d : Of(T2, d) = Of(T, d) \cup Of(B, d) \cup Of(A, d)
      BY <1>8 DEF Of
    <3>. QED  BY <1>6, <1>9, <3>1
  <2>. QED  BY <1>8, <1>11, <2>1, <2>2, UpsertLeads
<1>17. PICK k \in Steps : SetConfig(set) = <<k>> /\ k.do = (IF set.on THEN "on" ELSE "off") /\ k.dir = set.dir /\ k.src = set.src
  BY <1>6, <1>9, SetSteps
<1>18. PICK t \in Steps : TellSet(set, A) = <<t>> /\ t.do = "set" /\ t.dir = set.dir /\ t.src = set.src /\ t.reg = A
  BY <1>6, <1>9, SetSteps
<1>19. PICK P, M : P = <<>> /\ M = <<k>>
  OBVIOUS
<1>20. P \in Seq(Steps) /\ M \in Seq(Steps) /\ Todo(P) = {} /\ Todo(M) = {k} /\ InTurn(M)
  <2>1. <<>> \in Seq(Steps) /\ <<k>> \in Seq(Steps)
    OBVIOUS
  <2>. QED  BY <1>19, <2>1, TodoNone, TodoOne
<1>21. writes' = Plan(P, R, M, <<t>>)
  <2>1. writes' = SaveSkills(R) \o M \o <<t>>
    BY <1>2, <1>8, <1>17, <1>18, <1>19
  <2>2. SaveSkills(R) \o M \o <<t>> = Plan(<<>>, R, M, <<t>>)
    BY <1>12, <1>20, JustTell
  <2>. QED  BY <1>19, <2>1, <2>2
<1>22. OnlyFiles({}) /\ OnlyFlags({k})
  BY <1>17 DEF OnlyFiles, OnlyFlags
<1>23. HousesAll({}, R, F)
  <2>1. \A what, d : ~Will({}, what, d)
    BY DEF Will
  <2>2. Housed(R, F)
    <3>1. x \in reg /\ set.dir = x.dir
      BY <1>0, <1>6
    <3>2. \A y \in reg : F[y.dir] # "none"
      BY <1>5 DEF Housed
    <3>3. \A y \in R : y = set \/ y \in reg
      BY <1>12
    <3>. QED  BY <3>1, <3>2, <3>3 DEF Housed
  <2>. QED  BY <2>1, <2>2 DEF HousesAll, Housed
<1>24. OffIn(R, O, WillOff({k}))
  <2>1. ~set.on => set.dir \in WillOff({k})
    BY <1>17 DEF WillOff
  <2>. QED  BY <1>5, <1>12, <2>1 DEF OffIn
<1>25. FlagFits({}, {k}, R, t, T2, O)
  <2>1. Entry(k.src, k.dir, k.do = "on") \in R
    <3>1. set = Entry(set.src, set.dir, set.on)
      BY <1>6, EntryFields
    <3>2. set.on = (k.do = "on")
      BY <1>6, <1>17
    <3>. QED  BY <1>12, <1>17, <3>1, <3>2
  <2>2. Of(T2, k.dir) # {} => \A b \in BOOLEAN : Entry(k.src, k.dir, b) \in T2
    <3>. SUFFICES ASSUME Of(T2, k.dir) # {} PROVE \A b \in BOOLEAN : Entry(k.src, k.dir, b) \in T2
      OBVIOUS
    <3>1. PICK y \in T2 : y.dir = e.dir
      BY <1>6, <1>17 DEF Of
    <3>2. e \in T2 /\ set \in T2
      BY <1>8, <1>14, <3>1
    <3>. QED  BY <1>7, <1>17, <3>2
  <2>3. k.do = "on" => k.dir \in O
    <3>1. k.do = "on" => ~e.on
      BY <1>6, <1>17
    <3>. QED  BY <1>4, <1>5, <1>6, <1>17, <3>1 DEF OffIn
  <2>. QED  BY <1>17, <1>18, <2>1, <2>2, <2>3 DEF FlagFits
<1>26. TellFits({}, R, t, T2, L, F, V)
  <2>1. \A y \in V : y.dir = t.dir => SameId(y, t)
    BY <1>4, <1>5, <1>6, <1>18 DEF Apart, SameId
  <2>2. \A y \in A : F[y.dir] = "skill"
    BY <1>8, <1>11 DEF Made
  <2>. QED  BY <1>15, <1>18, <2>1, <2>2 DEF TellFits, Tells
<1>27. PlanFits({}, {k}, R, t, T2, L, F, O, V)
  BY <1>12, <1>15, <1>22, <1>23, <1>24, <1>25, <1>26 DEF PlanFits
<1>28. DiskOK'
  <2>1. /\ PlanFits(Todo(P), Todo(M), R, t, told', lost, files, off \cup halved, installedStore)
        /\ Made(told', files) /\ RegistryOK(halfWritten, entries, told', lost)
    BY <1>1, <1>2, <1>8, <1>11, <1>20, <1>27
  <2>2. phase' # "boot"
    BY <1>3
  <2>. QED  BY <1>3, <1>12, <1>20, <1>21, <2>1, <2>2, TellBegins
<1>29. FlowsOK'
  BY <1>3, FlowsSame
<1>. QED  BY <1>28, <1>29

\* Less is told: nothing of one directory any more.
LEMMA LessTold ==
  ASSUME NEW T, NEW L, NEW d, NEW T2, T2 = T \ Of(T, d)
  PROVE  /\ \A R, S : HasTold(R, T, L) /\ (\A x \in R : x.dir # d => x \in S) => HasTold(S, T2, L)
         /\ \A hw, ent : RegistryOK(hw, ent, T, L) => RegistryOK(hw, ent, T2, L)
         /\ \A F : Made(T, F) => Made(T2, F)
<1>1. \A e \in T2 : e \in T /\ e.dir # d
  BY DEF Of
<1>2. \A e \in T : e.dir # d => e \in T2
  BY DEF Of
<1>3. ASSUME NEW R, NEW S, HasTold(R, T, L), \A x \in R : x.dir # d => x \in S PROVE HasTold(S, T2, L)
  <2>. SUFFICES ASSUME NEW e \in T2 PROVE \E x \in S : x.dir = e.dir /\ Fine(x, T2, L)
    BY DEF HasTold
  <2>1. PICK x \in R : x.dir = e.dir /\ Fine(x, T, L)
    BY <1>1, <1>3 DEF HasTold
  <2>2. x.dir # d
    BY <1>1, <2>1
  <2>. QED  BY <1>2, <1>3, <2>1, <2>2 DEF Fine
<1>4. ASSUME NEW hw, NEW ent, RegistryOK(hw, ent, T, L) PROVE RegistryOK(hw, ent, T2, L)
  BY <1>1, <1>3, <1>4 DEF RegistryOK
<1>5. \A F : Made(T, F) => Made(T2, F)
  BY <1>1 DEF Made
<1>. QED  BY <1>3, <1>4, <1>5

LEMMA UninstallBegins ==
  ASSUME SkillsTypeOK, DiskOK, FlowsOK, NEW e \in installedStore, Uninstall(e)
  PROVE  DiskOK' /\ FlowsOK'
<1>1. PICK T, L, reg, F, O, V : /\ T = told /\ L = lost /\ reg = Registered /\ F = files
                                /\ O = off \cup halved /\ V = installedStore
  OBVIOUS
<1>0. PICK x \in reg : /\ told' = T \ Of(T, x.dir)
                       /\ writes' = RemoveDir(x.dir) \o SaveSkills(Without(reg, x)) \o Tell(told')
  BY <1>1 DEF Uninstall
<1>2. PICK T2, P, R : /\ T2 = T \ Of(T, x.dir) /\ P = RemoveDir(x.dir) /\ R = Without(reg, x)
                      /\ told' = T2 /\ writes' = P \o SaveSkills(R) \o Tell(T2)
  BY <1>0
<1>3. /\ phase # "boot" /\ phase' = phase /\ writes = <<>> /\ UNCHANGED <<skillDisk, flow>>
      /\ UNCHANGED <<skillDisk, installedStore, lost, halved>>
  BY DEF Uninstall, Free, skillPage
<1>4. reg \in SUBSET Entries /\ T \in SUBSET Entries
  BY <1>1, RegisteredType DEF SkillsTypeOK, SkillPastOK
<1>5. /\ Made(T, F) /\ RegistryOK(halfWritten, entries, T, L) /\ Apart(reg)
      /\ OffIn(reg, O, {}) /\ Housed(reg, F) /\ HasTold(reg, T, L)
  BY <1>1, <1>3, AtRest
<1>6. (\A y \in R : y \in reg /\ y.dir # x.dir) /\ (\A y \in reg : y.dir # x.dir => y \in R)
  BY <1>2, <1>5 DEF Without, SameId, Apart
<1>7. /\ R \in SUBSET Entries /\ T2 \in SUBSET Entries /\ Apart(R) /\ x.dir \in Dirs
  BY <1>2, <1>4, <1>5, <1>6, EntryFields DEF Apart
<1>8. HasTold(R, T2, L) /\ RegistryOK(halfWritten, entries, T2, L) /\ Made(T2, F)
  <2>1. PICK d : d = x.dir
    OBVIOUS
  <2>2. T2 = T \ Of(T, d)
    BY <1>2, <2>1
  <2>3. /\ \A S1, S2 : HasTold(S1, T, L) /\ (\A y \in S1 : y.dir # d => y \in S2) => HasTold(S2, T2, L)
        /\ \A hw, ent : RegistryOK(hw, ent, T, L) => RegistryOK(hw, ent, T2, L)
        /\ \A F1 : Made(T, F1) => Made(T2, F1)
    BY <2>2, LessTold, SMTT(40)
  <2>4. \A y \in reg : y.dir # d => y \in R
    BY <1>6, <2>1
  <2>. QED  BY <1>5, <2>3, <2>4
<1>9. P \in Seq(Steps) /\ \A y \in Todo(P) : y.do \in {"unlink", "rmdir"} /\ y.dir = x.dir
  <2>1. {} \in SUBSET Entries /\ "local" \in Sources
    BY SomeSources
  <2>2. CASE Exists(x.dir)
    <3>1. PICK u, r : u = Step("unlink", x.dir, "local", {}) /\ r = Step("rmdir", x.dir, "local", {})
      OBVIOUS
    <3>2. u \in Steps /\ u.do = "unlink" /\ u.dir = x.dir /\ r \in Steps /\ r.do = "rmdir" /\ r.dir = x.dir
      BY <1>7, <2>1, <3>1, StepType DEF Doings, DirSteps, FileSteps
    <3>3. P = <<u, r>>
      BY <1>2, <2>2, <3>1 DEF RemoveDir
    <3>4. P \in Seq(Steps) /\ Len(P) = 2 /\ P[1] = u /\ P[2] = r
      BY <3>2, <3>3
    <3>5. \A y \in Todo(P) : y = u \/ y = r
      BY <3>4 DEF Todo
    <3>. QED  BY <3>2, <3>4, <3>5
  <2>3. CASE ~Exists(x.dir)
    <3>1. P = <<>> /\ <<>> \in Seq(Steps)
      BY <1>2, <2>3 DEF RemoveDir
    <3>. QED  BY <3>1, TodoNone
  <2>. QED  BY <2>2, <2>3
<1>10. PICK t \in Steps : Tell(T2) = <<t>> /\ t.do = "tell" /\ t.reg = T2
  BY <1>7, TellStep
<1>11. PICK M, Q : M = <<>> /\ Q = Todo(P)
  OBVIOUS
<1>12. M \in Seq(Steps) /\ Todo(M) = {} /\ InTurn(M)
  <2>1. <<>> \in Seq(Steps)
    OBVIOUS
  <2>. QED  BY <1>11, <2>1, TodoNone
<1>13. writes' = Plan(P, R, M, <<t>>)
  <2>1. writes' = P \o SaveSkills(R) \o <<t>>
    BY <1>2, <1>10
  <2>2. P \o SaveSkills(R) \o <<t>> = Plan(P, R, <<>>, <<t>>)
    BY <1>7, <1>9, PlainTell
  <2>. QED  BY <1>11, <2>1, <2>2
<1>14. OnlyFiles(Q) /\ OnlyFlags({}) /\ FlagFits(Q, {}, R, t, T2, O)
  BY <1>9, <1>11 DEF OnlyFiles, OnlyFlags, FlagFits, FileSteps
<1>15. HousesAll(Q, R, F)
  <2>1. \A y \in R : ~Will(Q, "unlink", y.dir) /\ ~Will(Q, "rmdir", y.dir)
    BY <1>6, <1>9, <1>11 DEF Will
  <2>. QED  BY <1>5, <1>6, <2>1 DEF HousesAll, Housed
<1>16. OffIn(R, O, WillOff({}))
  BY <1>5, <1>6 DEF OffIn
<1>17. TellFits(Q, R, t, T2, L, F, V)
  <2>1. Leads(T2, R, T2, L)
    BY <1>8 DEF Leads, HasTold
  <2>. QED  BY <1>8, <1>10, <2>1 DEF TellFits, Tells, Made
<1>18. PlanFits(Q, {}, R, t, T2, L, F, O, V)
  BY <1>7, <1>8, <1>14, <1>15, <1>16, <1>17 DEF PlanFits
<1>19. DiskOK'
  <2>1. /\ PlanFits(Todo(P), Todo(M), R, t, told', lost, files, off \cup halved, installedStore)
        /\ Made(told', files) /\ RegistryOK(halfWritten, entries, told', lost)
    BY <1>1, <1>2, <1>8, <1>11, <1>12, <1>18
  <2>2. phase' # "boot"
    BY <1>3
  <2>. QED  BY <1>3, <1>7, <1>9, <1>12, <1>13, <2>1, <2>2, TellBegins
<1>20. FlowsOK'
  BY <1>3, FlowsSame
<1>. QED  BY <1>19, <1>20

-----------------------------------------------------------------------------
(* The skills: steps of the installs and imports *)

LEMMA FlowBegins ==
  ASSUME SkillsTypeOK, DiskOK, FlowsOK, NEW f \in Flows, NEW src, NEW S, BeginFlow(f, src, S)
  PROVE  DiskOK' /\ FlowsOK'
<1>1. PICK g \in FlowStates : g = flow[f]
  BY DEF SkillsTypeOK
<1>2. /\ phase # "boot" /\ phase' = phase /\ writes = <<>> /\ g.pc = "idle" /\ UNCHANGED skillDisk
      /\ UNCHANGED <<skillDisk, installedStore, told, lost, halved>>
      /\ writes' = IF Registered = {} THEN ReconcileWrites({}) ELSE <<>>
  BY <1>1 DEF BeginFlow, Free, skillPage, skillPast
<1>3. PICK h : h = [g EXCEPT !.pc = "read", !.src = src, !.left = S]
  OBVIOUS
<1>4. flow' = [flow EXCEPT ![f] = h]
  BY <1>1, <1>3 DEF BeginFlow
<1>5. h.pc = "read" /\ h.new = g.new
  BY <1>3 DEF FlowStates
<1>6. g.new = {}
  BY <1>1, <1>2 DEF FlowsOK, FlowFits
<1>7. FlowFits(h, Registered, files)
  BY <1>5, <1>6 DEF FlowFits, CopyPlaces
<1>8. FlowsOK'
  BY <1>2, <1>4, <1>7, FlowsKept DEF SkillsTypeOK
<1>9. CASE Registered = {}
  <2>1. PICK l \in {<<>>, ReadList} : l = <<>>
    OBVIOUS
  <2>2. {} \in SUBSET Entries
    OBVIOUS
  <2>3. ReconcileWrites({}) \in Seq(Steps)
    BY <2>2, ReconcileWritesType
  <2>4. writes' = ReconcileWrites({}) \o l
    BY <1>2, <1>9, <2>1, <2>3
  <2>. QED  BY <1>2, <1>8, <1>9, <2>4, EmptyBegins
<1>10. CASE Registered # {}
  <2>1. told \in SUBSET Entries
    BY DEF SkillsTypeOK, SkillPastOK
  <2>. QED  BY <1>2, <1>8, <1>10, <2>1, DiskRests
<1>. QED  BY <1>9, <1>10

LEMMA FlowReads ==
  ASSUME SkillsTypeOK, DiskOK, FlowsOK, NEW f \in Flows, ReadInstalled(f) \/ Scan(f)
  PROVE  DiskOK' /\ FlowsOK'
<1>1. PICK g \in FlowStates : g = flow[f]
  BY DEF SkillsTypeOK
<1>2. /\ g.pc \in {"read", "scan"} /\ UNCHANGED skillDisk /\ phase' = phase
      /\ UNCHANGED <<skillDisk, installedStore, told, lost, halved, writes, phase>>
  BY <1>1 DEF ReadInstalled, Scan, skillPage, skillPast
<1>3. phase # "boot" /\ FlowFits(g, Registered, files)
  BY <1>1, <1>2 DEF FlowsOK
<1>4. g.new = {}
  BY <1>2, <1>3 DEF FlowFits
<1>5. DiskOK'
  BY <1>2, DiskKept
<1>6. CASE ReadInstalled(f)
  <2>1. PICK p \in {"scan", "check"} : p = IF Registered = {} THEN "scan" ELSE "check"
    OBVIOUS
  <2>2. PICK h : h = [g EXCEPT !.pc = p, !.read = Registered]
    OBVIOUS
  <2>3. flow' = [flow EXCEPT ![f] = h] /\ writes = <<>>
    BY <1>1, <1>6, <2>1, <2>2 DEF ReadInstalled
  <2>4. h.pc = p /\ h.read = Registered /\ h.new = {}
    BY <1>4, <2>2 DEF FlowStates
  <2>5. Apart(Registered) /\ Housed(Registered, files)
    BY <1>3, <2>3, AtRest
  <2>6. FlowFits(h, Registered, files)
    BY <2>1, <2>4, <2>5 DEF FlowFits, Listed, CopyPlaces
  <2>. QED  BY <1>2, <1>3, <1>5, <2>3, <2>6, FlowsKept DEF SkillsTypeOK
<1>7. CASE Scan(f)
  <2>1. PICK N, h : N = NewLocal({}) /\ h = [g EXCEPT !.pc = "check", !.read = N]
    OBVIOUS
  <2>2. flow' = [flow EXCEPT ![f] = h] /\ g.pc = "scan"
    BY <1>1, <1>7, <2>1 DEF Scan
  <2>3. h.pc = "check" /\ h.read = N /\ h.new = {} /\ h.stale = g.stale
    BY <1>4, <2>1 DEF FlowStates
  <2>4. ~g.stale => Registered = {}
    BY <1>3, <2>2 DEF FlowFits
  <2>5. \A x \in N : x = Entry("local", x.dir, TRUE) /\ x.on /\ files[x.dir] = "skill"
    <3>1. \A d \in Dirs : Entry("local", d, TRUE).dir = d /\ Entry("local", d, TRUE).on = TRUE
      BY EntryType, SomeSources
    <3>. QED  BY <2>1, <3>1 DEF NewLocal, HasManifest
  <2>6. Apart(N) /\ Housed(N, files)
    BY <2>5 DEF Apart, Housed
  <2>7. FlowFits(h, Registered, files)
    BY <2>3, <2>4, <2>5, <2>6 DEF FlowFits, Listed, CopyPlaces
  <2>. QED  BY <1>2, <1>3, <1>5, <2>2, <2>7, FlowsKept DEF SkillsTypeOK
<1>. QED  BY <1>6, <1>7

LEMMA FlowCopies ==
  ASSUME SkillsTypeOK, DiskOK, FlowsOK, NEW f \in Flows, CopySome(f) \/ CopyRest(f)
  PROVE  DiskOK' /\ FlowsOK'
<1>1. PICK g \in FlowStates : g = flow[f]
  BY DEF SkillsTypeOK
<1>2. g.pc \in {"copy", "copying"} /\ UNCHANGED <<entries, halfWritten, off, installedStore, told, lost, halved, writes, phase>>
  BY <1>1 DEF CopySome, CopyRest, skillPage, skillPast
<1>3. PICK F, G : F = files /\ G = files'
  OBVIOUS
<1>4. g.dir \in Dirs /\ F \in FileStates /\ flow \in [Flows -> FlowStates]
  BY <1>2, <1>3 DEF SkillsTypeOK, SkillFilesOK, FileStates, FlowStates, CopyPlaces
<1>5. PICK p \in {"copying", "copied"} :
        /\ flow' = [flow EXCEPT ![f] = [g EXCEPT !.pc = p]]
        /\ p = "copying" <=> g.pc = "copy"
        /\ \A d \in Dirs \ {g.dir} : G[d] = F[d]
        /\ p = "copying" => G[g.dir] = IF F[g.dir] = "none" THEN "some" ELSE F[g.dir]
        /\ p = "copied" => G[g.dir] = IF F[g.dir] = "none" THEN F[g.dir] ELSE "skill"
  <2>1. CASE CopySome(f)
    BY <1>1, <1>3, <1>4, <2>1 DEF CopySome, FileStates
  <2>2. CASE CopyRest(f)
    BY <1>1, <1>3, <1>4, <2>2 DEF CopyRest, FileStates
  <2>. QED  BY <2>1, <2>2
<1>6. Grown(F, G)
  <2>. SUFFICES ASSUME NEW d \in Dirs PROVE (F[d] # "none" => G[d] # "none") /\ (F[d] = "skill" => G[d] = "skill")
    BY DEF Grown
  <2>1. CASE d = g.dir
    BY <1>5, <2>1
  <2>2. CASE d # g.dir
    BY <1>5, <2>2
  <2>. QED  BY <2>1, <2>2
<1>7. DiskOK'
  BY <1>2, <1>3, <1>6, DiskGrown
<1>8. PICK reg : reg = Registered
  OBVIOUS
<1>9. Registered' = reg
  BY <1>2, <1>8 DEF Registered
<1>10. PICK h : h = [g EXCEPT !.pc = p]
  OBVIOUS
<1>11. /\ h.pc = p /\ h.src = g.src /\ h.dir = g.dir /\ h.read = g.read /\ h.new = g.new /\ h.stale = g.stale
       /\ \A k \in Flows : flow'[k] = IF k = f THEN h ELSE flow[k]
  BY <1>4, <1>5, <1>10 DEF FlowStates
<1>12. FlowFits(g, reg, F) /\ FlowFits(g, reg, G) /\ phase # "boot"
  <2>1. FlowFits(g, reg, F) /\ phase # "boot"
    BY <1>1, <1>2, <1>3, <1>8 DEF FlowsOK
  <2>. QED  BY <1>6, <2>1, FlowGrown
<1>13. FlowFits(h, reg, G)
  <2>1. ASSUME ~g.stale PROVE Listed(h, reg, G)
    <3>1. Listed(g, reg, F) /\ Listed(g, reg, G)
      BY <1>2, <1>12, <2>1 DEF FlowFits, CopyPlaces
    <3>2. (p = "copying" => G[g.dir] # "none") /\ (p = "copied" => G[g.dir] = "skill")
      <4>1. p = "copied" => g.pc = "copying"
        BY <1>2, <1>5
      <4>2. p = "copied" => F[g.dir] # "none"
        BY <3>1, <4>1 DEF Listed
      <4>. QED  BY <1>5, <4>2
    <3>3. \A x \in g.read : x.dir # g.dir
      BY <1>2, <3>1 DEF Listed, CopyPlaces
    <3>. QED  BY <1>11, <3>1, <3>2, <3>3 DEF Listed
  <2>. QED  BY <1>11, <2>1 DEF FlowFits, CopyPlaces
<1>14. \A k \in Flows : FlowFits(flow'[k], reg, G)
  <2>. TAKE k \in Flows
  <2>1. CASE k = f
    BY <1>11, <1>13, <2>1
  <2>2. CASE k # f
    <3>1. FlowFits(flow[k], reg, F) /\ flow[k] \in FlowStates
      BY <1>3, <1>4, <1>8 DEF FlowsOK
    <3>. QED  BY <1>6, <1>11, <2>2, <3>1, FlowGrown
  <2>. QED  BY <2>1, <2>2
<1>15. FlowsOK'
  BY <1>2, <1>3, <1>9, <1>12, <1>14 DEF FlowsOK
<1>. QED  BY <1>7, <1>15

\* A list that a flow has read covers what is told, as the registry does.
LEMMA ListCovers ==
  ASSUME DiskOK, writes = <<>>, phase # "boot", NEW g \in FlowStates, Listed(g, Registered, files)
  PROVE  /\ Apart(g.read) /\ Housed(g.read, files) /\ OffIn(g.read, off \cup halved, {})
         /\ HasTold(g.read, told, lost)
<1>1. PICK L, reg, F, O : L = lost /\ reg = Registered /\ F = files /\ O = off \cup halved
  OBVIOUS
<1>2. OffIn(reg, O, {}) /\ HasTold(reg, told, L) /\ (reg = {} => told = {})
  BY <1>1, AtRest
<1>3. /\ Apart(g.read) /\ Housed(g.read, F)
      /\ reg # {} => g.read = reg
      /\ reg = {} => \A e \in g.read : e.on
  BY <1>1 DEF Listed
<1>4. CASE reg # {}
  BY <1>1, <1>2, <1>3, <1>4
<1>5. CASE reg = {}
  <2>1. OffIn(g.read, O, {}) /\ HasTold(g.read, told, L)
    BY <1>2, <1>3, <1>5 DEF OffIn, HasTold
  <2>. QED  BY <1>1, <1>3, <2>1
<1>. QED  BY <1>4, <1>5

\* A list is saved, perhaps after directories have been copied, and the user is told.
LEMMA ListBegins ==
  ASSUME DiskOK, writes = <<>>, UNCHANGED <<skillDisk, installedStore, lost, halved>>, phase' # "boot",
         NEW P \in Seq(Steps), NEW R \in SUBSET Entries, NEW A \in SUBSET Entries,
         writes' = P \o SaveSkills(R) \o Tell(A),
         OnlyFiles(Todo(P)), HousesAll(Todo(P), R, files), Apart(R), OffIn(R, off \cup halved, {}),
         HasTold(R, told', lost), Leads(A, R, told', lost),
         \A e \in A : files[e.dir] = "skill" \/ Will(Todo(P), "manifest", e.dir),
         Made(told', files), RegistryOK(halfWritten, entries, told', lost)
  PROVE  DiskOK'
<1>1. PICK T, L, F, O, V : T = told' /\ L = lost /\ F = files /\ O = off \cup halved /\ V = installedStore
  OBVIOUS
<1>2. PICK t \in Steps : Tell(A) = <<t>> /\ t.do = "tell" /\ t.reg = A
  BY TellStep
<1>3. PICK M, Q : M = <<>> /\ Q = Todo(P)
  OBVIOUS
<1>4. M \in Seq(Steps) /\ Todo(M) = {} /\ InTurn(M)
  <2>1. <<>> \in Seq(Steps)
    OBVIOUS
  <2>. QED  BY <1>3, <2>1, TodoNone
<1>5. writes' = Plan(P, R, M, <<t>>)
  <2>1. P \o SaveSkills(R) \o <<t>> = Plan(P, R, <<>>, <<t>>)
    BY PlainTell
  <2>. QED  BY <1>2, <1>3, <2>1
<1>6. OnlyFiles(Q) /\ OnlyFlags({}) /\ FlagFits(Q, {}, R, t, T, O)
  BY <1>3 DEF OnlyFlags, FlagFits
<1>7. HousesAll(Q, R, F) /\ HasTold(R, T, L) /\ Leads(A, R, T, L)
  BY <1>1, <1>3
<1>8. OffIn(R, O, WillOff({}))
  BY <1>1 DEF OffIn
<1>9. TellFits(Q, R, t, T, L, F, V)
  BY <1>1, <1>2, <1>3, <1>7 DEF TellFits, Tells
<1>10. PlanFits(Q, {}, R, t, T, L, F, O, V)
  BY <1>6, <1>7, <1>8, <1>9 DEF PlanFits
<1>11. PlanFits(Todo(P), Todo(M), R, t, told', lost, files, off \cup halved, installedStore)
  BY <1>1, <1>3, <1>4, <1>10
<1>. QED  BY <1>4, <1>5, <1>11, TellBegins

\* Without directories to copy.
LEMMA SavedListBegins ==
  ASSUME DiskOK, writes = <<>>, UNCHANGED <<skillDisk, installedStore, lost, halved>>, phase' # "boot",
         NEW R \in SUBSET Entries, NEW A \in SUBSET Entries,
         writes' = SaveSkills(R) \o Tell(A),
         Housed(R, files), Apart(R), OffIn(R, off \cup halved, {}),
         HasTold(R, told', lost), Leads(A, R, told', lost), Made(A, files),
         Made(told', files), RegistryOK(halfWritten, entries, told', lost)
  PROVE  DiskOK'
<1>1. PICK P : P = <<>>
  OBVIOUS
<1>2. P \in Seq(Steps) /\ Todo(P) = {}
  <2>1. <<>> \in Seq(Steps)
    OBVIOUS
  <2>. QED  BY <1>1, <2>1, TodoNone
<1>3. writes' = P \o SaveSkills(R) \o Tell(A)
  <2>1. PICK s \in Steps : SaveSkills(R) = <<s>>
    BY RegistryStep
  <2>2. <<>> \o <<s>> = <<s>>
    OBVIOUS
  <2>. QED  BY <1>1, <2>1, <2>2
<1>4. OnlyFiles(Todo(P)) /\ HousesAll(Todo(P), R, files)
  BY <1>2 DEF OnlyFiles, HousesAll, Will, Housed
<1>5. \A e \in A : files[e.dir] = "skill" \/ Will(Todo(P), "manifest", e.dir)
  BY DEF Made
<1>. QED  BY <1>2, <1>3, <1>4, <1>5, ListBegins

\* installFromGithub finds the skill installed or not, and may switch it on.
LEMMA FlowChecks ==
  ASSUME SkillsTypeOK, DiskOK, FlowsOK, NEW f \in Flows, CheckInstall(f), ~spoiled'
  PROVE  DiskOK' /\ FlowsOK'
<1>1. PICK g \in FlowStates : g = flow[f]
  BY DEF SkillsTypeOK
<1>2. /\ g.pc = "check" /\ writes = <<>> /\ UNCHANGED skillDisk /\ phase' = phase
      /\ UNCHANGED <<skillDisk, installedStore, lost, halved>>
  BY <1>1 DEF CheckInstall, skillPage
<1>3. phase # "boot" /\ FlowFits(g, Registered, files)
  BY <1>1, <1>2 DEF FlowsOK
<1>4. FlowFits(IdleFlow, Registered, files)
  BY IdleFits
<1>5. PICK d \in g.left :
        \/ /\ flow' = [flow EXCEPT ![f] = [g EXCEPT !.pc = "download"]]
           /\ UNCHANGED <<writes, told>>
        \/ /\ flow' = [flow EXCEPT ![f] = IdleFlow]
           /\ told' = told /\ (writes' = writes \/ writes' = Tell(told))
        \/ /\ flow' = [flow EXCEPT ![f] = IdleFlow]
           /\ \E e \in Of(g.read, d) :
                /\ told' = told \cup ToldAs([e EXCEPT !.on = TRUE])
                /\ SaveInstalled(f, Upsert(g.read, [e EXCEPT !.on = TRUE]), ToldAs([e EXCEPT !.on = TRUE]))
  BY <1>1 DEF CheckInstall, Ends, Asked
<1>6. CASE flow' = [flow EXCEPT ![f] = [g EXCEPT !.pc = "download"]] /\ UNCHANGED <<writes, told>>
  <2>1. PICK h : h = [g EXCEPT !.pc = "download"]
    OBVIOUS
  <2>2. h.pc = "download"
    BY <2>1 DEF FlowStates
  <2>3. FlowFits(h, Registered, files)
    BY <2>2 DEF FlowFits, CopyPlaces
  <2>. QED  BY <1>2, <1>3, <1>6, <2>1, <2>3, DiskKept, FlowsKept DEF SkillsTypeOK
<1>7. CASE flow' = [flow EXCEPT ![f] = IdleFlow] /\ told' = told /\ (writes' = writes \/ writes' = Tell(told))
  <2>1. told \in SUBSET Entries
    BY DEF SkillsTypeOK, SkillPastOK
  <2>2. DiskOK'
    BY <1>2, <1>3, <1>7, <2>1, DiskRests
  <2>. QED  BY <1>2, <1>3, <1>4, <1>7, <2>2, FlowsKept DEF SkillsTypeOK
<1>8. ASSUME flow' = [flow EXCEPT ![f] = IdleFlow], NEW e \in Of(g.read, d),
             told' = told \cup ToldAs([e EXCEPT !.on = TRUE]),
             SaveInstalled(f, Upsert(g.read, [e EXCEPT !.on = TRUE]), ToldAs([e EXCEPT !.on = TRUE]))
      PROVE  DiskOK' /\ FlowsOK'
  <2>1. PICK set, reg, T, L, F, O : /\ set = [e EXCEPT !.on = TRUE] /\ reg = g.read
                                    /\ T = told /\ L = lost /\ F = files /\ O = off \cup halved
    OBVIOUS
  <2>2. ~g.stale /\ writes' = SaveSkills(Upsert(reg, set)) \o Tell(ToldAs(set)) /\ told' = T \cup ToldAs(set)
    BY <1>1, <1>8, <2>1 DEF SaveInstalled
  <2>3. e \in reg /\ reg \in SUBSET Entries /\ T \in SUBSET Entries /\ told \in SUBSET Entries
    BY <1>8, <2>1, FlowTyped DEF Of, SkillsTypeOK, SkillPastOK
  <2>4. set \in Entries /\ set.src = e.src /\ set.dir = e.dir /\ set.on = TRUE
    BY <2>1, <2>3 DEF Entries
  <2>5. Listed(g, Registered, files)
    BY <1>2, <1>3, <2>2 DEF FlowFits
  <2>6. Apart(reg) /\ Housed(reg, F) /\ OffIn(reg, O, {}) /\ HasTold(reg, T, L)
    BY <1>2, <1>3, <2>1, <2>5, ListCovers
  <2>7. Made(T, F) /\ RegistryOK(halfWritten, entries, T, L)
    BY <1>2, <2>1, AtRest
  <2>8. \A x \in reg : x.dir = set.dir => SameId(x, set)
    BY <2>3, <2>4, <2>6 DEF Apart, SameId
  <2>9. PICK R, A, T2 : R = Upsert(reg, set) /\ A = ToldAs(set) /\ T2 = T \cup A
    OBVIOUS
  <2>10. R \in SUBSET Entries /\ Apart(R) /\ set \in R /\ \A x \in R : x = set \/ (x \in reg /\ x.dir # set.dir)
    BY <2>3, <2>4, <2>6, <2>8, <2>9, ListsType, UpsertApart
  <2>11. /\ A \in SUBSET Entries
         /\ \A x \in A : \E y \in T : y.dir = x.dir
         /\ Of(T, set.dir) # {} => set \in A
         /\ \A d2 : d2 # set.dir => Of(A, d2) = Of(T, d2)
    BY <2>1, <2>3, <2>4, <2>9, ToldAsTells
  <2>12. T \subseteq T2 /\ \A y \in T2 : \E z \in T : z.dir = y.dir
    BY <2>9, <2>11
  <2>13. HasTold(reg, T2, L) /\ RegistryOK(halfWritten, entries, T2, L) /\ Made(T2, F)
    BY <2>6, <2>7, <2>12, MoreTold
  <2>14. HasTold(R, T2, L) /\ Leads(A, R, T2, L)
    <3>1. \A y \in T2 : y.dir = set.dir => set \in A
      <4>. SUFFICES ASSUME NEW y \in T2, y.dir = set.dir PROVE set \in A
        OBVIOUS
      <4>1. PICK z \in T : z.dir = set.dir
        BY <2>12
      <4>2. Of(T, set.dir) # {}
        BY <4>1 DEF Of
      <4>. QED  BY <2>11, <4>2
    <3>2. (\A y \in T2 : y.dir = set.dir => set \in T2) /\ (\A y \in A : y.dir = set.dir => set \in A)
      BY <2>9, <3>1
    <3>3. \A d2 : d2 # set.dir => Of(A, d2) = Of(T2, d2)
      <4>1. \A d2 : Of(T2, d2) = Of(T, d2) \cup Of(A, d2)
        BY <2>9 DEF Of
      <4>. QED  BY <2>11, <4>1
    <3>. QED  BY <2>9, <2>13, <3>2, <3>3, UpsertLeads
  <2>15. Housed(R, F) /\ OffIn(R, O, {})
    BY <2>3, <2>4, <2>6, <2>10 DEF Housed, OffIn
  <2>16. Made(A, F)
    BY <2>9, <2>13 DEF Made
  <2>17. writes' = SaveSkills(R) \o Tell(A) /\ phase' # "boot" /\ told' = T2
    BY <1>2, <1>3, <2>2, <2>9
  <2>18. /\ Housed(R, files) /\ OffIn(R, off \cup halved, {}) /\ HasTold(R, told', lost) /\ Leads(A, R, told', lost)
         /\ Made(A, files) /\ Made(told', files) /\ RegistryOK(halfWritten, entries, told', lost)
    BY <2>1, <2>13, <2>14, <2>15, <2>16, <2>17
  <2>19. DiskOK'
    BY <1>2, <2>10, <2>11, <2>17, <2>18, SavedListBegins
  <2>. QED  BY <1>2, <1>3, <1>4, <1>8, <2>19, FlowsKept DEF SkillsTypeOK
<1>. QED  BY <1>5, <1>6, <1>7, <1>8

LEMMA CopySteps ==
  ASSUME NEW s \in Sources, NEW d \in Dirs
  PROVE  /\ CopyDir(s, d) \in Seq(Steps)
         /\ \A x \in Todo(CopyDir(s, d)) : x.do \in {"copy", "manifest"}
         /\ Will(Todo(CopyDir(s, d)), "manifest", d)
<1>1. PICK P, u, v : P = CopyDir(s, d) /\ u = Step("copy", d, s, {}) /\ v = Step("manifest", d, s, {})
  OBVIOUS
<1>2. {} \in SUBSET Entries
  OBVIOUS
<1>3. u \in Steps /\ u.do = "copy" /\ v \in Steps /\ v.do = "manifest" /\ v.dir = d
  BY <1>1, <1>2, StepType DEF Doings, DirSteps, FileSteps
<1>4. P = <<u, v>>
  BY <1>1 DEF CopyDir
<1>5. P \in Seq(Steps) /\ Len(P) = 2 /\ P[1] = u /\ P[2] = v
  BY <1>3, <1>4
<1>6. Todo(P) = {u, v}
  BY <1>5 DEF Todo
<1>. QED  BY <1>1, <1>3, <1>5, <1>6 DEF Will

\* The download is installed, or it has failed.
LEMMA FlowInstalls ==
  ASSUME SkillsTypeOK, DiskOK, FlowsOK, NEW f \in Flows, Downloaded(f)
  PROVE  DiskOK' /\ FlowsOK'
<1>1. PICK g \in FlowStates : g = flow[f]
  BY DEF SkillsTypeOK
<1>2. /\ g.pc = "download" /\ writes = <<>> /\ UNCHANGED skillDisk /\ phase' = phase
      /\ UNCHANGED <<skillDisk, installedStore, lost, halved>>
      /\ flow' = [flow EXCEPT ![f] = IdleFlow]
  BY <1>1 DEF Downloaded, Free, Ends, skillPage
<1>3. phase # "boot"
  BY <1>1, <1>2 DEF FlowsOK
<1>4. FlowsOK'
  <2>1. FlowFits(IdleFlow, Registered, files)
    BY IdleFits
  <2>. QED  BY <1>2, <1>3, <2>1, FlowsKept DEF SkillsTypeOK
<1>5. CASE UNCHANGED <<writes, told>>
  BY <1>2, <1>4, <1>5, DiskKept
<1>6. ASSUME NEW d \in g.left, NEW e, e = Entry(g.src, d, TRUE),
             Exists(d) => \A x \in Of(Registered, d) : SameId(x, e),
             told' = told \cup ToldAs(e),
             writes' = CopyDir(e.src, d) \o SaveSkills(Upsert(Registered, e)) \o Tell(Retold(e))
      PROVE  DiskOK'
  <2>1. PICK reg, T, L, F, O : reg = Registered /\ T = told /\ L = lost /\ F = files /\ O = off \cup halved
    OBVIOUS
  <2>2. d \in Dirs /\ g.src \in Sources /\ reg \in SUBSET Entries /\ T \in SUBSET Entries /\ told \in SUBSET Entries
    BY <2>1, FlowTyped, RegisteredType DEF SkillsTypeOK, SkillPastOK
  <2>3. e \in Entries /\ e.src = g.src /\ e.dir = d /\ e.on = TRUE
    BY <1>6, <2>2, EntryType
  <2>4. /\ Made(T, F) /\ RegistryOK(halfWritten, entries, T, L) /\ Apart(reg) /\ OffIn(reg, O, {})
        /\ Housed(reg, F) /\ HasTold(reg, T, L)
    BY <1>2, <1>3, <2>1, AtRest
  <2>5. \A x \in reg : x.dir = e.dir => SameId(x, e)
    BY <1>6, <2>1, <2>3, <2>4 DEF Housed, Exists, Of
  <2>6. PICK P, R, A, B, T2 : P = CopyDir(e.src, d) /\ R = Upsert(reg, e) /\ A = Retold(e) /\ B = ToldAs(e) /\ T2 = T \cup B
    OBVIOUS
  <2>7. R \in SUBSET Entries /\ Apart(R) /\ \A x \in R : x = e \/ (x \in reg /\ x.dir # e.dir)
    BY <2>2, <2>3, <2>4, <2>5, <2>6, ListsType, UpsertApart
  <2>8. /\ B \in SUBSET Entries
        /\ \A x \in B : \E y \in T : y.dir = x.dir
        /\ Of(T, e.dir) # {} => e \in B
        /\ \A d2 : d2 # e.dir => Of(B, d2) = Of(T, d2)
    BY <2>1, <2>2, <2>3, <2>6, ToldAsTells
  <2>9. /\ A \in SUBSET Entries
        /\ e \in A /\ \A x \in A : x = e \/ x \in T
        /\ \A d2 : d2 # e.dir => Of(A, d2) = Of(T, d2)
    BY <2>1, <2>2, <2>3, <2>6 DEF Retold, Of
  <2>10. T \subseteq T2 /\ \A y \in T2 : \E z \in T : z.dir = y.dir
    BY <2>6, <2>8
  <2>11. HasTold(reg, T2, L) /\ RegistryOK(halfWritten, entries, T2, L) /\ Made(T2, F)
    BY <2>4, <2>10, MoreTold
  <2>12. HasTold(R, T2, L) /\ Leads(A, R, T2, L)
    <3>1. \A y \in T2 : y.dir = e.dir => e \in T2
      <4>. SUFFICES ASSUME NEW y \in T2, y.dir = e.dir PROVE e \in T2
        OBVIOUS
      <4>1. PICK z \in T : z.dir = e.dir
        BY <2>10
      <4>2. Of(T, e.dir) # {}
        BY <4>1 DEF Of
      <4>. QED  BY <2>6, <2>8, <4>2
    <3>2. \A y \in A : y.dir = e.dir => e \in A
      BY <2>9
    <3>3. \A d2 : d2 # e.dir => Of(A, d2) = Of(T2, d2)
      <4>1. \A d2 : Of(T2, d2) = Of(T, d2) \cup Of(B, d2)
        BY <2>6 DEF Of
      <4>. QED  BY <2>8, <2>9, <4>1
    <3>. QED  BY <2>6, <2>11, <3>1, <3>2, <3>3, UpsertLeads
  <2>13. /\ P \in Seq(Steps)
         /\ \A x \in Todo(P) : x.do \in {"copy", "manifest"}
         /\ Will(Todo(P), "manifest", d)
    BY <2>2, <2>3, <2>6, CopySteps
  <2>14. OnlyFiles(Todo(P))
    BY <2>13 DEF OnlyFiles, FileSteps
  <2>15. HousesAll(Todo(P), R, F)
    <3>1. \A x : ~Will(Todo(P), "unlink", x) /\ ~Will(Todo(P), "rmdir", x)
      BY <2>13 DEF Will
    <3>. QED  BY <2>3, <2>4, <2>7, <2>13, <3>1 DEF HousesAll, Housed
  <2>16. OffIn(R, O, {})
    BY <2>3, <2>4, <2>7 DEF OffIn
  <2>17. \A x \in A : F[x.dir] = "skill" \/ Will(Todo(P), "manifest", x.dir)
    BY <2>3, <2>4, <2>9, <2>13 DEF Made
  <2>18. writes' = P \o SaveSkills(R) \o Tell(A) /\ phase' # "boot" /\ told' = T2
    BY <1>2, <1>3, <1>6, <2>1, <2>6
  <2>19. /\ HousesAll(Todo(P), R, files) /\ OffIn(R, off \cup halved, {})
         /\ HasTold(R, told', lost) /\ Leads(A, R, told', lost)
         /\ \A x \in A : files[x.dir] = "skill" \/ Will(Todo(P), "manifest", x.dir)
         /\ Made(told', files) /\ RegistryOK(halfWritten, entries, told', lost)
    BY <2>1, <2>11, <2>12, <2>15, <2>16, <2>17, <2>18
  <2>. QED  BY <1>2, <2>7, <2>9, <2>13, <2>14, <2>18, <2>19, ListBegins
<1>7. UNCHANGED <<writes, told>> \/ \E d \in g.left :
         LET e == Entry(g.src, d, TRUE)
         IN /\ Exists(d) => \A x \in Of(Registered, d) : SameId(x, e)
            /\ told' = told \cup ToldAs(e)
            /\ writes' = CopyDir(e.src, d) \o SaveSkills(Upsert(Registered, e)) \o Tell(Retold(e))
  BY <1>1 DEF Downloaded, Asked
<1>8. DiskOK'
  BY <1>5, <1>6, <1>7
<1>. QED  BY <1>4, <1>8

\* importResolvedSources goes to the next source, or saves the list.
LEMMA FlowImports ==
  ASSUME SkillsTypeOK, DiskOK, FlowsOK, NEW f \in Flows, NextSource(f), ~spoiled'
  PROVE  DiskOK' /\ FlowsOK'
<1>1. PICK g \in FlowStates : g = flow[f]
  BY DEF SkillsTypeOK
<1>2. /\ g.pc = "check" /\ writes = <<>> /\ UNCHANGED skillDisk /\ phase' = phase
      /\ UNCHANGED <<skillDisk, installedStore, told, lost, halved>>
  BY <1>1 DEF NextSource, skillPage
<1>3. phase # "boot" /\ FlowFits(g, Registered, files)
  BY <1>1, <1>2 DEF FlowsOK
<1>4. FlowFits(IdleFlow, Registered, files)
  BY IdleFits
<1>5. \/ flow' = [flow EXCEPT ![f] = IdleFlow] /\ writes' \in {<<>>, Tell(told)}
      \/ /\ flow' = [flow EXCEPT ![f] = IdleFlow]
         /\ SaveInstalled(f, g.read \cup g.new, told \cup g.new)
      \/ UNCHANGED writes /\ \E d \in g.left : flow' = [flow EXCEPT ![f] = [g EXCEPT !.left = g.left \ {d}]]
      \/ /\ UNCHANGED writes
         /\ \E d \in g.left : /\ Of(g.read, d) = {}
                              /\ flow' = [flow EXCEPT ![f] = [g EXCEPT !.pc = "copy", !.dir = d, !.left = g.left \ {d}]]
  <2>1. \/ /\ flow' = [flow EXCEPT ![f] = IdleFlow]
           /\ writes' \in {<<>>, Tell(told)} \/ SaveInstalled(f, g.read \cup g.new, told \cup g.new)
        \/ /\ UNCHANGED writes
           /\ \E d \in g.left :
                IF Of(g.read, d) # {} THEN flow' = [flow EXCEPT ![f].left = @ \ {d}]
                ELSE IF Exists(d) THEN Ends(f)
                ELSE flow' = [flow EXCEPT ![f].pc = "copy", ![f].dir = d, ![f].left = @ \ {d}]
    BY <1>1, <1>2 DEF NextSource, Ends
  <2>2. ASSUME NEW d
        PROVE  /\ [flow EXCEPT ![f].left = @ \ {d}] = [flow EXCEPT ![f] = [g EXCEPT !.left = g.left \ {d}]]
               /\ [flow EXCEPT ![f].pc = "copy", ![f].dir = d, ![f].left = @ \ {d}]
                    = [flow EXCEPT ![f] = [g EXCEPT !.pc = "copy", !.dir = d, !.left = g.left \ {d}]]
    BY <1>1 DEF SkillsTypeOK, FlowStates
  <2>. QED  BY <1>2, <2>1, <2>2 DEF Ends
<1>6. CASE flow' = [flow EXCEPT ![f] = IdleFlow] /\ writes' \in {<<>>, Tell(told)}
  <2>1. told \in SUBSET Entries
    BY DEF SkillsTypeOK, SkillPastOK
  <2>2. DiskOK'
    BY <1>2, <1>3, <1>6, <2>1, DiskRests
  <2>. QED  BY <1>2, <1>3, <1>4, <1>6, <2>2, FlowsKept DEF SkillsTypeOK
<1>7. CASE flow' = [flow EXCEPT ![f] = IdleFlow] /\ SaveInstalled(f, g.read \cup g.new, told \cup g.new)
  <2>1. PICK reg, N, T, L, F, O : reg = g.read /\ N = g.new /\ T = told /\ L = lost /\ F = files /\ O = off \cup halved
    OBVIOUS
  <2>2. ~g.stale /\ writes' = SaveSkills(reg \cup N) \o Tell(T \cup N)
    BY <1>1, <1>7, <2>1 DEF SaveInstalled
  <2>3. reg \in SUBSET Entries /\ N \in SUBSET Entries /\ T \in SUBSET Entries
    BY <2>1, FlowTyped DEF SkillsTypeOK, SkillPastOK
  <2>4. Listed(g, Registered, files)
    BY <1>2, <1>3, <2>2 DEF FlowFits
  <2>5. \A e \in N : e.src = g.src /\ e.on /\ F[e.dir] = "skill" /\ \A x \in reg : x.dir # e.dir
    BY <2>1, <2>4 DEF Listed
  <2>6. Apart(reg) /\ Housed(reg, F) /\ OffIn(reg, O, {}) /\ HasTold(reg, T, L)
    BY <1>2, <1>3, <2>1, <2>4, ListCovers
  <2>7. Made(T, F) /\ RegistryOK(halfWritten, entries, T, L)
    BY <1>2, <2>1, AtRest
  <2>8. PICK R, A : R = reg \cup N /\ A = T \cup N
    OBVIOUS
  <2>9. R \in SUBSET Entries /\ A \in SUBSET Entries
    BY <2>3, <2>8
  <2>10. Apart(R)
    <3>1. \A e \in N : e = Entry(g.src, e.dir, TRUE)
      BY <2>3, <2>5, EntryFields
    <3>2. \A x, y \in N : x.dir = y.dir => x = y
      BY <3>1
    <3>3. \A x \in reg, y \in N : x.dir # y.dir
      BY <2>5
    <3>4. \A x, y \in reg : x.dir = y.dir => x = y
      BY <2>6 DEF Apart
    <3>. QED  BY <2>8, <3>2, <3>3, <3>4 DEF Apart
  <2>11. Housed(R, F) /\ OffIn(R, O, {}) /\ Made(A, F)
    BY <2>5, <2>6, <2>7, <2>8 DEF Housed, OffIn, Made
  <2>12. HasTold(R, T, L)
    BY <2>6, <2>8 DEF HasTold
  <2>13. Leads(A, R, T, L)
    <3>. SUFFICES ASSUME NEW y \in A
                  PROVE  \E z \in R : z.dir = y.dir /\ (z \in A \/ (Of(A, y.dir) = Of(T, y.dir) /\ Fine(z, T, L)))
      BY DEF Leads
    <3>1. CASE y \in N
      BY <2>8, <3>1
    <3>2. CASE y \in T
      <4>1. PICK z \in reg : z.dir = y.dir /\ Fine(z, T, L)
        BY <2>6, <3>2 DEF HasTold
      <4>2. \A x \in N : x.dir # y.dir
        BY <2>5, <4>1
      <4>3. Of(A, y.dir) = Of(T, y.dir)
        BY <2>8, <4>2 DEF Of
      <4>. QED  BY <2>8, <4>1, <4>3
    <3>. QED  BY <2>8, <3>1, <3>2
  <2>14. writes' = SaveSkills(R) \o Tell(A) /\ phase' # "boot"
    BY <1>2, <1>3, <2>2, <2>8
  <2>15. /\ Housed(R, files) /\ OffIn(R, off \cup halved, {}) /\ HasTold(R, told', lost) /\ Leads(A, R, told', lost)
         /\ Made(A, files) /\ Made(told', files) /\ RegistryOK(halfWritten, entries, told', lost)
    BY <1>2, <2>1, <2>7, <2>11, <2>12, <2>13
  <2>16. DiskOK'
    BY <1>2, <2>9, <2>10, <2>14, <2>15, SavedListBegins
  <2>. QED  BY <1>2, <1>3, <1>4, <1>7, <2>16, FlowsKept DEF SkillsTypeOK
<1>8. ASSUME UNCHANGED writes, NEW d \in g.left, flow' = [flow EXCEPT ![f] = [g EXCEPT !.left = g.left \ {d}]]
      PROVE  DiskOK' /\ FlowsOK'
  <2>1. PICK h : h = [g EXCEPT !.left = g.left \ {d}]
    OBVIOUS
  <2>2. h.pc = g.pc /\ h.src = g.src /\ h.dir = g.dir /\ h.read = g.read /\ h.new = g.new /\ h.stale = g.stale
    BY <2>1 DEF FlowStates
  <2>3. FlowFits(h, Registered, files)
    BY <1>3, <2>2 DEF FlowFits, Listed
  <2>. QED  BY <1>2, <1>3, <1>8, <2>1, <2>3, DiskKept, FlowsKept DEF SkillsTypeOK
<1>9. ASSUME UNCHANGED writes, NEW d \in g.left, Of(g.read, d) = {},
             flow' = [flow EXCEPT ![f] = [g EXCEPT !.pc = "copy", !.dir = d, !.left = g.left \ {d}]]
      PROVE  DiskOK' /\ FlowsOK'
  <2>1. PICK h : h = [g EXCEPT !.pc = "copy", !.dir = d, !.left = g.left \ {d}]
    OBVIOUS
  <2>2. h.pc = "copy" /\ h.src = g.src /\ h.dir = d /\ h.read = g.read /\ h.new = g.new /\ h.stale = g.stale
    BY <2>1 DEF FlowStates
  <2>3. \A x \in g.read : x.dir # d
    BY <1>9 DEF Of
  <2>4. FlowFits(h, Registered, files)
    BY <1>2, <1>3, <2>2, <2>3 DEF FlowFits, Listed
  <2>. QED  BY <1>2, <1>3, <1>9, <2>1, <2>4, DiskKept, FlowsKept DEF SkillsTypeOK
<1>. QED  BY <1>5, <1>6, <1>7, <1>8, <1>9

\* The copy of a source is complete.
LEMMA FlowHasCopied ==
  ASSUME SkillsTypeOK, DiskOK, FlowsOK, NEW f \in Flows, Copied(f)
  PROVE  DiskOK' /\ FlowsOK'
<1>1. PICK g \in FlowStates : g = flow[f]
  BY DEF SkillsTypeOK
<1>2. PICK e : e = Entry(g.src, g.dir, TRUE)
  OBVIOUS
<1>3. PICK h : h = [g EXCEPT !.pc = "check", !.dir = NoDir, !.new = g.new \cup {e}]
  OBVIOUS
<1>4. /\ g.pc = "copied" /\ UNCHANGED skillDisk /\ phase' = phase
      /\ UNCHANGED <<skillDisk, installedStore, told, lost, halved, writes, phase>>
      /\ flow' = [flow EXCEPT ![f] = h]
  BY <1>1, <1>2, <1>3 DEF Copied, skillPage, skillPast
<1>5. h.pc = "check" /\ h.src = g.src /\ h.read = g.read /\ h.new = g.new \cup {e} /\ h.stale = g.stale
  BY <1>3 DEF FlowStates
<1>6. e.src = g.src /\ e.dir = g.dir /\ e.on = TRUE
  BY <1>2 DEF Entry
<1>7. phase # "boot" /\ FlowFits(g, Registered, files)
  BY <1>1, <1>4 DEF FlowsOK
<1>8. ASSUME ~g.stale PROVE Listed(h, Registered, files)
  <2>1. Listed(g, Registered, files)
    BY <1>4, <1>7, <1>8 DEF FlowFits, CopyPlaces
  <2>2. files[g.dir] = "skill" /\ \A x \in g.read : x.dir # g.dir
    BY <1>4, <2>1 DEF Listed, CopyPlaces
  <2>. QED  BY <1>5, <1>6, <2>1, <2>2 DEF Listed, CopyPlaces
<1>9. FlowFits(h, Registered, files)
  BY <1>5, <1>8 DEF FlowFits, CopyPlaces
<1>. QED  BY <1>4, <1>7, <1>9, DiskKept, FlowsKept DEF SkillsTypeOK

-----------------------------------------------------------------------------
(* The skills: the steps of an operation, and failures *)

\* A step that may change directories or the registry makes out of date what the flows read.
LEMMA FlowsAge ==
  ASSUME SkillsTypeOK, FlowsOK, phase # "boot", phase' = phase,
         flow' = [f \in Flows |-> [flow[f] EXCEPT !.stale = @ \/ flow[f].pc \notin {"idle", "read", "download"}]]
  PROVE  FlowsOK'
<1>1. PICK reg2, F2 : reg2 = Registered' /\ F2 = files'
  OBVIOUS
<1>2. ASSUME NEW k \in Flows PROVE FlowFits(flow'[k], reg2, F2)
  <2>1. PICK g \in FlowStates : g = flow[k]
    BY DEF SkillsTypeOK
  <2>2. PICK h : h = [g EXCEPT !.stale = g.stale \/ g.pc \notin {"idle", "read", "download"}]
    OBVIOUS
  <2>3. h.pc = g.pc /\ h.new = g.new /\ h.stale = (g.stale \/ g.pc \notin {"idle", "read", "download"})
    BY <2>2 DEF FlowStates
  <2>4. g.pc \in {"idle", "read", "scan"} => g.new = {}
    BY <2>1 DEF FlowsOK, FlowFits
  <2>5. FlowFits(h, reg2, F2)
    BY <2>3, <2>4 DEF FlowFits, CopyPlaces
  <2>. QED  BY <2>1, <2>2, <2>5
<1>. QED  BY <1>1, <1>2 DEF FlowsOK

LEMMA StepDone ==
  ASSUME SkillsTypeOK, DiskOK, WriteStep
  PROVE  DiskOK'
<1>1. PICK h, w, Q : h = Head(writes) /\ w = Tail(writes) /\ Q = Todo(w)
  OBVIOUS
<1>2. /\ writes \in Seq(Steps) /\ writes # <<>> /\ writes' = w /\ phase' = phase /\ phase # "boot"
      /\ told \in SUBSET Entries /\ files \in FileStates /\ installedStore \in SUBSET Entries
  BY <1>1 DEF WriteStep, DiskOK, SkillsTypeOK, SkillFilesOK, SkillPageOK, SkillPastOK, FileStates
<1>3. InTurn(writes)
  BY DEF DiskOK
<1>4. /\ h \in Steps /\ w \in Seq(Steps) /\ Todo(writes) = {h} \cup Q
      /\ InTurn(w) /\ \A t \in Q : Before(h, t)
  BY <1>1, <1>2, <1>3, TodoFirst
<1>5. Q \in SUBSET Steps
  BY <1>1, <1>4 DEF Todo
<1>6. PICK T, L, reg, F, O, V, hw, ent : /\ T = told /\ L = lost /\ reg = Registered /\ F = files /\ O = off \cup halved
                                         /\ V = installedStore /\ hw = halfWritten /\ ent = entries
  OBVIOUS
<1>7. T \in SUBSET Entries /\ V \in SUBSET Entries /\ F \in FileStates /\ reg \in SUBSET Entries
  BY <1>2, <1>6, RegisteredType
<1>8. /\ PlanOK({h} \cup Q, T, L, reg, F, O, V) /\ ListOK(V, {h} \cup Q, O) /\ OffIn(reg, O, Half({h} \cup Q))
      /\ RegistryOK(hw, ent, T, L) /\ Stands({h} \cup Q, hw, T, reg, F) /\ Made(T, F)
  BY <1>2, <1>4, <1>6 DEF DiskOK
<1>9. reg = (IF hw THEN {} ELSE ent) /\ Apart(reg)
  <2>1. reg = IF hw THEN {} ELSE ent
    BY <1>6 DEF Registered
  <2>. QED  BY <1>8, <2>1 DEF RegistryOK, Apart
<1>10. ~WillSave({h} \cup Q) => Housed(reg, F) /\ (hw => T = {})
  BY <1>8 DEF Stands
<1>11. h.do \in FileSteps \/ h.do \in {"registry", "on", "off", "marker", "list"} \/ h.do \in Tells
  BY <1>4, StepFields DEF Doings, DirSteps, Tells
<1>12. CASE h.do \in FileSteps
  <2>1. PICK G : G = files'
    OBVIOUS
  <2>2. FileStep(h, F, G) /\ UNCHANGED <<entries, halfWritten, off, installedStore, told, lost, halved>>
    BY <1>1, <1>6, <1>12, <2>1 DEF WriteStep, Doing, FileStep, FileSteps, skillPage
  <2>3. WillSave(Q) /\ PlanOK(Q, T, L, reg, G, O, V) /\ Made(T, G)
    BY <1>4, <1>5, <1>7, <1>8, <1>12, <2>2, FileStepDone
  <2>4. /\ h.do \notin {"registry", "on", "off", "set", "kept"}
        /\ \A d : Will({h} \cup Q, "set", d) <=> Will(Q, "set", d)
        /\ WillFlag({h} \cup Q) <=> WillFlag(Q)
        /\ Half({h} \cup Q) = Half(Q)
    <3>1. h.do \notin {"registry", "on", "off", "set", "kept"}
      BY <1>12 DEF FileSteps
    <3>. QED  BY <3>1, WithoutFirst
  <2>5. ListOK(V, Q, O) /\ OffIn(reg, O, Half(Q))
    BY <1>8, <2>4 DEF ListOK
  <2>6. Stands(Q, hw, T, reg, G)
    BY <2>3 DEF Stands
  <2>7. Registered' = reg
    BY <1>6, <2>2 DEF Registered
  <2>. QED  BY <1>1, <1>2, <1>4, <1>6, <1>8, <2>1, <2>2, <2>3, <2>5, <2>6, <2>7 DEF DiskOK
<1>13. CASE h.do = "registry"
  <2>1. /\ halfWritten' = FALSE /\ entries' = h.reg
        /\ UNCHANGED <<files, off, installedStore, told, lost, halved>>
    BY <1>1, <1>13 DEF WriteStep, Doing, skillPage
  <2>2. /\ PlanOK(Q, T, L, h.reg, F, O, V) /\ ListOK(V, Q, O)
        /\ Apart(h.reg) /\ HasTold(h.reg, T, L) /\ Housed(h.reg, F) /\ OffIn(h.reg, O, Half(Q))
    BY <1>4, <1>5, <1>7, <1>8, <1>13, SaveDone
  <2>3. RegistryOK(FALSE, h.reg, T, L) /\ Stands(Q, FALSE, T, h.reg, F)
    BY <2>2 DEF RegistryOK, Stands
  <2>4. Registered' = h.reg
    BY <2>1 DEF Registered
  <2>. QED  BY <1>1, <1>2, <1>4, <1>6, <1>8, <2>1, <2>2, <2>3, <2>4 DEF DiskOK
<1>14. CASE h.do \in {"on", "off"}
  <2>1. PICK O2 : O2 = IF h.do = "on" THEN O \ {h.dir} ELSE O \cup {h.dir}
    OBVIOUS
  <2>2. /\ off' = (IF h.do = "on" THEN off \ {h.dir} ELSE off \cup {h.dir}) /\ halved' = halved \ {h.dir}
        /\ UNCHANGED <<entries, halfWritten, files, installedStore, told, lost>>
    BY <1>1, <1>14 DEF WriteStep, Doing, skillPage
  <2>3. O2 = off' \cup halved'
    BY <1>6, <2>1, <2>2
  <2>4. /\ PlanOK(Q, T, L, reg, F, O2, V) /\ ListOK(V, Q, O2) /\ OffIn(reg, O2, Half(Q))
        /\ ~WillSave({h} \cup Q)
    <3>1. /\ \A t \in Q : Before(h, t)
          /\ PlanOK({h} \cup Q, T, L, reg, F, O, V) /\ ListOK(V, {h} \cup Q, O)
          /\ Apart(reg) /\ OffIn(reg, O, Half({h} \cup Q))
      BY <1>4, <1>8, <1>9
    <3>2. h \in Steps /\ Q \in SUBSET Steps /\ T \in SUBSET Entries /\ reg \in SUBSET Entries
      BY <1>4, <1>5, <1>7
    <3>. QED  BY <1>14, <2>1, <3>1, <3>2, FlagDone
  <2>5. Stands(Q, hw, T, reg, F)
    BY <1>10, <2>4 DEF Stands
  <2>6. Registered' = reg
    BY <1>6, <2>2 DEF Registered
  <2>. QED  BY <1>1, <1>2, <1>4, <1>6, <1>8, <2>2, <2>3, <2>4, <2>5, <2>6 DEF DiskOK
<1>15. CASE h.do = "marker"
  <2>1. UNCHANGED <<entries, halfWritten, files, off, installedStore, told, lost, halved>>
    BY <1>1, <1>15 DEF WriteStep, Doing, skillPage
  <2>2. /\ PlanOK(Q, T, L, reg, F, O, V) /\ ListOK(V, Q, O) /\ ~WillSave({h} \cup Q)
        /\ Half({h} \cup Q) = Half(Q)
    BY <1>4, <1>5, <1>7, <1>8, <1>15, MarkDone
  <2>3. Stands(Q, hw, T, reg, F)
    BY <1>10, <2>2 DEF Stands
  <2>4. Registered' = reg
    BY <1>6, <2>1 DEF Registered
  <2>. QED  BY <1>1, <1>2, <1>4, <1>6, <1>8, <2>1, <2>2, <2>3, <2>4 DEF DiskOK
<1>16. CASE h.do = "list"
  <2>1. PICK N, W : N = NewLocal({}) /\ W = installedStore'
    OBVIOUS
  <2>2. /\ UNCHANGED <<entries, halfWritten, files, off, told, lost, halved>>
        /\ W = IF reg = {} THEN N ELSE reg
    BY <1>1, <1>6, <1>16, <2>1 DEF WriteStep, Doing, skillDisk
  <2>3. Q = {} /\ ~WillSave({h} \cup Q)
    <3>1. Q = {}
      BY <1>4, <1>16 DEF Before, FileSteps
    <3>. QED  BY <1>16, <3>1 DEF WillSave
  <2>4. Half({h} \cup Q) = {} /\ \A d : ~Will({h} \cup Q, "set", d)
    BY <1>16, <2>3 DEF Half, Will
  <2>5. PlanOK(Q, T, L, reg, F, O, W) /\ Half(Q) = {}
    BY <2>3, NothingLeft
  <2>6. OffIn(reg, O, {})
    BY <1>8, <2>4
  <2>7. Apart(W) /\ OffIn(W, O, {})
    <3>1. \A d \in Dirs : Entry("local", d, TRUE).dir = d /\ Entry("local", d, TRUE).on = TRUE
      BY EntryType, SomeSources
    <3>2. \A x \in N : x = Entry("local", x.dir, TRUE) /\ x.on
      BY <2>1, <3>1 DEF NewLocal
    <3>3. Apart(N) /\ OffIn(N, O, {})
      BY <3>2 DEF Apart, OffIn
    <3>. QED  BY <1>9, <2>2, <2>6, <3>3
  <2>8. ListOK(W, Q, O)
    BY <2>7 DEF ListOK, OffIn
  <2>9. Stands(Q, hw, T, reg, F)
    BY <1>10, <2>3 DEF Stands
  <2>10. Registered' = reg
    BY <1>6, <2>2 DEF Registered
  <2>. QED  BY <1>1, <1>2, <1>4, <1>6, <1>8, <2>1, <2>2, <2>5, <2>6, <2>8, <2>9, <2>10 DEF DiskOK
<1>17. CASE h.do \in Tells
  <2>1. PICK M, W : M = lost' /\ W = installedStore'
    OBVIOUS
  <2>2. /\ told' = h.reg /\ UNCHANGED <<entries, halfWritten, files, off, halved>>
        /\ M = {x \in L : Of(h.reg, x) = Of(T, x)}
        /\ W = IF h.do = "set" THEN Without(V, h) \cup {x \in reg : SameId(x, h)} ELSE V
    BY <1>1, <1>6, <1>17, <2>1 DEF WriteStep, Doing, skillDisk, Tells
  <2>3. /\ Q = {} /\ ~WillSave({h} \cup Q) /\ Made(h.reg, F) /\ RegistryOK(hw, ent, h.reg, M)
        /\ (hw => h.reg = {}) /\ OffIn(reg, O, {}) /\ ListOK(W, {}, O)
    <3>1. /\ \A t \in Q : Before(h, t)
          /\ PlanOK({h} \cup Q, T, L, reg, F, O, V) /\ ListOK(V, {h} \cup Q, O)
          /\ RegistryOK(hw, ent, T, L) /\ OffIn(reg, O, Half({h} \cup Q))
      BY <1>4, <1>8
    <3>2. /\ h \in Steps /\ Q \in SUBSET Steps /\ T \in SUBSET Entries
          /\ reg \in SUBSET Entries /\ V \in SUBSET Entries
      BY <1>4, <1>5, <1>7
    <3>3. RegistryIs(reg, hw, ent)
      BY <1>9 DEF RegistryIs
    <3>4. LostThen(M, h, T, L) /\ ListThen(W, h, V, reg)
      BY <2>2 DEF LostThen, ListThen
    <3>. QED  BY <1>17, <3>1, <3>2, <3>3, <3>4, TellDone
  <2>4. PlanOK(Q, h.reg, M, reg, F, O, W) /\ Half(Q) = {}
    BY <2>3, NothingLeft
  <2>5. Stands(Q, hw, h.reg, reg, F)
    BY <1>10, <2>3 DEF Stands
  <2>6. Registered' = reg
    BY <1>6, <2>2 DEF Registered
  <2>. QED  BY <1>1, <1>2, <1>4, <1>6, <2>1, <2>2, <2>3, <2>4, <2>5, <2>6 DEF DiskOK
<1>. QED  BY <1>11, <1>12, <1>13, <1>14, <1>15, <1>16, <1>17

LEMMA StepFlows ==
  ASSUME SkillsTypeOK, DiskOK, FlowsOK, WriteStep
  PROVE  FlowsOK'
<1>1. phase # "boot" /\ phase' = phase
  BY DEF WriteStep, DiskOK
<1>2. CASE Head(writes).do \in {"tell", "set", "kept", "list", "marker", "on", "off"}
  <2>1. flow' = flow /\ entries' = entries /\ halfWritten' = halfWritten /\ files' = files
    BY <1>2 DEF WriteStep, Doing, skillDisk
  <2>2. Registered' = Registered
    BY <2>1 DEF Registered
  <2>. QED  BY <1>1, <2>1, <2>2 DEF FlowsOK
<1>3. CASE Head(writes).do \notin {"tell", "set", "kept", "list", "marker", "on", "off"}
  <2>1. flow' = [f \in Flows |-> [flow[f] EXCEPT !.stale = @ \/ flow[f].pc \notin {"idle", "read", "download"}]]
    BY <1>3 DEF WriteStep
  <2>. QED  BY <1>1, <2>1, FlowsAge
<1>. QED  BY <1>2, <1>3

LEMMA HalfwayHalf ==
  ASSUME SkillsTypeOK
  PROVE  Halfway = Half(Todo(writes))
<1>1. writes \in Seq(Steps)
  BY DEF SkillsTypeOK
<1>2. PICK Q, w : Q = Todo(writes) /\ w = writes
  OBVIOUS
<1>3. DOMAIN w = 1..Len(w)
  BY <1>1, <1>2
<1>4. (Still({"registry"}) <=> WillSave(Q)) /\ (Still({"on", "off"}) <=> WillFlag(Q))
  BY <1>2, <1>3 DEF Still, WillSave, WillFlag, Todo
<1>5. SetInOneFile <=> (WillSave(Q) <=> ~WillFlag(Q))
  BY <1>4 DEF SetInOneFile
<1>6. CASE WillSave(Q) <=> ~WillFlag(Q)
  <2>1. Halfway = {w[i].dir : i \in {k \in DOMAIN w : w[k].do \in {"set", "kept"}}}
    BY <1>2, <1>5, <1>6 DEF Halfway
  <2>2. Half(Q) = {s.dir : s \in {t \in Q : t.do \in {"set", "kept"}}}
    BY <1>6 DEF Half
  <2>3. Q = {w[i] : i \in DOMAIN w}
    BY <1>2, <1>3 DEF Todo
  <2>. QED  BY <1>2, <2>1, <2>2, <2>3
<1>7. CASE ~(WillSave(Q) <=> ~WillFlag(Q))
  <2>1. Halfway = {} /\ Half(Q) = {}
    BY <1>5, <1>7 DEF Halfway, Half
  <2>. QED  BY <1>2, <2>1
<1>. QED  BY <1>6, <1>7

\* A list is saved, and the call returns.
LEMMA ShortPlan ==
  ASSUME NEW R \in SUBSET Entries, NEW t \in Steps, t.do \in Tells, NEW w, w = SaveSkills(R) \o <<t>>
  PROVE  \E s \in Steps : InTurn(w) /\ Todo(w) = Whole({}, s, {}, t) /\ IsSave(s, R)
<1>1. Todo(<<>>) = {} /\ InTurn(<<>>) /\ <<>> \in Seq(Steps)
  <2>1. <<>> \in Seq(Steps)
    OBVIOUS
  <2>. QED  BY <2>1, TodoNone
<1>2. PICK n : n = <<>>
  OBVIOUS
<1>3. w = Plan(n, R, n, <<t>>)
  BY <1>2, OnlyTell
<1>4. n \in Seq(Steps) /\ InTurn(n) /\ OnlyFiles(Todo(n)) /\ OnlyFlags(Todo(n))
  BY <1>1, <1>2 DEF OnlyFiles, OnlyFlags
<1>5. PICK s \in Steps : w \in Seq(Steps) /\ InTurn(w) /\ Todo(w) = Whole(Todo(n), s, Todo(n), t) /\ IsSave(s, R)
  BY <1>3, <1>4, Composed, ZenonT(60)
<1>. QED  BY <1>1, <1>2, <1>5

\* A write of config.toml has failed: the other flag is saved.
LEMMA RolledBackDisk ==
  ASSUME SkillsTypeOK, DiskOK, SkillWriteFails, ~halfWritten, Housed(entries, files),
         Head(writes).do \in {"on", "off"}
  PROVE  DiskOK'
<1>1. PICK h, Q : h = Head(writes) /\ Q = Todo(Tail(writes))
  OBVIOUS
<1>2. PICK T, L, reg, F, O, V : /\ T = told /\ L = lost /\ reg = Registered /\ F = files
                                /\ O = off \cup halved /\ V = installedStore
  OBVIOUS
<1>3. /\ writes \in Seq(Steps) /\ writes # <<>> /\ T \in SUBSET Entries /\ told \in SUBSET Entries /\ reg \in SUBSET Entries
      /\ reg = entries
  BY <1>2, RegisteredType DEF SkillWriteFails, SkillsTypeOK, SkillPastOK, Registered
<1>4. InTurn(writes)
  BY DEF DiskOK
<1>5. h \in Steps /\ Todo(writes) = {h} \cup Q /\ \A t \in Q : Before(h, t)
  BY <1>1, <1>3, <1>4, TodoFirst
<1>6. h.src \in Sources /\ h.dir \in Dirs /\ h.do \in {"on", "off"}
  BY <1>1, <1>5, StepFields DEF DirSteps
<1>7. /\ PlanOK({h} \cup Q, T, L, reg, F, O, V) /\ ListOK(V, {h} \cup Q, O) /\ OffIn(reg, O, Half({h} \cup Q))
      /\ RegistryOK(halfWritten, entries, T, L) /\ Made(T, F)
  BY <1>2, <1>5 DEF DiskOK
<1>8. PICK b \in BOOLEAN : b = (h.do = "off")
  OBVIOUS
<1>9. PICK e : e = Entry(h.src, h.dir, b)
  OBVIOUS
<1>10. PICK R, A : R = Upsert(reg, e) /\ A = ToldAs(e)
  OBVIOUS
<1>11. /\ writes' = SaveSkills(R) \o TellKept(e, A)
       /\ UNCHANGED <<entries, halfWritten, files, off, halved, phase, installedStore, told, lost>>
  <2>1. Doing("on") \/ Doing("off")
    BY <1>1, <1>3, <1>6 DEF Doing
  <2>2. writes' = RolledBack(Entry(Head(writes).src, Head(writes).dir, Doing("off")))
    BY <2>1 DEF SkillWriteFails
  <2>3. Doing("off") = b
    BY <1>1, <1>3, <1>8 DEF Doing
  <2>4. writes' = RolledBack(e)
    BY <1>1, <1>9, <2>2, <2>3
  <2>. QED  BY <1>2, <1>10, <2>1, <2>4 DEF SkillWriteFails, RolledBack, skillDisk, skillPage
<1>12. e \in Entries /\ e.src = h.src /\ e.dir = h.dir /\ e.on = b
  BY <1>6, <1>9, EntryType
<1>13. FlagWell(h, {h} \cup Q, T, reg, O)
  BY <1>6, <1>7 DEF PlanOK, FlagsWell
<1>14. ~WillSave({h} \cup Q) /\ WillFlag({h} \cup Q) /\ Half({h} \cup Q) \subseteq {h.dir}
  <2>1. \A t \in {h} \cup Q : t.do # "registry"
    BY <1>5, <1>6 DEF Before, FileSteps, Tells
  <2>2. \A t \in {h} \cup Q : t.do \in {"set", "kept"} => t.dir = h.dir
    BY <1>13 DEF FlagWell
  <2>. QED  BY <1>6, <2>1, <2>2 DEF WillSave, WillFlag, Half
<1>15. /\ Entry(h.src, h.dir, h.do = "on") \in reg
       /\ Of(T, h.dir) # {} => \A c \in BOOLEAN : Entry(h.src, h.dir, c) \in T
       /\ h.do = "on" => h.dir \in O
  BY <1>13, <1>14 DEF FlagWell
<1>16. PICK x \in reg : x.dir = e.dir /\ x.src = e.src
  <2>1. Entry(h.src, h.dir, h.do = "on").dir = h.dir /\ Entry(h.src, h.dir, h.do = "on").src = h.src
    BY DEF Entry
  <2>. QED  BY <1>12, <1>15, <2>1
<1>17. Apart(reg) /\ HasTold(reg, T, L) /\ Housed(reg, F)
  BY <1>2, <1>3, <1>7 DEF RegistryOK
<1>18. \A y \in reg : y.dir = e.dir => SameId(y, e)
  BY <1>16, <1>17 DEF Apart, SameId
<1>19. R \in SUBSET Entries /\ Apart(R) /\ e \in R /\ \A y \in R : y = e \/ (y \in reg /\ y.dir # e.dir)
  BY <1>3, <1>10, <1>12, <1>17, <1>18, ListsType, UpsertApart
<1>20. /\ A \in SUBSET Entries
       /\ \A y \in A : \E z \in T : z.dir = y.dir
       /\ Of(T, e.dir) # {} => e \in A
       /\ \A y \in A : y.dir = e.dir => Of(T, e.dir) # {}
       /\ \A d : d # e.dir => Of(A, d) = Of(T, d)
  BY <1>2, <1>3, <1>10, <1>12, ToldAsTells
<1>21. HasTold(R, T, L) /\ Leads(A, R, T, L)
  <2>1. \A y \in T : y.dir = e.dir => e \in T
    <3>. SUFFICES ASSUME NEW y \in T, y.dir = e.dir PROVE e \in T
      OBVIOUS
    <3>1. Of(T, h.dir) # {}
      BY <1>12 DEF Of
    <3>. QED  BY <1>9, <1>15, <3>1
  <2>2. \A y \in A : y.dir = e.dir => e \in A
    BY <1>20
  <2>3. \A d : d # e.dir => Of(A, d) = Of(T, d)
    BY <1>20
  <2>. QED  BY <1>10, <1>17, <2>1, <2>2, <2>3, UpsertLeads
<1>22. Housed(R, F)
  BY <1>16, <1>17, <1>19 DEF Housed
<1>23. OffIn(R, O, {})
  <2>1. ~e.on => e.dir \in O
    BY <1>6, <1>8, <1>12, <1>15
  <2>2. \A y \in reg : ~y.on => y.dir \in O \cup {h.dir}
    BY <1>7, <1>14 DEF OffIn
  <2>. QED  BY <1>12, <1>19, <2>1, <2>2 DEF OffIn
<1>24. Made(A, F)
  BY <1>7, <1>20 DEF Made
<1>25. PICK t \in Steps : TellKept(e, A) = <<t>> /\ t.do = "kept" /\ t.dir = e.dir /\ t.reg = A
  BY <1>12, <1>20, SetSteps
<1>26. PICK w : w = writes'
  OBVIOUS
<1>27. t \in Steps /\ t.do \in Tells /\ w = SaveSkills(R) \o <<t>>
  BY <1>11, <1>25, <1>26 DEF Tells
<1>28. PICK s \in Steps : InTurn(w) /\ Todo(w) = Whole({}, s, {}, t) /\ IsSave(s, R)
  BY <1>19, <1>27, ShortPlan
<1>29. PlanFits({}, {}, R, t, T, L, F, O, V)
  <2>1. OnlyFiles({}) /\ OnlyFlags({}) /\ FlagFits({}, {}, R, t, T, O)
    BY DEF OnlyFiles, OnlyFlags, FlagFits
  <2>2. HousesAll({}, R, F)
    BY <1>22 DEF HousesAll, Housed, Will
  <2>3. OffIn(R, O, WillOff({}))
    BY <1>23 DEF OffIn
  <2>4. TellFits({}, R, t, T, L, F, V)
    BY <1>21, <1>24, <1>25 DEF TellFits, Tells, Made
  <2>. QED  BY <1>19, <1>21, <2>1, <2>2, <2>3, <2>4 DEF PlanFits
<1>30. InTurn(w) /\ PlanOK(Todo(w), T, L, reg, F, O, V) /\ WillSave(Todo(w))
  <2>1. {} \in SUBSET Steps
    OBVIOUS
  <2>. QED  BY <1>27, <1>28, <1>29, <2>1, TellPlan
<1>32. Todo(w) = {s, t} /\ s.do = "registry"
  BY <1>28 DEF Whole, IsSave
<1>33. OffIn(reg, O, Half(Todo(w)))
  <2>1. h.dir \in Half({s, t})
    <3>1. WillSave({s, t}) /\ ~WillFlag({s, t})
      BY <1>25, <1>32 DEF WillSave, WillFlag
    <3>. QED  BY <1>12, <1>25, <3>1 DEF Half
  <2>. QED  BY <1>7, <1>14, <1>32, <2>1 DEF OffIn
<1>34. ListOK(V, Todo(w), O)
  BY <1>7, <1>14 DEF ListOK
<1>35. Stands(Todo(w), halfWritten, T, reg, F)
  BY <1>30 DEF Stands
<1>36. Registered' = reg /\ phase' # "boot"
  BY <1>2, <1>3, <1>11 DEF Registered, DiskOK
<1>. QED  BY <1>2, <1>7, <1>11, <1>26, <1>30, <1>33, <1>34, <1>35, <1>36 DEF DiskOK

\* A write fails, and the registry is whole and speaks of directories that are there.
LEMMA FailedDisk ==
  ASSUME SkillsTypeOK, DiskOK, SkillWriteFails, ~spoiled'
  PROVE  DiskOK' /\ halfWritten = FALSE /\ halfWritten' = FALSE
<1>1. PICK h, Q, w : h = Head(writes) /\ w = Tail(writes) /\ Q = Todo(w)
  OBVIOUS
<1>2. /\ writes \in Seq(Steps) /\ writes # <<>> /\ phase' = phase /\ phase # "boot" /\ h.do \notin Tells \cup {"list"}
      /\ told \in SUBSET Entries /\ files \in FileStates /\ entries \in SUBSET Entries
      /\ UNCHANGED <<entries, files, off, bundledMarker>> /\ UNCHANGED <<installedStore, told, lost>>
  BY <1>1 DEF SkillWriteFails, CutShort, Doing, DiskOK, SkillsTypeOK, SkillFilesOK, SkillPastOK, FileStates, skillDisk, skillPage, Tells
<1>3. halfWritten = FALSE /\ halfWritten' = FALSE /\ \A e \in entries : files[e.dir] # "none"
  <2>1. /\ ~halfWritten' /\ (\A e \in entries : Exists(e.dir))
        /\ halfWritten' \in {halfWritten, halfWritten \/ Doing("registry")}
    BY DEF SkillWriteFails, CutShort, skillDisk
  <2>2. halfWritten \in BOOLEAN /\ halfWritten' \in BOOLEAN
    BY <2>1 DEF SkillsTypeOK, SkillFilesOK, Doing
  <2>. QED  BY <2>1, <2>2 DEF Exists
<1>4. Registered = entries /\ Registered' = entries
  BY <1>2, <1>3 DEF Registered
<1>5. Housed(entries, files)
  BY <1>3 DEF Housed
<1>6. CASE h.do \in {"on", "off"}
  BY <1>1, <1>3, <1>5, <1>6, RolledBackDisk
<1>7. CASE h.do \notin {"on", "off"}
  <2>1. InTurn(writes)
    BY DEF DiskOK
  <2>2. /\ h \in Steps /\ w \in Seq(Steps) /\ Todo(writes) = {h} \cup Q
        /\ InTurn(w) /\ \A t \in Q : Before(h, t)
    BY <1>1, <1>2, <2>1, TodoFirst
  <2>3. PICK T, L, reg, F, O, V : /\ T = told /\ L = lost /\ reg = entries /\ F = files /\ O = off \cup halved
                                  /\ V = installedStore
    OBVIOUS
  <2>4. /\ PlanOK({h} \cup Q, T, L, reg, F, O, V) /\ ListOK(V, {h} \cup Q, O) /\ OffIn(reg, O, Half({h} \cup Q))
        /\ RegistryOK(FALSE, reg, T, L) /\ Made(T, F)
    BY <1>3, <1>4, <2>2, <2>3 DEF DiskOK
  <2>5. /\ halved' = halved \cup Half({h} \cup Q)
        /\ writes' = IF ReconcileSaves THEN w ELSE <<>>
    BY <1>1, <1>7, <2>2, HalfwayHalf DEF SkillWriteFails, CutShort, Doing
  <2>6. PICK O2 : O2 = off' \cup halved'
    OBVIOUS
  <2>7. O2 = O \cup Half({h} \cup Q)
    BY <1>2, <2>3, <2>5, <2>6
  <2>8. Housed(reg, F)
    BY <1>5, <2>3
  <2>9. CASE ~ReconcileSaves
    <3>1. writes' = <<>> /\ Todo(writes') = {} /\ InTurn(writes')
      BY <2>5, <2>9, TodoNone
    <3>2. PlanOK({}, T, L, reg, F, O2, V) /\ Half({}) = {}
      BY NothingLeft
    <3>3. OffIn(reg, O2, {})
      BY <2>4, <2>7 DEF OffIn
    <3>4. ListOK(V, {}, O2)
      <4>1. ASSUME NEW d, Will({h} \cup Q, "set", d), ~WillFlag({h} \cup Q) PROVE d \in O2
        <5>1. PICK t \in Q : t.do = "set" /\ t.dir = d
          BY <1>2, <4>1 DEF Will, Tells
        <5>2. h.do # "marker"
          <6>1. ToldWell(t, {h} \cup Q, T, L, reg, F, V)
            BY <2>4, <5>1 DEF PlanOK, ToldsWell, Tells
          <6>. QED  BY <5>1, <6>1 DEF ToldWell
        <5>3. h.do \in FileSteps \cup {"registry"}
          BY <1>2, <1>7, <2>2, <5>2, StepFields DEF Doings, DirSteps, Tells
        <5>4. WillSave({h} \cup Q)
          <6>1. CASE h.do = "registry"
            BY <6>1 DEF WillSave
          <6>2. CASE h.do \in FileSteps
            BY <2>4, <6>2 DEF PlanOK, FilesFirst
          <6>. QED  BY <5>3, <6>1, <6>2
        <5>5. d \in Half({h} \cup Q)
          BY <4>1, <5>1, <5>4 DEF Half
        <5>. QED  BY <2>7, <5>5
      <4>. QED  BY <2>4, <2>7, <4>1 DEF ListOK
    <3>5. Stands({}, FALSE, T, reg, F)
      BY <2>8 DEF Stands
    <3>6. DiskOK'
      BY <1>2, <1>3, <1>4, <2>3, <2>4, <2>6, <3>1, <3>2, <3>3, <3>4, <3>5 DEF DiskOK
    <3>. QED  BY <1>3, <3>6
  <2>10. CASE ReconcileSaves
    <3>1. \A t \in {h} \cup Q : t.do \in {"registry", "list"}
      <4>1. \A i \in DOMAIN writes :
              writes[i].do \notin {"copy", "manifest", "unlink", "rmdir", "on", "off", "marker", "tell", "set", "kept"}
        BY <2>10 DEF ReconcileSaves, Still
      <4>2. \A t \in Todo(writes) :
              t.do \notin {"copy", "manifest", "unlink", "rmdir", "on", "off", "marker", "tell", "set", "kept"}
        BY <1>2, <4>1 DEF Todo
      <4>3. \A t \in Todo(writes) : t \in Steps
        BY <1>2 DEF Todo
      <4>. QED  BY <2>2, <4>2, <4>3, StepFields DEF Doings, DirSteps, FileSteps
    <3>2. /\ Half({h} \cup Q) = {} /\ Half(Q) = {} /\ WillOff({h} \cup Q) = {} /\ WillOff(Q) = {}
      BY <3>1 DEF Half, WillOff
    <3>3. \A d : /\ ~Will({h} \cup Q, "copy", d) /\ ~Will({h} \cup Q, "manifest", d) /\ ~Will({h} \cup Q, "set", d)
                 /\ ~Will(Q, "unlink", d) /\ ~Will(Q, "rmdir", d)
      BY <3>1 DEF Will
    <3>4. writes' = w /\ O2 = O
      BY <2>5, <2>7, <2>10, <3>2
    <3>5. PlanOK(Q, T, L, reg, F, O, V)
      <4>1. ASSUME NEW s \in Q, s.do = "registry" PROVE SavedWell(s, Q, T, L, F, O)
        <5>1. SavedWell(s, {h} \cup Q, T, L, F, O)
          BY <2>4, <4>1 DEF PlanOK, SavesWell
        <5>. QED  BY <3>2, <3>3, <5>1 DEF SavedWell
      <4>2. SavesWell(Q, T, L, F, O)
        BY <4>1 DEF SavesWell
      <4>3. FilesFirst(Q) /\ FlagsWell(Q, T, reg, O) /\ ToldsWell(Q, T, L, reg, F, V)
        BY <3>1 DEF FilesFirst, FlagsWell, ToldsWell, FileSteps, Tells
      <4>. QED  BY <4>2, <4>3 DEF PlanOK
    <3>6. ListOK(V, Q, O) /\ OffIn(reg, O, Half(Q))
      BY <2>4, <3>2, <3>3 DEF ListOK
    <3>7. Stands(Q, FALSE, T, reg, F)
      BY <2>8 DEF Stands
    <3>8. DiskOK'
      BY <1>1, <1>2, <1>3, <1>4, <2>2, <2>3, <2>4, <2>6, <3>4, <3>5, <3>6, <3>7 DEF DiskOK
    <3>. QED  BY <1>3, <3>8
  <2>. QED  BY <2>9, <2>10
<1>. QED  BY <1>6, <1>7, <1>3

LEMMA FailedFlows ==
  ASSUME SkillsTypeOK, DiskOK, FlowsOK, SkillWriteFails, ~spoiled'
  PROVE  DiskOK' /\ FlowsOK'
<1>1. DiskOK' /\ halfWritten = FALSE /\ halfWritten' = FALSE
  BY FailedDisk
<1>2. files' = files /\ entries' = entries /\ flow' = flow /\ phase' = phase
  BY DEF SkillWriteFails, CutShort, skillDisk
<1>3. Registered' = Registered
  BY <1>1, <1>2 DEF Registered
<1>. QED  BY <1>1, <1>2, <1>3 DEF FlowsOK

\* The process is killed: what was told stays told, and what the registry lost is known to be lost.
LEMMA RestartDisk ==
  ASSUME SkillsTypeOK, DiskOK, SkillRestart
  PROVE  DiskOK' /\ FlowsOK'
<1>1. /\ writes' = <<>> /\ phase' = "boot" /\ flow' = [f \in Flows |-> IdleFlow] /\ installedStore' = {}
      /\ UNCHANGED <<entries, files, off, told>> /\ halfWritten' \in {halfWritten, halfWritten \/ Doing("registry")}
      /\ halved' = halved \cup Half(Todo(writes))
      /\ lost' = IF halfWritten' THEN lost \cup {e.dir : e \in told} ELSE lost
  BY HalfwayHalf DEF SkillRestart, CutShort
<1>2. PICK T, L, L2, reg2, F, O, O2, D : /\ T = told /\ L = lost /\ L2 = lost' /\ reg2 = Registered' /\ F = files
                                         /\ O = off \cup halved /\ O2 = off' \cup halved' /\ D = Half(Todo(writes))
  OBVIOUS
<1>3. Made(T, F) /\ RegistryOK(halfWritten, entries, T, L) /\ OffIn(Registered, O, D)
  BY <1>2 DEF DiskOK
<1>4. halfWritten \in BOOLEAN /\ halfWritten' \in BOOLEAN
  BY <1>1 DEF SkillsTypeOK, SkillFilesOK, Doing
<1>5. ~halfWritten' => ~halfWritten
  BY <1>1, <1>4
<1>6. RegistryOK(halfWritten', entries, T, L2)
  <2>1. CASE halfWritten'
    <3>1. L2 = L \cup {e.dir : e \in T}
      BY <1>1, <1>2, <2>1
    <3>. QED  BY <2>1, <3>1 DEF RegistryOK
  <2>2. CASE ~halfWritten'
    <3>1. L2 = L
      BY <1>1, <1>2, <2>2
    <3>. QED  BY <1>3, <1>5, <2>2, <3>1 DEF RegistryOK
  <2>. QED  BY <2>1, <2>2
<1>7. reg2 = {} \/ reg2 = Registered
  BY <1>1, <1>2, <1>4, <1>5 DEF Registered
<1>8. OffIn(reg2, O2, {})
  <2>1. O2 = O \cup D
    BY <1>1, <1>2
  <2>. QED  BY <1>3, <1>7, <2>1 DEF OffIn
<1>9. Todo(writes') = {} /\ InTurn(writes')
  BY <1>1, TodoNone
<1>10. PlanOK({}, T, L2, reg2, F, O2, {}) /\ Half({}) = {}
  BY NothingLeft
<1>11. ListOK({}, {}, O2)
  BY DEF ListOK, Apart
<1>12. DiskOK'
  BY <1>1, <1>2, <1>3, <1>6, <1>8, <1>9, <1>10, <1>11 DEF DiskOK
<1>13. FlowsOK'
  <2>1. \A k \in Flows : flow'[k] = IdleFlow
    BY <1>1
  <2>2. \A reg, G : FlowFits(IdleFlow, reg, G)
    BY IdleFits
  <2>3. IdleFlow.pc = "idle"
    BY DEF IdleFlow
  <2>. QED  BY <2>1, <2>2, <2>3 DEF FlowsOK
<1>. QED  BY <1>12, <1>13

LEMMA SkillsInvInitially == SkillsInit => SkillsInv
<1>. SUFFICES ASSUME SkillsInit PROVE SkillsInv
  OBVIOUS
<1>1. /\ entries = {} /\ halfWritten = FALSE /\ writes = <<>> /\ phase = "boot" /\ flow = [f \in Flows |-> IdleFlow]
      /\ installedStore = {} /\ told = {} /\ lost = {} /\ halved = {}
  BY DEF SkillsInit
<1>2. Registered = {}
  BY <1>1 DEF Registered
<1>3. Todo(writes) = {} /\ InTurn(writes)
  BY <1>1, TodoNone
<1>4. Apart({}) /\ Made({}, files) /\ ListOK({}, {}, off \cup halved) /\ OffIn({}, off \cup halved, {})
  BY DEF Apart, Made, ListOK, OffIn
<1>5. PlanOK({}, {}, {}, {}, files, off \cup halved, {}) /\ Half({}) = {}
  BY NothingLeft
<1>6. RegistryOK(FALSE, {}, {}, {})
  BY <1>4 DEF RegistryOK, HasTold, Fine
<1>7. DiskOK
  BY <1>1, <1>2, <1>3, <1>4, <1>5, <1>6 DEF DiskOK
<1>8. FlowsOK
  BY <1>1, IdleFits DEF FlowsOK, IdleFlow
<1>. QED  BY <1>7, <1>8, SkillsTypesInitially DEF SkillsInv

\* A list out of date that was saved stays a list out of date.
LEMMA SpoiledStays ==
  ASSUME SkillsTypeOK, [SkillsNext]_skillVars, ~spoiled'
  PROVE  ~spoiled
<1>1. CASE UNCHANGED skillVars
  BY <1>1 DEF skillVars, skillPast
<1>2. CASE ReconcileAtStart \/ InstallBundled \/ LoadInstalled \/ WriteStep \/ SkillWriteFails \/ SkillRestart
  BY <1>2 DEF skillPast, ReconcileAtStart, InstallBundled, LoadInstalled, WriteStep, SkillWriteFails, SkillRestart
<1>3. ASSUME NEW e \in installedStore, Uninstall(e) \/ Toggle(e) PROVE ~spoiled
  BY <1>3 DEF skillPast, Uninstall, Toggle
<1>4. ASSUME NEW f \in Flows, FlowStep(f) PROVE ~spoiled
  <2>1. ASSUME NEW src, NEW S, BeginFlow(f, src, S) PROVE ~spoiled
    BY <2>1 DEF skillPast, BeginFlow
  <2>2. CASE ReadInstalled(f) \/ Scan(f) \/ Downloaded(f) \/ CopySome(f) \/ CopyRest(f) \/ Copied(f)
    BY <2>2 DEF skillPast, ReadInstalled, Scan, Downloaded, CopySome, CopyRest, Copied
  <2>3. ASSUME NEW list, NEW A, SaveInstalled(f, list, A) PROVE ~spoiled
    BY <2>3 DEF SaveInstalled
  <2>4. CASE CheckInstall(f)
    BY <2>3, <2>4 DEF CheckInstall
  <2>5. CASE NextSource(f)
    BY <2>3, <2>5 DEF NextSource
  <2>. QED  BY <1>4, <2>1, <2>2, <2>4, <2>5 DEF FlowStep, Install, Import
<1>. QED  BY <1>1, <1>2, <1>3, <1>4 DEF SkillsNext

LEMMA DiskStep ==
  ASSUME SkillsTypeOK, DiskOK, FlowsOK, [SkillsNext]_skillVars, ~spoiled'
  PROVE  DiskOK' /\ FlowsOK'
<1>1. CASE UNCHANGED skillVars
  <2>1. UNCHANGED <<skillDisk, installedStore, told, lost, halved, writes, phase>> /\ UNCHANGED <<skillDisk, flow>> /\ phase' = phase
    BY <1>1 DEF skillVars, skillPage, skillPast
  <2>. QED  BY <2>1, DiskKept, FlowsSame
<1>2. CASE ReconcileAtStart
  BY <1>2, ReconcileBegins
<1>3. CASE InstallBundled
  BY <1>3, BundledBegin
<1>4. CASE LoadInstalled
  BY <1>4, LoadBegins
<1>5. ASSUME NEW e \in installedStore, Uninstall(e) PROVE DiskOK' /\ FlowsOK'
  BY <1>5, UninstallBegins
<1>6. ASSUME NEW e \in installedStore, Toggle(e) PROVE DiskOK' /\ FlowsOK'
  BY <1>6, ToggleBegins
<1>7. ASSUME NEW f \in Flows, FlowStep(f) PROVE DiskOK' /\ FlowsOK'
  <2>1. ASSUME NEW src, NEW S, BeginFlow(f, src, S) PROVE DiskOK' /\ FlowsOK'
    BY <2>1, FlowBegins
  <2>2. CASE ReadInstalled(f) \/ Scan(f)
    BY <2>2, FlowReads
  <2>3. CASE CheckInstall(f)
    BY <2>3, FlowChecks
  <2>4. CASE Downloaded(f)
    BY <2>4, FlowInstalls
  <2>5. CASE NextSource(f)
    BY <2>5, FlowImports
  <2>6. CASE CopySome(f) \/ CopyRest(f)
    BY <2>6, FlowCopies
  <2>7. CASE Copied(f)
    BY <2>7, FlowHasCopied
  <2>. QED  BY <1>7, <2>1, <2>2, <2>3, <2>4, <2>5, <2>6, <2>7 DEF FlowStep, Install, Import
<1>8. CASE WriteStep
  BY <1>8, StepDone, StepFlows
<1>9. CASE SkillWriteFails
  BY <1>9, FailedFlows
<1>10. CASE SkillRestart
  BY <1>10, RestartDisk
<1>. QED  BY <1>1, <1>2, <1>3, <1>4, <1>5, <1>6, <1>7, <1>8, <1>9, <1>10 DEF SkillsNext

LEMMA SkillsInvStep == SkillsInv /\ [SkillsNext]_skillVars => SkillsInv'
<1>. SUFFICES ASSUME SkillsInv, [SkillsNext]_skillVars PROVE SkillsInv'
  OBVIOUS
<1>1. SkillsTypeOK
  BY DEF SkillsInv
<1>2. SkillsTypeOK'
  BY <1>1, SkillsTypesStep
<1>3. ASSUME ~spoiled' PROVE DiskOK' /\ FlowsOK'
  <2>1. DiskOK /\ FlowsOK
    BY <1>1, <1>3, SpoiledStays DEF SkillsInv
  <2>. QED  BY <1>1, <1>3, <2>1, DiskStep
<1>. QED  BY <1>2, <1>3 DEF SkillsInv

LEMMA SkillsInvariant == SkillsSpec => []SkillsInv
BY SkillsInvInitially, SkillsInvStep, PTL DEF SkillsSpec

LEMMA SkillsInvTells == SkillsInv => AsTold /\ OffIsOff
<1>. SUFFICES ASSUME SkillsInv, writes = <<>>, ~spoiled
              PROVE  /\ phase # "boot" =>
                          \A e \in told :
                            /\ HasManifest(e.dir)
                            /\ \E x \in Registered :
                                 /\ Of(Registered, e.dir) = {x}
                                 /\ x \in told \/ (e.dir \in lost /\ x = Entry("local", e.dir, TRUE))
                     /\ \A e \in installedStore : ~e.on => e.dir \in off \cup halved
  BY DEF AsTold, OffIsOff
<1>1. DiskOK
  BY DEF SkillsInv
<1>2. /\ Made(told, files) /\ Apart(Registered) /\ OffIn(installedStore, off \cup halved, {})
      /\ phase # "boot" => HasTold(Registered, told, lost)
  BY <1>1, AtRest
<1>3. \A e \in installedStore : ~e.on => e.dir \in off \cup halved
  BY <1>2 DEF OffIn
<1>4. ASSUME phase # "boot", NEW e \in told
      PROVE  /\ HasManifest(e.dir)
             /\ \E x \in Registered :
                  /\ Of(Registered, e.dir) = {x}
                  /\ x \in told \/ (e.dir \in lost /\ x = Entry("local", e.dir, TRUE))
  <2>1. HasManifest(e.dir)
    BY <1>2 DEF Made, HasManifest
  <2>2. PICK x \in Registered : x.dir = e.dir /\ (x \in told \/ (e.dir \in lost /\ x = Entry("local", e.dir, TRUE)))
    BY <1>2, <1>4 DEF HasTold, Fine, Entry
  <2>3. Of(Registered, e.dir) = {x}
    BY <1>2, <2>2 DEF Apart, Of
  <2>. QED  BY <2>1, <2>2, <2>3
<1>. QED  BY <1>3, <1>4

\* What the user was told of a skill is so once the app has started and no operation runs:
\* its SKILL.md is there and its directory has one entry, the one told or, if a kill has
\* left the registry truncated since, the one reconcile_skills makes of the directory - for
\* any number of directories, repositories, overlapping installs and imports, failed writes
\* and kills, as long as no list read before another save was saved and no save has failed
\* for good (SkillsBackendService.ets, skills_registry.rs).
THEOREM ToldIsSo == SkillsSpec => []AsTold
<1>1. SkillsInv => AsTold
  BY SkillsInvTells
<1>. QED  BY <1>1, SkillsInvariant, PTL

\* A skill that the page lists as off is off in config.toml, which is what the agent reads,
\* whenever no operation runs and under the same condition: the write of config.toml that
\* fails and is rolled back included, not so a kill or a failure that has left the flag in
\* one of the two files (set_skill_enabled).
THEOREM ToldOffIsOff == SkillsSpec => []OffIsOff
<1>1. SkillsInv => OffIsOff
  BY SkillsInvTells
<1>. QED  BY <1>1, SkillsInvariant, PTL

=============================================================================
