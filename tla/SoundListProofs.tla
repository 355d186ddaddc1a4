-------------------------- MODULE SoundListProofs --------------------------
(***************************************************************************)
(* The list of sounds, for any number of lines, any lengths of sounds and  *)
(* buffers and any number of sounds played.  An entry accounts for what    *)
(* was heard of it (Good): as many samples as its repetitions so far and   *)
(* its position come to.  The mixer is followed entry by entry: what it    *)
(* keeps stays in order, what it takes out has come to its end.            *)
(***************************************************************************)
EXTENDS SoundList, Recursion, SequenceTheorems, FiniteSetTheorems, TLAPS

Loaded == loaded \in [Sounds -> DOMAIN Clip]

LEMMA ClipFacts ==
  ASSUME Loaded, NEW x \in Sounds
  PROVE  /\ Length(x) \in Nat /\ Times(x) \in Nat \cup {Endless}
         /\ Times(x) # 0 => Length(x) > 0
<1>1. loaded[x] \in {"file", "tone", "none"}
  <2>1. DOMAIN Clip = {"file", "tone", "none"}
    BY DEF Clip
  <2> QED
    BY <2>1 DEF Loaded
<1>2. CASE loaded[x] = "file"
  <2>1. Length(x) = FileLen /\ Times(x) = Endless
    BY <1>2 DEF Length, Times, Clip
  <2> QED
    BY <2>1, SoundsAssumption DEF SoundsAssumption
<1>3. CASE loaded[x] = "tone"
  <2>1. Length(x) = ToneLen /\ Times(x) = ToneRepeat
    BY <1>3 DEF Length, Times, Clip
  <2> QED
    BY <2>1, SoundsAssumption DEF SoundsAssumption
<1>4. CASE loaded[x] = "none"
  <2>1. Length(x) = 0 /\ Times(x) = 0
    BY <1>4 DEF Length, Times, Clip
  <2> QED
    BY <2>1
<1> QED
  BY <1>1, <1>2, <1>3, <1>4

(* An entry as the mixer leaves it. *)
Good(s) ==
    /\ s \in Entry
    /\ s.pos <= Length(s.sound)
    /\ IF Times(s.sound) = Endless THEN s.repeat = Endless
       ELSE /\ s.repeat \in 0 .. Times(s.sound)
            /\ s.heard = (Times(s.sound) - s.repeat) * Length(s.sound) + s.pos

(* The same sound, further on. *)
Same(t, s) == t \in Entry /\ t.id = s.id /\ t.sound = s.sound /\ t.channel = s.channel
Later(s) == {t \in Entry : Same(t, s) /\ Good(t)}

LEMMA NumberSet ==
  ASSUME NEW s \in Entry, NEW n \in Nat
  PROVE  /\ LET t == [s EXCEPT !.pos = n] IN
               Same(t, s) /\ t.pos = n /\ t.repeat = s.repeat /\ t.heard = s.heard
         /\ LET t == [s EXCEPT !.heard = n] IN
               Same(t, s) /\ t.pos = s.pos /\ t.repeat = s.repeat /\ t.heard = n
  BY DEF Entry, Same

LEMMA RepeatSet ==
  ASSUME NEW s \in Entry, NEW r \in Nat \cup {Endless}
  PROVE  LET t == [s EXCEPT !.repeat = r] IN
            Same(t, s) /\ t.pos = s.pos /\ t.repeat = r /\ t.heard = s.heard
  BY DEF Entry, Same

LEMMA HeardIs ==
  ASSUME NEW s \in Entry
  PROVE  /\ Same(Heard(s), s)
         /\ Heard(s).repeat = s.repeat /\ Heard(s).pos = s.pos + 1
         /\ Heard(s).heard = IF s.repeat = Endless THEN s.heard ELSE s.heard + 1
<1> PICK n \in Nat : n = s.pos + 1
  BY DEF Entry
<1> PICK h \in Nat : h = IF s.repeat = Endless THEN s.heard ELSE s.heard + 1
  BY DEF Entry
<1> DEFINE t == [s EXCEPT !.pos = n]
           u == [t EXCEPT !.heard = h]
<1>1. Same(t, s) /\ t.pos = n /\ t.repeat = s.repeat /\ t.heard = s.heard
  BY NumberSet
<1>2. u = Heard(s)
  <2>1. Heard(s) = [s EXCEPT !.pos = n, !.heard = h]
    BY DEF Heard
  <2> QED
    BY <2>1
<1> HIDE DEF t
<1>3. Same(u, t) /\ u.pos = t.pos /\ u.repeat = t.repeat /\ u.heard = h
  <2>1. t \in Entry
    BY <1>1 DEF Same
  <2> QED
    BY <2>1, NumberSet
<1> HIDE DEF u
<1> QED
  BY <1>1, <1>2, <1>3 DEF Same

LEMMA AgainIs ==
  ASSUME NEW s \in Entry, s.repeat # 0
  PROVE  /\ Same(Again(s), s)
         /\ Again(s).pos = 0 /\ Again(s).heard = s.heard
         /\ Again(s).repeat = IF s.repeat = Endless THEN Endless ELSE s.repeat - 1
<1> PICK z \in Nat : z = 0
  OBVIOUS
<1> PICK r \in Nat \cup {Endless} : r = IF s.repeat = Endless THEN Endless ELSE s.repeat - 1
  BY DEF Entry, Endless
<1> DEFINE t == [s EXCEPT !.pos = z]
           u == [t EXCEPT !.repeat = r]
<1>1. Same(t, s) /\ t.pos = z /\ t.repeat = s.repeat /\ t.heard = s.heard
  BY NumberSet
<1>2. u = Again(s)
  <2>1. Again(s) = [s EXCEPT !.pos = z, !.repeat = r]
    BY DEF Again
  <2> QED
    BY <2>1
<1> HIDE DEF t
<1>3. Same(u, t) /\ u.pos = t.pos /\ u.repeat = r /\ u.heard = t.heard
  <2>1. t \in Entry
    BY <1>1 DEF Same
  <2> QED
    BY <2>1, RepeatSet
<1> HIDE DEF u
<1> QED
  BY <1>1, <1>2, <1>3 DEF Same

(* A sample more keeps the account: where a sound starts again, the        *)
(* samples of its position become those of a repetition.                   *)
LEMMA SampleGood ==
  ASSUME Loaded, NEW s, Good(s)
  PROVE  Sample(s) \in Later(s)
<1> DEFINE x == s.sound
<1>1. /\ s \in Entry /\ x \in Sounds /\ s.pos \in Nat /\ s.heard \in Nat
      /\ s.repeat \in Nat \cup {Endless}
  BY DEF Good, Entry
<1>2. PICK L \in Nat : L = Length(x)
  BY <1>1, ClipFacts
<1>3. PICK T \in Nat \cup {Endless} : T = Times(x)
  BY <1>1, ClipFacts
<1>4. T # 0 => L > 0
  BY <1>1, <1>2, <1>3, ClipFacts
<1>5. /\ s.pos <= L
      /\ T = Endless => s.repeat = Endless
      /\ T # Endless => s.repeat \in 0 .. T /\ s.heard = (T - s.repeat) * L + s.pos
  BY <1>2, <1>3 DEF Good
<1>6. CASE Ended(s)
  BY <1>1, <1>6 DEF Sample, Later, Same
<1>7. CASE ~ Ended(s) /\ s.pos = L
  <2>1. s.repeat # 0
    BY <1>2, <1>7 DEF Ended
  <2>2. L > 0
    BY <1>3, <1>4, <1>5, <2>1 DEF Endless
  <2> DEFINE a == Again(s)
             t == Heard(a)
  <2>3. /\ Same(a, s)
        /\ a.pos = 0 /\ a.heard = s.heard
        /\ a.repeat = IF s.repeat = Endless THEN Endless ELSE s.repeat - 1
    BY <1>1, <2>1, AgainIs
  <2> HIDE DEF a
  <2>4. /\ Same(t, a)
        /\ t.repeat = a.repeat /\ t.pos = a.pos + 1
        /\ t.heard = IF a.repeat = Endless THEN a.heard ELSE a.heard + 1
    BY <2>3, HeardIs DEF Same
  <2>5. Sample(s) = t
    <3>1. Sample(s) = Heard(Again(s))
      BY <1>2, <1>7 DEF Sample
    <3> QED
      BY <3>1, Zenon DEF a, t
  <2> HIDE DEF t
  <2>6. CASE T = Endless
    <3>1. Same(t, s) /\ t.pos = 1 /\ t.repeat = Endless
      BY <1>5, <2>3, <2>4, <2>6 DEF Same
    <3>2. Length(t.sound) = L /\ Times(t.sound) = Endless
      BY <1>2, <1>3, <2>6, <3>1 DEF Same
    <3>3. Good(t)
      BY <2>2, <3>1, <3>2 DEF Good, Same
    <3> QED
      BY <2>5, <3>1, <3>3 DEF Later, Same
  <2>7. CASE T # Endless
    <3>1. s.repeat \in 1 .. T /\ s.heard = (T - s.repeat) * L + L /\ s.repeat # Endless
      BY <1>3, <1>5, <1>7, <2>1, <2>7 DEF Endless
    <3>2. PICK r \in 0 .. T : r = s.repeat - 1
      BY <3>1
    <3>3. t.repeat = r /\ t.pos = 1 /\ t.heard = s.heard + 1
      BY <1>1, <2>3, <2>4, <3>1, <3>2 DEF Endless
    <3>4. (T - (r + 1)) * L + L = (T - r) * L
      BY <1>3, <2>7, SMTT(10) DEF Endless
    <3>5. t.heard = (T - r) * L + 1
      <4>1. s.repeat = r + 1
        BY <3>1, <3>2
      <4> QED
        BY <3>1, <3>3, <3>4, <4>1
    <3> QED
      BY <1>2, <1>3, <2>2, <2>3, <2>4, <2>5, <2>7, <3>2, <3>3, <3>5 DEF Later, Good, Same
  <2> QED
    BY <2>6, <2>7
<1>8. CASE ~ Ended(s) /\ s.pos # L
  <2> DEFINE t == Heard(s)
  <2>1. /\ Same(t, s)
        /\ t.repeat = s.repeat /\ t.pos = s.pos + 1
        /\ t.heard = IF s.repeat = Endless THEN s.heard ELSE s.heard + 1
    BY <1>1, HeardIs
  <2>2. Sample(s) = t
    BY <1>2, <1>8 DEF Sample
  <2> HIDE DEF t
  <2>3. s.pos + 1 <= L
    BY <1>1, <1>5, <1>8
  <2>4. CASE T = Endless
    BY <1>2, <1>3, <1>5, <2>1, <2>2, <2>3, <2>4 DEF Later, Good, Same
  <2>5. CASE T # Endless
    <3>1. s.repeat # Endless
      BY <1>5, <2>5 DEF Endless
    <3>2. PICK m \in Int : m = (T - s.repeat) * L
      BY <1>3, <1>5, <2>5 DEF Endless
    <3>3. t.heard = (T - t.repeat) * L + t.pos
      BY <1>1, <1>5, <2>1, <2>5, <3>1, <3>2
    <3> QED
      BY <1>2, <1>3, <1>5, <2>1, <2>2, <2>3, <2>5, <3>3 DEF Later, Good, Same
  <2> QED
    BY <2>4, <2>5
<1> QED
  BY <1>6, <1>7, <1>8

(* A buffer's worth of samples, one at a time. *)
LEMMA AfterIs ==
  ASSUME Loaded, NEW s, Good(s)
  PROVE  /\ \A n \in 0 .. Frames : After(n, s) \in Later(s)
         /\ \A n \in 1 .. Frames : After(n, s) = Sample(After(n - 1, s))
<1> DEFINE at[k \in 0 .. Frames] == IF k = 0 THEN s ELSE Sample(at[k - 1])
           V == Later(s)
           G == [k \in 1 .. Frames |-> [v \in V |-> Sample(v)]]
<1>0. Frames \in Nat
  BY SoundsAssumption DEF SoundsAssumption
<1>1. s \in V
  BY DEF Later, Same, Good
<1>2. ASSUME NEW v \in V PROVE Sample(v) \in V
  <2>1. Same(v, s) /\ Good(v)
    BY DEF Later
  <2>2. Sample(v) \in Later(v)
    BY <2>1, SampleGood
  <2> QED
    BY <2>1, <2>2 DEF Later, Same
<1>3. G \in [1 .. Frames -> [V -> V]]
  <2> HIDE DEF V
  <2> QED
    BY <1>2
<1>4. PICK f : Runs(f, Frames, V, s, G)
  <2> HIDE DEF V, G
  <2> QED
    BY <1>0, <1>1, <1>3, LoopRuns
<1>5. f = [k \in 0 .. Frames |-> IF k = 0 THEN s ELSE Sample(f[k - 1])]
  <2>1. f \in [0 .. Frames -> V] /\ f[0] = s
    BY <1>4 DEF Runs
  <2>2. ASSUME NEW k \in 0 .. Frames, k # 0 PROVE f[k] = Sample(f[k - 1])
    <3>1. k \in 1 .. Frames /\ k - 1 \in 0 .. Frames
      BY <1>0, <2>2
    <3>2. f[k] = G[k][f[k - 1]]
      BY <1>4, <3>1 DEF Runs
    <3>3. f[k - 1] \in V
      BY <2>1, <3>1
    <3> HIDE DEF V
    <3> QED
      BY <3>1, <3>2, <3>3
  <2> QED
    BY <2>1, <2>2
<1>6. \E g : g = [k \in 0 .. Frames |-> IF k = 0 THEN s ELSE Sample(g[k - 1])]
  BY <1>5
<1>7. at = [k \in 0 .. Frames |-> IF k = 0 THEN s ELSE Sample(at[k - 1])]
  BY <1>6
<1>8. \A n \in 0 .. Frames : After(n, s) = at[n]
  BY DEF After
<1> HIDE DEF at, V
<1>9. \A n \in 1 .. Frames : at[n] = Sample(at[n - 1])
  BY <1>0, <1>7
<1>10. \A n \in 0 .. Frames : at[n] \in V
  <2>1. at[0] \in V
    BY <1>0, <1>1, <1>7
  <2>2. \A n \in 1 .. Frames : at[n - 1] \in V => at[n] \in V
    BY <1>2, <1>9
  <2> QED
    BY <1>0, <2>1, <2>2, LoopKeeps
<1> QED
  <2>1. \A n \in 1 .. Frames : n \in 0 .. Frames /\ n - 1 \in 0 .. Frames
    BY <1>0
  <2> QED
    BY <1>8, <1>9, <1>10, <2>1 DEF V

-----------------------------------------------------------------------------
(* The list: entries that account for themselves, the newest first. *)
ListOf(q, n) ==
    /\ q \in Seq(Entry)
    /\ \A k \in DOMAIN q : /\ Good(q[k]) /\ q[k].id < n
                           /\ \A j \in 1 .. (k - 1) : q[k].id < q[j].id
Listed == ListOf(sounds, nextSoundId)

(* The mixer after the first k entries. *)
Mixes == [list : Seq(Entry), over : SUBSET Entry, skip : BOOLEAN]
Mixed(m, k) ==
    /\ m \in Mixes
    /\ \A i \in DOMAIN m.list : /\ Good(m.list[i])
                                /\ \E j \in 1 .. k : m.list[i].id = sounds[j].id
    /\ \A i \in DOMAIN m.list : \A j \in 1 .. (i - 1) : m.list[i].id < m.list[j].id
    /\ \A e \in m.over : Good(e) /\ Ended(e)

(* It keeps the next entry, played on or passed over, or takes it out at   *)
(* its end.                                                                *)
LEMMA VisitCases ==
  ASSUME Loaded, Listed, NEW mix \in Mixes, NEW k \in 1 .. Len(sounds), NEW channel
  PROVE  LET m == Visit(mix, k, channel) IN
         /\ m \in Mixes
         /\ \E e \in Later(sounds[k]) :
               \/ m.list = Append(mix.list, e) /\ m.over = mix.over
               \/ m.list = mix.list /\ m.over = mix.over \cup {e} /\ Ended(e)
<1> DEFINE s == sounds[k]
           a == After(Frames, s)
<1>1. Good(s) /\ s \in Entry /\ s \in Later(s)
  BY DEF Listed, ListOf, Good, Later, Same
<1>2. a \in Later(s) /\ a \in Entry
  <2>1. Frames \in 0 .. Frames
    BY SoundsAssumption DEF SoundsAssumption
  <2> QED
    BY <1>1, <2>1, AfterIs DEF Later
<1>3. Leaves(s) => Ended(a)
  <2>1. Frames \in 1 .. Frames
    BY SoundsAssumption DEF SoundsAssumption
  <2>2. After(Frames, s) = Sample(After(Frames - 1, s))
    BY <1>1, <2>1, AfterIs
  <2> QED
    BY <2>2 DEF Leaves, Sample
<1>4. /\ mix.list \in Seq(Entry) /\ mix.over \in SUBSET Entry /\ mix.skip \in BOOLEAN
  BY DEF Mixes
<1>5. ASSUME NEW e \in Entry, NEW b \in BOOLEAN
      PROVE  LET m == [mix EXCEPT !.list = Append(@, e), !.skip = b] IN
             m \in Mixes /\ m.list = Append(mix.list, e) /\ m.over = mix.over
  <2>1. PICK l \in Seq(Entry) : l = Append(mix.list, e)
    BY <1>4, AppendProperties
  <2>2. LET m == [mix EXCEPT !.list = l, !.skip = b] IN
        m \in Mixes /\ m.list = l /\ m.over = mix.over
    BY <1>4 DEF Mixes
  <2> QED
    BY <2>1, <2>2
<1>6. ASSUME NEW e \in Entry
      PROVE  LET m == [mix EXCEPT !.list = Append(@, e)] IN
             m \in Mixes /\ m.list = Append(mix.list, e) /\ m.over = mix.over
  <2>1. PICK l \in Seq(Entry) : l = Append(mix.list, e)
    BY <1>4, AppendProperties
  <2>2. LET m == [mix EXCEPT !.list = l] IN
        m \in Mixes /\ m.list = l /\ m.over = mix.over
    BY <1>4 DEF Mixes
  <2> QED
    BY <2>1, <2>2
<1>7. ASSUME NEW e \in Entry, NEW b \in BOOLEAN
      PROVE  LET m == [mix EXCEPT !.over = @ \cup {e}, !.skip = b] IN
             m \in Mixes /\ m.list = mix.list /\ m.over = mix.over \cup {e}
  BY <1>4 DEF Mixes
<1> QED
  BY <1>1, <1>2, <1>3, <1>5, <1>6, <1>7 DEF Visit

LEMMA VisitMixed ==
  ASSUME Loaded, Listed, NEW k \in 1 .. Len(sounds), NEW channel,
         NEW mix, Mixed(mix, k - 1)
  PROVE  Mixed(Visit(mix, k, channel), k)
<1> DEFINE m == Visit(mix, k, channel)
           q == mix.list
<1>1. /\ mix \in Mixes /\ q \in Seq(Entry)
      /\ \A i \in DOMAIN q : /\ Good(q[i]) /\ \E j \in 1 .. (k - 1) : q[i].id = sounds[j].id
      /\ \A i \in DOMAIN q : \A j \in 1 .. (i - 1) : q[i].id < q[j].id
      /\ \A e \in mix.over : Good(e) /\ Ended(e)
  BY DEF Mixed, Mixes
<1>2. /\ m \in Mixes
      /\ \E e \in Later(sounds[k]) :
            \/ m.list = Append(q, e) /\ m.over = mix.over
            \/ m.list = q /\ m.over = mix.over \cup {e} /\ Ended(e)
  BY <1>1, VisitCases
<1> HIDE DEF m, q
<1>3. PICK e \in Later(sounds[k]) :
            \/ m.list = Append(q, e) /\ m.over = mix.over
            \/ m.list = q /\ m.over = mix.over \cup {e} /\ Ended(e)
  BY <1>2
<1>4. Good(e) /\ e \in Entry /\ e.id = sounds[k].id
  BY DEF Later, Same
<1>5. \A j \in 1 .. (k - 1) : j \in 1 .. k
  OBVIOUS
<1>6. CASE m.list = q /\ m.over = mix.over \cup {e} /\ Ended(e)
  BY <1>1, <1>2, <1>4, <1>5, <1>6 DEF Mixed, m
<1>7. CASE m.list = Append(q, e) /\ m.over = mix.over
  <2>1. /\ Len(q) \in Nat /\ DOMAIN q = 1 .. Len(q) /\ DOMAIN m.list = 1 .. Len(q) + 1
        /\ \A i \in 1 .. Len(q) : m.list[i] = q[i]
        /\ m.list[Len(q) + 1] = e
    <3>1. /\ Len(q) \in Nat /\ DOMAIN q = 1 .. Len(q)
          /\ Append(q, e) \in Seq(Entry)
      BY <1>1, <1>4
    <3>2. Len(Append(q, e)) = Len(q) + 1
      BY <1>1, <1>4, AppendProperties
    <3>3. DOMAIN Append(q, e) = 1 .. Len(Append(q, e))
      BY <3>1
    <3> QED
      BY <1>1, <1>4, <1>7, <3>1, <3>2, <3>3, AppendProperties
  <2>2. \A i \in 1 .. Len(q) + 1 : i \in 1 .. Len(q) \/ i = Len(q) + 1
    BY <2>1
  <2>3. \A i \in DOMAIN m.list : /\ Good(m.list[i])
                                 /\ \E j \in 1 .. k : m.list[i].id = sounds[j].id
    <3> SUFFICES ASSUME NEW i \in 1 .. Len(q) + 1
                 PROVE  Good(m.list[i]) /\ \E j \in 1 .. k : m.list[i].id = sounds[j].id
      BY <2>1
    <3>1. CASE i \in 1 .. Len(q)
      BY <1>1, <1>5, <2>1, <3>1
    <3>2. CASE i = Len(q) + 1
      <4>1. k \in 1 .. k
        OBVIOUS
      <4> QED
        BY <1>4, <2>1, <3>2, <4>1
    <3> QED
      BY <2>2, <3>1, <3>2
  <2>4. \A i \in 1 .. Len(q) : e.id < q[i].id
    <3> SUFFICES ASSUME NEW i \in 1 .. Len(q) PROVE e.id < q[i].id
      OBVIOUS
    <3>1. PICK j \in 1 .. (k - 1) : q[i].id = sounds[j].id
      BY <1>1, <2>1
    <3>2. k \in DOMAIN sounds
      BY DEF Listed, ListOf
    <3>3. sounds[k].id < sounds[j].id
      BY <3>2 DEF Listed, ListOf
    <3> QED
      BY <1>4, <3>1, <3>3
  <2>5. \A i \in DOMAIN m.list : \A j \in 1 .. (i - 1) : m.list[i].id < m.list[j].id
    <3> SUFFICES ASSUME NEW i \in 1 .. Len(q) + 1, NEW j \in 1 .. (i - 1)
                 PROVE  m.list[i].id < m.list[j].id
      BY <2>1
    <3>1. j \in 1 .. Len(q)
      BY <2>1
    <3>2. CASE i \in 1 .. Len(q)
      BY <1>1, <2>1, <3>1, <3>2
    <3>3. CASE i = Len(q) + 1
      BY <2>1, <2>4, <3>1, <3>3
    <3> QED
      BY <2>2, <3>2, <3>3
  <2> QED
    BY <1>1, <1>2, <1>7, <2>3, <2>5 DEF Mixed, m
<1> QED
  BY <1>3, <1>6, <1>7

LEMMA MixIs ==
  ASSUME Loaded, Listed, NEW channel
  PROVE  Mixed(MixFrom(channel), Len(sounds))
<1> DEFINE N == Len(sounds)
           start == [list |-> <<>>, over |-> {}, skip |-> FALSE]
           mix[k \in 0 .. N] == IF k = 0 THEN start ELSE Visit(mix[k - 1], k, channel)
           G == [k \in 1 .. N |-> [v \in Mixes |-> Visit(v, k, channel)]]
<1>0. N \in Nat
  BY DEF Listed, ListOf
<1>1. start \in Mixes
  BY DEF Mixes
<1>2. MixFrom(channel) = mix[N]
  BY DEF MixFrom
<1>3. G \in [1 .. N -> [Mixes -> Mixes]]
  BY VisitCases
<1>4. PICK f : Runs(f, N, Mixes, start, G)
  <2> HIDE DEF start, G, N
  <2> QED
    BY <1>0, <1>1, <1>3, LoopRuns
<1> HIDE DEF start, N
<1>5. f = [k \in 0 .. N |-> IF k = 0 THEN start ELSE Visit(f[k - 1], k, channel)]
  <2>1. f \in [0 .. N -> Mixes] /\ f[0] = start
    BY <1>4 DEF Runs
  <2>2. ASSUME NEW k \in 0 .. N, k # 0 PROVE f[k] = Visit(f[k - 1], k, channel)
    <3>1. k \in 1 .. N /\ k - 1 \in 0 .. N
      BY <1>0, <2>2
    <3>2. f[k] = G[k][f[k - 1]]
      BY <1>4, <3>1 DEF Runs
    <3>3. f[k - 1] \in Mixes
      BY <2>1, <3>1
    <3> QED
      BY <3>1, <3>2, <3>3
  <2> QED
    BY <2>1, <2>2
<1>6. \E g : g = [k \in 0 .. N |-> IF k = 0 THEN start ELSE Visit(g[k - 1], k, channel)]
  BY <1>5
<1>7. mix = [k \in 0 .. N |-> IF k = 0 THEN start ELSE Visit(mix[k - 1], k, channel)]
  BY <1>6
<1> HIDE DEF mix
<1> DEFINE S == {k \in Nat : k <= N => Mixed(mix[k], k)}
<1>8. 0 \in S
  <2>1. mix[0] = start
    BY <1>0, <1>7
  <2>2. start.list = <<>> /\ start.over = {} /\ DOMAIN start.list = {}
    BY DEF start
  <2> QED
    BY <1>1, <2>1, <2>2 DEF Mixed
<1>9. ASSUME NEW k \in Nat, k \in S PROVE k + 1 \in S
  <2> SUFFICES ASSUME k + 1 <= N PROVE Mixed(mix[k + 1], k + 1)
    OBVIOUS
  <2>1. k + 1 \in 1 .. N /\ k + 1 \in 0 .. N /\ k + 1 # 0 /\ (k + 1) - 1 = k /\ k <= N
    BY <1>0
  <2>2. mix[k + 1] = Visit(mix[k], k + 1, channel)
    BY <1>7, <2>1
  <2>3. Mixed(mix[k], k)
    BY <1>9, <2>1
  <2> HIDE DEF S
  <2>4. k + 1 \in 1 .. Len(sounds) /\ Mixed(mix[k], (k + 1) - 1)
    BY <2>1, <2>3 DEF N
  <2> QED
    BY <2>2, <2>4, VisitMixed
<1> HIDE DEF S
<1>10. N \in S
  BY <1>0, <1>8, <1>9, AllNumbers
<1> QED
  BY <1>2, <1>10 DEF S, N

-----------------------------------------------------------------------------
SoundInv ==
    /\ Loaded /\ nextSoundId \in 1 .. (MaxId + 1) /\ released \subseteq Sounds
    /\ Listed /\ PlayedOut

LEMMA InvTypes == SoundInv => TypeOK
  BY DEF SoundInv, TypeOK, Loaded, Listed, ListOf, Good

(* What a sound was loaded from does not change, and so an account stays   *)
(* good.                                                                   *)
LEMMA StillGood ==
  ASSUME UNCHANGED loaded, NEW q, NEW n, ListOf(q, n), sounds' = q, nextSoundId' = n
  PROVE  Listed'
<1>1. \A s : Length(s)' = Length(s) /\ Times(s)' = Times(s)
  BY DEF Length, Times
<1>2. ASSUME NEW s, Good(s) PROVE Good(s)'
  BY <1>1, <1>2 DEF Good, Length, Times
<1>3. ListOf(q, n)'
  <2> SUFFICES ASSUME NEW k \in DOMAIN q PROVE Good(q[k])'
    BY DEF ListOf
  <2> QED
    BY <1>2 DEF ListOf
<1> QED
  BY <1>3 DEF Listed, ListOf, Good, Length, Times

LEMMA SoundInit == Init => SoundInv
<1> SUFFICES ASSUME Init PROVE SoundInv
  OBVIOUS
<1>1. Loaded /\ sounds = <<>> /\ nextSoundId = 1 /\ released = {} /\ played = {}
  BY DEF Init, Ringload, Loaded
<1>2. MaxId \in Nat
  BY SoundsAssumption DEF SoundsAssumption
<1> QED
  BY <1>1, <1>2 DEF SoundInv, Listed, ListOf, PlayedOut

(* A sound is put in front, under a number no other has. *)
LEMMA PlayStep ==
  ASSUME SoundInv, NEW sound \in Sounds, NEW ring \in {0, 1}, PlaySound(sound, ring)
  PROVE  SoundInv'
<1> DEFINE e == [id |-> nextSoundId, sound |-> sound, channel |-> ring, pos |-> 0,
                 repeat |-> Times(sound), heard |-> 0]
           q == <<e>> \o sounds
<1>1. /\ Loaded /\ nextSoundId \in 1 .. (MaxId + 1) /\ released \subseteq Sounds
      /\ ListOf(sounds, nextSoundId) /\ MaxId \in Nat
  BY SoundsAssumption DEF SoundInv, Listed, SoundsAssumption
<1>2. /\ nextSoundId <= MaxId /\ nextSoundId' = nextSoundId + 1 /\ sounds' = q
      /\ played' = {} /\ loaded' = loaded /\ released' = released
  BY DEF PlaySound
<1>3. Length(sound) \in Nat /\ Times(sound) \in Nat \cup {Endless}
  BY <1>1, ClipFacts
<1>4. e \in Entry /\ e.id = nextSoundId
  BY <1>1, <1>2, <1>3 DEF Entry
<1>5. Good(e)
  <2>1. e.sound = sound /\ e.pos = 0 /\ e.repeat = Times(sound) /\ e.heard = 0
    OBVIOUS
  <2> HIDE DEF e
  <2>2. PICK T \in Nat \cup {Endless} : T = Times(sound)
    BY <1>3
  <2>3. PICK L \in Nat : L = Length(sound)
    BY <1>3
  <2>4. CASE T = Endless
    BY <1>4, <2>1, <2>2, <2>3, <2>4 DEF Good
  <2>5. CASE T # Endless
    <3>1. T \in Nat /\ T \in 0 .. T /\ (T - T) * L + 0 = 0
      BY <2>5, <2>2, <2>3, SMTT(10)
    <3> QED
      BY <1>4, <2>1, <2>2, <2>3, <2>5, <3>1 DEF Good
  <2> QED
    BY <2>4, <2>5
<1> HIDE DEF e
<1>6. ListOf(q, nextSoundId + 1)
  <2>1. /\ sounds \in Seq(Entry) /\ <<e>> \in Seq(Entry) /\ Len(<<e>>) = 1 /\ <<e>>[1] = e
        /\ Len(sounds) \in Nat /\ DOMAIN sounds = 1 .. Len(sounds)
    BY <1>1, <1>4 DEF ListOf
  <2>2. /\ q \in Seq(Entry) /\ Len(q) = 1 + Len(sounds)
        /\ \A i \in 1 .. 1 + Len(sounds) : q[i] = IF i <= 1 THEN <<e>>[i] ELSE sounds[i - 1]
    BY <2>1, ConcatProperties
  <2> HIDE DEF q
  <2>3. DOMAIN q = 1 .. 1 + Len(sounds)
    BY <2>1, <2>2
  <2>4. q[1] = e
    BY <2>1, <2>2
  <2>5. \A i \in 2 .. 1 + Len(sounds) : q[i] = sounds[i - 1] /\ i - 1 \in DOMAIN sounds
    BY <2>1, <2>2
  <2>6. ASSUME NEW k \in DOMAIN q
        PROVE  /\ Good(q[k]) /\ q[k].id < nextSoundId + 1
               /\ \A j \in 1 .. (k - 1) : q[k].id < q[j].id
    <3>1. CASE k = 1
      BY <1>1, <1>4, <1>5, <2>4, <3>1
    <3>2. CASE k # 1
      <4>1. k \in 2 .. 1 + Len(sounds) /\ k - 1 \in DOMAIN sounds /\ q[k] = sounds[k - 1]
        BY <2>1, <2>3, <2>5, <3>2
      <4>2. /\ Good(sounds[k - 1]) /\ sounds[k - 1].id < nextSoundId /\ sounds[k - 1].id \in Int
            /\ \A j \in 1 .. (k - 2) : sounds[k - 1].id < sounds[j].id
        <5>1. /\ Good(sounds[k - 1]) /\ sounds[k - 1].id < nextSoundId
              /\ \A j \in 1 .. ((k - 1) - 1) : sounds[k - 1].id < sounds[j].id
          BY <1>1, <4>1 DEF ListOf
        <5>2. (k - 1) - 1 = k - 2 /\ sounds[k - 1].id \in Int
          BY <2>3, <4>1, <5>1 DEF Good, Entry
        <5> QED
          BY <5>1, <5>2
      <4>3. ASSUME NEW j \in 1 .. (k - 1) PROVE q[k].id < q[j].id
        <5>1. CASE j = 1
          BY <1>4, <2>4, <4>1, <4>2, <5>1
        <5>2. CASE j # 1
          <6>1. j \in 2 .. 1 + Len(sounds) /\ j - 1 \in 1 .. (k - 2)
            BY <2>1, <4>1, <5>2
          <6> QED
            BY <2>5, <4>1, <4>2, <6>1
        <5> QED
          BY <5>1, <5>2
      <4> QED
        BY <1>1, <4>1, <4>2, <4>3
    <3> QED
      BY <3>1, <3>2
  <2> QED
    BY <2>2, <2>6 DEF ListOf
<1>7. Listed'
  BY <1>2, <1>6, StillGood
<1> QED
  BY <1>1, <1>2, <1>7 DEF SoundInv, Loaded, PlayedOut

(* What is behind the one that is stopped stays as it is. *)
LEMMA TailOfList ==
  ASSUME NEW q, NEW n, ListOf(q, n), NEW k \in 0 .. Len(q)
  PROVE  ListOf(SubSeq(q, k + 1, Len(q)), n)
<1> DEFINE r == SubSeq(q, k + 1, Len(q))
<1>1. q \in Seq(Entry) /\ Len(q) \in Nat /\ DOMAIN q = 1 .. Len(q)
  BY DEF ListOf
<1>2. /\ r \in Seq(Entry) /\ Len(r) = Len(q) - k
      /\ \A i \in 1 .. Len(q) - k : r[i] = q[k + i]
  <2>1. \A i \in (k + 1) .. Len(q) : q[i] \in Entry
    BY <1>1
  <2>2. k + 1 \in Int /\ Len(q) \in Int
    BY <1>1
  <2>3. /\ r \in Seq(Entry) /\ Len(r) = IF k + 1 <= Len(q) THEN Len(q) - (k + 1) + 1 ELSE 0
        /\ \A i \in 1 .. Len(q) - (k + 1) + 1 : r[i] = q[(k + 1) + i - 1]
    BY <2>1, <2>2, SubSeqProperties
  <2> HIDE DEF r
  <2>4. /\ Len(q) - (k + 1) + 1 = Len(q) - k
        /\ ~ (k + 1 <= Len(q)) => Len(q) - k = 0
        /\ \A i \in 1 .. Len(q) - k : (k + 1) + i - 1 = k + i
    <3>1. PICK N \in Nat : N = Len(q)
      BY <1>1
    <3>2. /\ k \in 0 .. N /\ N - (k + 1) + 1 = N - k
          /\ ~ (k + 1 <= N) => N - k = 0
      BY <3>1
    <3>3. \A i \in Int : (k + 1) + i - 1 = k + i
      BY <3>2
    <3> QED
      BY <3>1, <3>2, <3>3
  <2> QED
    BY <1>1, <2>3, <2>4
<1> HIDE DEF r
<1>3. DOMAIN r = 1 .. Len(q) - k
  BY <1>2
<1>4. ASSUME NEW i \in DOMAIN r
      PROVE  /\ Good(r[i]) /\ r[i].id < n
             /\ \A j \in 1 .. (i - 1) : r[i].id < r[j].id
  <2>1. k + i \in DOMAIN q /\ r[i] = q[k + i]
    BY <1>1, <1>2, <1>3
  <2>2. ASSUME NEW j \in 1 .. (i - 1) PROVE r[i].id < r[j].id
    <3>1. k + j \in 1 .. ((k + i) - 1) /\ r[j] = q[k + j]
      BY <1>1, <1>2, <1>3
    <3> QED
      BY <2>1, <3>1 DEF ListOf
  <2> QED
    BY <2>1, <2>2 DEF ListOf
<1> QED
  BY <1>2, <1>4 DEF ListOf, r

LEMMA StopStep ==
  ASSUME SoundInv, NEW id, StopSound(id)
  PROVE  SoundInv'
<1>1. /\ Loaded /\ nextSoundId \in 1 .. (MaxId + 1) /\ released \subseteq Sounds
      /\ ListOf(sounds, nextSoundId)
  BY DEF SoundInv, Listed
<1>2. loaded' = loaded /\ nextSoundId' = nextSoundId /\ played' = {}
  BY DEF StopSound
<1>3. released' \subseteq Sounds /\ \E q : sounds' = q /\ ListOf(q, nextSoundId)
  <2>1. CASE sounds' = <<>> /\ released' = released
    <3>1. ListOf(<<>>, nextSoundId)
      BY DEF ListOf
    <3> QED
      BY <1>1, <2>1, <3>1
  <2>2. ASSUME NEW k \in With(id), sounds' = SubSeq(sounds, k + 1, Len(sounds)),
               released' = released \cup Malloced({sounds[k].sound})
        PROVE  released' \subseteq Sounds /\ \E q : sounds' = q /\ ListOf(q, nextSoundId)
    <3>1. k \in DOMAIN sounds /\ k \in 0 .. Len(sounds)
      BY <1>1 DEF With, ListOf
    <3>2. sounds[k].sound \in Sounds
      BY <1>1, <3>1 DEF ListOf, Good, Entry
    <3>3. ListOf(SubSeq(sounds, k + 1, Len(sounds)), nextSoundId)
      BY <1>1, <3>1, TailOfList
    <3> QED
      BY <1>1, <2>2, <3>2, <3>3 DEF Malloced
  <2> QED
    BY <2>1, <2>2 DEF StopSound
<1>4. Listed'
  BY <1>2, <1>3, StillGood
<1> QED
  BY <1>1, <1>2, <1>3, <1>4 DEF SoundInv, Loaded, PlayedOut

(* A sound at its end has been heard in full. *)
LEMMA EndedHeard ==
  ASSUME Loaded, NEW e, Good(e), Ended(e)
  PROVE  Times(e.sound) # Endless /\ e.heard = (Times(e.sound) + 1) * Length(e.sound)
<1>1. e.sound \in Sounds
  BY DEF Good, Entry
<1>2. PICK L \in Nat : L = Length(e.sound)
  BY <1>1, ClipFacts
<1>3. PICK T \in Nat \cup {Endless} : T = Times(e.sound)
  BY <1>1, ClipFacts
<1>4. e.pos = L /\ e.repeat = 0
  BY <1>2 DEF Ended
<1>5. T # Endless /\ T \in Nat
  BY <1>3, <1>4 DEF Good, Endless
<1>6. e.heard = (T - 0) * L + L
  BY <1>2, <1>3, <1>4, <1>5 DEF Good
<1>7. (T - 0) * L + L = (T + 1) * L
  BY <1>5, SMTT(10)
<1> QED
  BY <1>2, <1>3, <1>5, <1>6, <1>7

(* What the mixer does to the list and to what it takes out of it. *)
LEMMA MixFacts ==
  ASSUME SoundInv, NEW channel, MixSounds(channel)
  PROVE  /\ loaded' = loaded /\ nextSoundId' = nextSoundId
         /\ \E q : /\ sounds' = q /\ ListOf(q, nextSoundId)
                   /\ \A i \in DOMAIN q : \E j \in DOMAIN sounds : q[i].id = sounds[j].id
         /\ \A e \in played' : Good(e) /\ Ended(e)
         /\ released' = released \cup Malloced({s.sound : s \in played'})
<1> DEFINE m == MixFrom(channel)
<1>1. Loaded /\ ListOf(sounds, nextSoundId)
  BY DEF SoundInv, Listed
<1>2. Mixed(m, Len(sounds))
  BY MixIs DEF SoundInv
<1>3. /\ sounds' = m.list /\ played' = m.over
      /\ released' = released \cup Malloced({s.sound : s \in m.over})
      /\ loaded' = loaded /\ nextSoundId' = nextSoundId
  BY DEF MixSounds
<1> HIDE DEF m
<1>4. DOMAIN sounds = 1 .. Len(sounds)
  BY <1>1 DEF ListOf
<1>5. /\ m.list \in Seq(Entry)
      /\ \A i \in DOMAIN m.list : /\ Good(m.list[i])
                                  /\ \E j \in 1 .. Len(sounds) : m.list[i].id = sounds[j].id
      /\ \A i \in DOMAIN m.list : \A j \in 1 .. (i - 1) : m.list[i].id < m.list[j].id
      /\ \A e \in m.over : Good(e) /\ Ended(e)
  BY <1>2 DEF Mixed, Mixes
<1>6. \A i \in DOMAIN m.list : m.list[i].id < nextSoundId
  <2> SUFFICES ASSUME NEW i \in DOMAIN m.list PROVE m.list[i].id < nextSoundId
    OBVIOUS
  <2>1. PICK j \in DOMAIN sounds : m.list[i].id = sounds[j].id
    BY <1>4, <1>5
  <2> QED
    BY <1>1, <2>1 DEF ListOf
<1>7. ListOf(m.list, nextSoundId)
  BY <1>5, <1>6 DEF ListOf
<1> QED
  BY <1>3, <1>4, <1>5, <1>7

LEMMA MixStep ==
  ASSUME SoundInv, NEW channel, MixSounds(channel)
  PROVE  SoundInv'
<1>1. /\ Loaded /\ nextSoundId \in 1 .. (MaxId + 1) /\ released \subseteq Sounds
  BY DEF SoundInv
<1>2. /\ loaded' = loaded /\ nextSoundId' = nextSoundId
      /\ \E q : sounds' = q /\ ListOf(q, nextSoundId)
      /\ \A e \in played' : Good(e) /\ Ended(e)
      /\ released' = released \cup Malloced({s.sound : s \in played'})
  BY MixFacts
<1>3. Listed'
  BY <1>2, StillGood
<1>4. \A e \in played' : e.sound \in Sounds
  BY <1>2 DEF Good, Entry
<1>5. \A e \in played' : /\ Times(e.sound) # Endless
                         /\ e.heard = (Times(e.sound) + 1) * Length(e.sound)
  BY <1>1, <1>2, EndedHeard
<1>6. PlayedOut'
  BY <1>2, <1>5 DEF PlayedOut, Times, Length
<1> QED
  BY <1>1, <1>2, <1>3, <1>4, <1>6 DEF SoundInv, Loaded, Malloced

LEMMA SoundNext == SoundInv /\ [Next]_vars => SoundInv'
<1> SUFFICES ASSUME SoundInv, [Next]_vars PROVE SoundInv'
  OBVIOUS
<1>1. ASSUME NEW line \in Lines, RingStart(line) PROVE SoundInv'
  <2>1. CallWaiting \in Sounds /\ Ring(line) \in Sounds
    BY Zenon DEF Sounds, Rings
  <2> QED
    BY <1>1, <2>1, PlayStep DEF RingStart
<1>2. CASE RingBackStart
  <2>1. RingBack \in Sounds
    BY Zenon DEF Sounds
  <2> QED
    BY <1>2, <2>1, PlayStep DEF RingBackStart
<1>3. ASSUME NEW line \in Lines, RingStop(line) PROVE SoundInv'
  BY <1>3, StopStep DEF RingStop
<1>4. ASSUME NEW channel \in {0, 1}, MixSounds(channel) PROVE SoundInv'
  BY <1>4, MixStep
<1>5. CASE UNCHANGED vars
  <2>1. UNCHANGED <<loaded, sounds, nextSoundId, released, played>>
    BY <1>5 DEF vars
  <2>2. Listed'
    <3>1. PICK q : q = sounds
      OBVIOUS
    <3>2. PICK n : n = nextSoundId
      OBVIOUS
    <3>3. ListOf(q, n) /\ sounds' = q /\ nextSoundId' = n
      BY <2>1, <3>1, <3>2 DEF SoundInv, Listed
    <3> QED
      BY <2>1, <3>3, StillGood
  <2> QED
    BY <2>1, <2>2 DEF SoundInv, Loaded, PlayedOut, Times, Length
<1> QED
  BY <1>1, <1>2, <1>3, <1>4, <1>5 DEF Next

THEOREM SoundInvariant == Spec => []SoundInv
  BY SoundInit, SoundNext, PTL DEF Spec

(* Every entry is a sound within its data; the list is in the order the    *)
(* sounds were played, whatever the mixer and pa_stop_sound take out of it.*)
THEOREM SoundTypeCorrect == Spec => []TypeOK
  BY SoundInvariant, InvTypes, PTL

(* A sound that leaves the mixer at its end was heard in full, whatever    *)
(* its length, its repetitions and the size of the buffers.                *)
THEOREM PlayedOutAlways == Spec => []PlayedOut
<1>1. SoundInv => PlayedOut
  BY DEF SoundInv
<1> QED
  BY <1>1, SoundInvariant, PTL

-----------------------------------------------------------------------------
(* priax has two lines (MAXLINES); the numbers of sounds begin with 1, so  *)
(* that the lines' numbers are those of no sound and of the first.         *)
LEMMA StoppedAll ==
  ASSUME SoundInv, Lines \subseteq {0, 1}, NEW line \in Lines, StopSound(line)
  PROVE  /\ sounds' = <<>>
         /\ \/ released' = released
            \/ \E k \in DOMAIN sounds :
                  /\ sounds[k].id = 1
                  /\ released' = released \cup Malloced({sounds[k].sound})
<1>1. CASE sounds' = <<>> /\ released' = released
  BY <1>1
<1>2. ASSUME NEW k \in With(line), sounds' = SubSeq(sounds, k + 1, Len(sounds)),
             released' = released \cup Malloced({sounds[k].sound})
      PROVE  /\ sounds' = <<>>
             /\ \E i \in DOMAIN sounds :
                   /\ sounds[i].id = 1
                   /\ released' = released \cup Malloced({sounds[i].sound})
  <2>1. ListOf(sounds, nextSoundId)
    BY DEF SoundInv, Listed
  <2>2. PICK N \in Nat : N = Len(sounds) /\ DOMAIN sounds = 1 .. N
    BY <2>1 DEF ListOf
  <2>3. k \in 1 .. N /\ sounds[k].id = line
    BY <2>2 DEF With
  <2>4. \A i \in 1 .. N : sounds[i].id \in Int /\ sounds[i].id >= 1
    <3> SUFFICES ASSUME NEW i \in 1 .. N PROVE sounds[i].id \in Int /\ sounds[i].id >= 1
      OBVIOUS
    <3>1. sounds[i].id \in 1 .. MaxId
      BY <2>1, <2>2 DEF ListOf, Good, Entry
    <3> QED
      BY <3>1, SoundsAssumption DEF SoundsAssumption
  <2>5. line = 1
    BY <2>3, <2>4
  <2>6. k = N
    <3> SUFFICES ASSUME k # N PROVE FALSE
      OBVIOUS
    <3>1. N \in 1 .. N /\ k \in 1 .. (N - 1)
      BY <2>2, <2>3
    <3>2. sounds[N].id < sounds[k].id
      BY <2>1, <2>2, <3>1 DEF ListOf
    <3> QED
      BY <2>3, <2>4, <2>5, <3>1, <3>2
  <2>7. SubSeq(sounds, N + 1, N) = <<>>
    <3>1. N + 1 \in Int /\ N \in Int /\ N < N + 1
      OBVIOUS
    <3> QED
      BY <3>1, SubSeqEmpty
  <2> QED
    BY <1>2, <2>2, <2>3, <2>5, <2>6, <2>7
<1> QED
  BY <1>1, <1>2 DEF StopSound

(* A tone that the phone stops by the number of its line is not heard any  *)
(* more, whatever was played before and after it.                          *)
THEOREM ToneStopsHolds == Lines \subseteq {0, 1} /\ Spec => ToneStops
<1>1. ASSUME Lines \subseteq {0, 1}, SoundInv, NEW line \in Lines, RingStop(line),
             NEW k \in DOMAIN sounds'
      PROVE  FALSE
  <2>1. sounds' = <<>>
    BY <1>1, StoppedAll DEF RingStop
  <2> QED
    BY <1>1, <2>1
<1>2. ASSUME Lines \subseteq {0, 1}
      PROVE  SoundInv =>
               [\A line \in Lines : RingStop(line) =>
                   \A k \in DOMAIN sounds' :
                      sounds'[k].sound \notin {Ring(line), RingBack}]_vars
  BY <1>1, <1>2
<1>3. CASE Lines \subseteq {0, 1}
  BY <1>2, <1>3, SoundInvariant, PTL DEF Spec, ToneStops
<1> QED
  BY <1>3

(* The endless sounds that have lost their data: once there is one, the    *)
(* first of all sounds is gone, and no line names another.                 *)
Silenced == {s \in released : Times(s) = Endless}
FirstGone == nextSoundId > 1 /\ \A k \in DOMAIN sounds : sounds[k].id # 1
RingsInv == Silenced = {} \/ (FirstGone /\ \E x : Silenced \subseteq {x})

LEMMA RingsNext ==
  ASSUME Lines \subseteq {0, 1}, SoundInv, RingsInv, [Next]_vars
  PROVE  RingsInv'
<1>1. /\ Loaded /\ nextSoundId \in Nat /\ nextSoundId >= 1
      /\ ListOf(sounds, nextSoundId) /\ MaxId \in Nat
  BY SoundsAssumption DEF SoundInv, Listed, SoundsAssumption
<1>2. \A k \in DOMAIN sounds : sounds[k].id \in Int /\ sounds[k].id < nextSoundId
  BY <1>1 DEF ListOf, Good, Entry
<1>3. ASSUME loaded' = loaded, released' = released, FirstGone => FirstGone'
      PROVE  RingsInv'
  BY <1>3 DEF RingsInv, Silenced, Times
<1>4. ASSUME NEW sound, NEW ring, PlaySound(sound, ring) PROVE RingsInv'
  <2> DEFINE e == [id |-> nextSoundId, sound |-> sound, channel |-> ring, pos |-> 0,
                   repeat |-> Times(sound), heard |-> 0]
  <2>1. /\ loaded' = loaded /\ released' = released /\ nextSoundId' = nextSoundId + 1
        /\ sounds' = <<e>> \o sounds
    BY <1>4 DEF PlaySound
  <2>2. e.id = nextSoundId
    OBVIOUS
  <2> HIDE DEF e
  <2>3. ASSUME FirstGone PROVE FirstGone'
    <3> DEFINE q == <<e>> \o sounds
               V == Entry \cup {e}
    <3>1. sounds \in Seq(V) /\ <<e>> \in Seq(V) /\ Len(<<e>>) = 1 /\ <<e>>[1] = e
      BY <1>1 DEF ListOf
    <3> HIDE DEF V
    <3>2. /\ Len(sounds) \in Nat /\ DOMAIN sounds = 1 .. Len(sounds)
          /\ q \in Seq(V) /\ Len(q) = 1 + Len(sounds)
          /\ \A i \in 1 .. 1 + Len(sounds) : q[i] = IF i <= 1 THEN <<e>>[i] ELSE sounds[i - 1]
      BY <3>1, ConcatProperties
    <3> HIDE DEF q
    <3>3. DOMAIN q = 1 .. 1 + Len(sounds)
      BY <3>2
    <3>4. \A i \in 1 .. 1 + Len(sounds) : i = 1 \/ (~ (i <= 1) /\ i - 1 \in DOMAIN sounds)
      BY <3>2
    <3>5. \A i \in DOMAIN q : q[i] = e \/ \E j \in DOMAIN sounds : q[i] = sounds[j]
      BY <3>1, <3>2, <3>3, <3>4
    <3>6. \A i \in DOMAIN q : q[i].id # 1
      BY <2>2, <2>3, <3>5 DEF FirstGone
    <3> QED
      BY <1>1, <2>1, <3>6 DEF FirstGone, q
  <2> QED
    BY <1>3, <2>1, <2>3
<1>5. ASSUME NEW line \in Lines, StopSound(line) PROVE RingsInv'
  <2>1. loaded' = loaded /\ nextSoundId' = nextSoundId
    BY <1>5 DEF StopSound
  <2>2. sounds' = <<>>
    BY <1>5, StoppedAll
  <2>3. CASE released' = released
    <3>1. FirstGone => FirstGone'
      BY <2>1, <2>2 DEF FirstGone
    <3> QED
      BY <1>3, <2>1, <2>3, <3>1
  <2>4. ASSUME NEW k \in DOMAIN sounds, sounds[k].id = 1,
               released' = released \cup Malloced({sounds[k].sound})
        PROVE  RingsInv'
    <3>1. ~ FirstGone
      BY <2>4 DEF FirstGone
    <3>2. Silenced = {}
      BY <3>1 DEF RingsInv
    <3>3. Silenced' \subseteq {sounds[k].sound}
      BY <2>1, <2>4, <3>2 DEF Silenced, Malloced, Times
    <3>4. FirstGone'
      BY <1>1, <1>2, <2>1, <2>2, <2>4 DEF FirstGone
    <3> QED
      BY <3>3, <3>4 DEF RingsInv
  <2> QED
    BY <1>5, <2>3, <2>4, StoppedAll
<1>6. ASSUME NEW channel, MixSounds(channel) PROVE RingsInv'
  <2>1. PICK q : /\ sounds' = q
                 /\ \A i \in DOMAIN q : \E j \in DOMAIN sounds : q[i].id = sounds[j].id
    BY <1>6, MixFacts
  <2>2. /\ loaded' = loaded /\ nextSoundId' = nextSoundId
        /\ \A e \in played' : Good(e) /\ Ended(e)
        /\ released' = released \cup Malloced({s.sound : s \in played'})
    BY <1>6, MixFacts
  <2>3. \A e \in played' : Times(e.sound) # Endless
    BY <1>1, <2>2, EndedHeard
  <2>4. Silenced' = Silenced
    BY <2>2, <2>3 DEF Silenced, Malloced, Times
  <2>5. FirstGone => FirstGone'
    BY <2>1, <2>2 DEF FirstGone
  <2> QED
    BY <2>4, <2>5 DEF RingsInv
<1>7. CASE UNCHANGED vars
  BY <1>3, <1>7 DEF vars, FirstGone
<1> QED
  BY <1>4, <1>5, <1>6, <1>7 DEF Next, RingStart, RingBackStart, RingStop

LEMMA AtMostOne == RingsInv => RingsSurvive
<1> SUFFICES ASSUME RingsInv PROVE Cardinality(Silenced) <= 1
  BY DEF RingsSurvive, Silenced
<1>1. Silenced = {} => Cardinality(Silenced) <= 1
  BY FS_EmptySet
<1>2. ASSUME NEW x, Silenced \subseteq {x} PROVE Cardinality(Silenced) <= 1
  <2>1. Silenced = {} \/ Silenced = {x}
    BY <1>2
  <2>2. Cardinality({x}) = 1
    BY FS_Singleton
  <2> QED
    BY <1>1, <2>1, <2>2
<1> QED
  BY <1>1, <1>2 DEF RingsInv

(* Of the sounds that never end by themselves one at most has its data     *)
(* freed while the phone may still play it.                                *)
THEOREM RingsSurviveAlways == Lines \subseteq {0, 1} /\ Spec => []RingsSurvive
<1>1. Init => RingsInv
  BY DEF Init, RingsInv, Silenced
<1>2. ASSUME Lines \subseteq {0, 1} PROVE SoundInv /\ RingsInv /\ [Next]_vars => RingsInv'
  BY <1>2, RingsNext
<1>3. CASE Lines \subseteq {0, 1}
  BY <1>1, <1>2, <1>3, SoundInvariant, AtMostOne, PTL DEF Spec
<1> QED
  BY <1>3
=============================================================================
