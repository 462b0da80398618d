---------------------------- MODULE LuaBindingProofs ---------------------------
(***************************************************************************)
(* Theorems about LuaBinding and the gsusb_open() and gsusb_close() in it, *)
(* for any number of userdata and of channels.                             *)
(***************************************************************************)
EXTENDS LuaBinding, SequenceTheorems, TLAPS

-------------------------------------------------------------------------------
(* The inductive invariant of GsusbOpen. *)

Usb == {<<"handle">>, <<"interface">>}

QueuesUpTo(k) == {Queue(q) : q \in 1..k}

(* What a gsusb_open() that has come to the call at has acquired. *)
Acquired(at) ==
  CASE at = "closed" -> {}
    [] at \in {"match", "open"} -> {<<"list">>}
    [] at = "free_list" -> {<<"list">>, <<"handle">>}
    [] at = "claim" -> {<<"handle">>}
    [] at \in {"config", "alloc_dev"} -> Usb
    [] at = "endpoints" -> Usb \cup {<<"config">>}
    [] at \in {"host_format", "device_config", "alloc_channels"} -> Usb \cup {<<"dev">>}
    [] at \in {"bt_const", "bt_const_ext", "rxq_init"} ->
         Usb \cup {<<"dev">>, <<"channels">>} \cup QueuesUpTo(i - 1)
    [] at = "init_lock" -> Usb \cup {<<"dev">>, <<"channels">>} \cup QueuesUpTo(channel_count)
    [] at = "opened" ->
         Usb \cup {<<"dev">>, <<"channels">>, <<"start_lock">>} \cup QueuesUpTo(channel_count)

Calls == {"closed", "match", "open", "free_list", "claim", "config", "alloc_dev", "endpoints",
          "host_format", "device_config", "alloc_channels", "bt_const", "bt_const_ext",
          "rxq_init", "init_lock", "opened"}

(* r lives in s, or was obtained through it. *)
Within(r, s) ==
  \/ r = <<"interface">> /\ s = <<"handle">>
  \/ r \in Queues /\ s = <<"channels">>
  \/ r \in {<<"channels">>, <<"start_lock">>} /\ s = <<"dev">>

(* seq gives back all of things, each once and before what it lives in. *)
Returns(seq, things) ==
  /\ things = {seq[n] : n \in DOMAIN seq}
  /\ \A n, m \in DOMAIN seq : seq[n] = seq[m] => n = m
  /\ \A n \in DOMAIN seq : \A s \in Resources :
       Within(seq[n], s) => \E m \in DOMAIN seq : m > n /\ seq[m] = s

OpenInv ==
  /\ channel_count \in 0..MaxChannels
  /\ pc \in {"bt_const", "bt_const_ext", "rxq_init"} => i \in 1..channel_count
  /\ cleanup \in Seq(Resources)
  /\ \/ pc = "releasing" /\ Returns(cleanup, held)
     \/ pc \in Calls /\ cleanup = <<>> /\ held = Acquired(pc)

-------------------------------------------------------------------------------
(* The inductive invariant of LuaBinding. *)

Distinct(s) == \A n, m \in DOMAIN s : s[n] = s[m] => n = m

(* a is earlier in s than b. *)
Before(s, a, b) == \E n, m \in DOMAIN s : s[n] = a /\ s[m] = b /\ n < m

BindingTypeOK ==
  /\ born \in Seq(Ctxs \cup Devs)
  /\ Distinct(born)
  /\ ptr \subseteq ToSet(born)
  /\ env \in [Chans -> Devs \cup {NoOne}]
  /\ script \subseteq ToSet(born) \cup Chans
  /\ dying \subseteq ToSet(born) \ script
  /\ opening \in Devs \cup {NoOne} /\ usb_ctx \in Ctxs \cup {NoOne}
  /\ closing \in BOOLEAN /\ misused \in BOOLEAN /\ dangled \in BOOLEAN /\ lost \in BOOLEAN
  /\ closing => script = {}

(* The dev userdata that has the open device. *)
OwnerInv ==
  /\ \A d, e \in ptr \cap Devs : d = e
  /\ ptr \cap Devs # {} => pc = "opened" /\ opening = NoOne /\ ~lost
  /\ opening = NoOne => pc \in {"closed", "opened", "releasing"}
  /\ lost => pc = "opened" /\ opening = NoOne
  /\ pc = "opened" /\ opening = NoOne /\ ~lost => ptr \cap Devs # {}
  /\ opening # NoOne => Fresh(opening) /\ ~closing

(* The channels of the script. *)
ChannelInv ==
  /\ \A c \in script \cap Chans : env[c] \in Devs \ dying
  /\ ~misused => ~dangled /\ \A c \in script \cap Chans : env[c] \in ptr

(* The context of the open device: it is older, the script or one of its    *)
(* channels does not keep the device without keeping the context, and the   *)
(* context is not collected without the device.                             *)
ContextInv ==
  /\ opening # NoOne => usb_ctx \in script \cap ptr
  /\ ~misused /\ ~lost /\ pc # "closed" => usb_ctx \in ptr
  /\ ~misused => \A d \in ptr \cap Devs :
       /\ Before(born, usb_ctx, d)
       /\ d \in Kept(script) => usb_ctx \in script
       /\ usb_ctx \in dying => d \in dying

BindingInv == OpenInv /\ BindingTypeOK /\ OwnerInv /\ ChannelInv /\ ContextInv
-------------------------------------------------------------------------------
(* What the clean-ups give back. *)

(* The resources are all different. *)
LEMMA Names ==
  /\ <<"list">> # <<"handle">> /\ <<"list">> # <<"interface">> /\ <<"list">> # <<"config">>
  /\ <<"handle">> # <<"interface">> /\ <<"handle">> # <<"config">>
  /\ <<"interface">> # <<"config">>
  /\ {<<"list">>, <<"handle">>, <<"interface">>, <<"config">>}
       \cap {<<"dev">>, <<"channels">>, <<"start_lock">>} = {}
  /\ <<"dev">> # <<"channels">> /\ <<"dev">> # <<"start_lock">>
  /\ <<"channels">> # <<"start_lock">>
  /\ Queues \subseteq Resources
  /\ \A k, q \in Nat : Queue(k) = Queue(q) => k = q
<1>1. \A a, b \in STRING : <<a>> = <<b>> => a = b
  OBVIOUS
<1>2. \A k, q \in Nat : Queue(k) = Queue(q) => k = q
  BY DEF Queue
<1> QED
  BY <1>1, <1>2 DEF Resources

(* The queues are none of the others. *)
LEMMA QueuesApart ==
  Queues \cap {<<"list">>, <<"handle">>, <<"interface">>, <<"config">>, <<"dev">>,
               <<"channels">>, <<"start_lock">>} = {}
<1>1. \A k \in Nat, a \in STRING : <<"queue", k>> # <<a>>
  OBVIOUS
<1>2. 1..MaxChannels \subseteq Nat
  BY OpenAssumption
<1> QED
  BY <1>1, <1>2 DEF Queues, Queue

LEMMA ReturnsSingle ==
  /\ Returns(<<>>, {}) /\ <<>> \in Seq(Resources)
  /\ Returns(<< <<"list">> >>, {<<"list">>}) /\ << <<"list">> >> \in Seq(Resources)
  /\ Returns(<< <<"handle">> >>, {<<"handle">>}) /\ << <<"handle">> >> \in Seq(Resources)
<1>1. ASSUME NEW r \in Resources, \A s \in Resources : ~Within(r, s)
      PROVE  Returns(<<r>>, {r}) /\ <<r>> \in Seq(Resources)
  BY <1>1 DEF Returns
<1>2. /\ <<"list">> \in Resources /\ \A s : ~Within(<<"list">>, s)
      /\ <<"handle">> \in Resources /\ \A s : ~Within(<<"handle">>, s)
  BY Names, QueuesApart DEF Within, Resources
<1>3. Returns(<<>>, {}) /\ <<>> \in Seq(Resources)
  BY DEF Returns
<1> QED
  BY <1>1, <1>2, <1>3

LEMMA Concatenated ==
  ASSUME NEW S, NEW s \in Seq(S), NEW t \in Seq(S), NEW v \in Seq(S),
         Len(v) = Len(s) + Len(t),
         \A q \in 1..Len(s) : v[q] = s[q], \A q \in 1..Len(t) : v[Len(s) + q] = t[q]
  PROVE  s \o t = v
<1> DEFINE u == s \o t
<1>1. /\ u \in Seq(S) /\ Len(u) = Len(s) + Len(t)
      /\ \A q \in 1..(Len(s) + Len(t)) : u[q] = IF q <= Len(s) THEN s[q] ELSE t[q - Len(s)]
  BY ConcatProperties
<1> HIDE DEF u
<1>2. ASSUME NEW q \in 1..Len(u)
      PROVE  u[q] = v[q]
  <2>1. CASE q <= Len(s)
    BY <1>1, <2>1
  <2>2. CASE ~(q <= Len(s))
    <3>1. q - Len(s) \in 1..Len(t) /\ Len(s) + (q - Len(s)) = q
      BY <1>1, <2>2
    <3> QED
      BY <1>1, <2>2, <3>1
  <2> QED
    BY <2>1, <2>2
<1>3. u = v
  BY <1>1, <1>2, SeqEqual
<1> QED
  BY <1>3 DEF u

LEMMA ReturnsUnclaim ==
  /\ Returns(Unclaim, Usb) /\ Unclaim \in Seq(Resources)
  /\ Returns(FreeDev, Usb \cup {<<"dev">>}) /\ FreeDev \in Seq(Resources)
  /\ Returns(<< <<"channels">> >> \o FreeDev, Usb \cup {<<"dev">>, <<"channels">>})
  /\ << <<"channels">> >> \o FreeDev \in Seq(Resources)
  /\ Returns(<< <<"start_lock">>, <<"channels">> >> \o FreeDev,
             Usb \cup {<<"dev">>, <<"channels">>, <<"start_lock">>})
  /\ << <<"start_lock">>, <<"channels">> >> \o FreeDev \in Seq(Resources)
<1> DEFINE h == <<"handle">>
           f == <<"interface">>
           d == <<"dev">>
           c == <<"channels">>
           l == <<"start_lock">>
<1>1. /\ h # f /\ h # d /\ h # c /\ h # l /\ f # d /\ f # c /\ f # l
      /\ d # c /\ d # l /\ c # l
      /\ {h, f, d, c, l} \subseteq Resources
  BY Names DEF Resources
<1>2. /\ \A s : ~Within(h, s) /\ ~Within(d, s)
      /\ \A s : Within(f, s) => s = h
      /\ \A s : Within(c, s) => s = d
      /\ \A s : Within(l, s) => s = d
  BY Names, QueuesApart DEF Within
<1>3. Unclaim = <<f, h>> /\ Usb = {h, f} /\ FreeDev = Unclaim \o <<d>>
  BY DEF Unclaim, FreeDev, Usb
<1> HIDE DEF h, f, d, c, l
<1>4. FreeDev = <<f, h, d>>
  <2>1. <<f, h>> \in Seq(Resources) /\ d \in Resources
    BY <1>1
  <2>2. <<d>> \in Seq(Resources) /\ <<f, h, d>> \in Seq(Resources)
    BY <1>1
  <2>3. <<f, h>> \o <<d>> = <<f, h, d>>
    <3> DEFINE a == <<f, h>>
               w == <<f, h, d>>
    <3>1. Len(a) = 2 /\ Len(<<d>>) = 1 /\ Len(w) = Len(a) + Len(<<d>>)
      OBVIOUS
    <3>2. \A q \in 1..Len(a) : w[q] = a[q]
      OBVIOUS
    <3>3. \A q \in 1..Len(<<d>>) : w[Len(a) + q] = <<d>>[q]
      BY <3>1
    <3>4. a \in Seq(Resources) /\ <<d>> \in Seq(Resources) /\ w \in Seq(Resources)
      BY <2>1, <2>2
    <3> HIDE DEF a, w
    <3>5. a \o <<d>> = w
      BY <3>1, <3>2, <3>3, <3>4, Concatenated, Zenon
    <3> QED
      BY <3>5 DEF a, w
  <2> QED
    BY <1>3, <2>3
<1>5. <<c>> \o FreeDev = <<c, f, h, d>> /\ <<l, c>> \o FreeDev = <<l, c, f, h, d>>
  <2> DEFINE t == <<f, h, d>>
  <2>1. /\ t \in Seq(Resources) /\ <<c>> \in Seq(Resources) /\ <<l, c>> \in Seq(Resources)
        /\ <<c, f, h, d>> \in Seq(Resources) /\ <<l, c, f, h, d>> \in Seq(Resources)
    BY <1>1
  <2>2. Len(t) = 3 /\ t[1] = f /\ t[2] = h /\ t[3] = d
    OBVIOUS
  <2> HIDE DEF t
  <2>3. <<c>> \o t = <<c, f, h, d>>
    <3> DEFINE a == <<c>>
               w == <<c, f, h, d>>
    <3>1. Len(a) = 1 /\ Len(t) = 3 /\ Len(w) = Len(a) + Len(t)
      BY <2>2
    <3>2. \A q \in 1..Len(a) : w[q] = a[q]
      OBVIOUS
    <3>3. \A q \in 1..Len(t) : w[Len(a) + q] = t[q]
      BY <3>1, <2>2
    <3>4. a \in Seq(Resources) /\ t \in Seq(Resources) /\ w \in Seq(Resources)
      BY <2>1
    <3> HIDE DEF a, w
    <3>5. a \o t = w
      BY <3>1, <3>2, <3>3, <3>4, Concatenated, Zenon
    <3> QED
      BY <3>5 DEF a, w
  <2>4. <<l, c>> \o t = <<l, c, f, h, d>>
    <3> DEFINE a == <<l, c>>
               w == <<l, c, f, h, d>>
    <3>1. Len(a) = 2 /\ Len(t) = 3 /\ Len(w) = Len(a) + Len(t)
      BY <2>2
    <3>2. \A q \in 1..Len(a) : w[q] = a[q]
      OBVIOUS
    <3>3. \A q \in 1..Len(t) : w[Len(a) + q] = t[q]
      BY <3>1, <2>2
    <3>4. a \in Seq(Resources) /\ t \in Seq(Resources) /\ w \in Seq(Resources)
      BY <2>1
    <3> HIDE DEF a, w
    <3>5. a \o t = w
      BY <3>1, <3>2, <3>3, <3>4, Concatenated, Zenon
    <3> QED
      BY <3>5 DEF a, w
  <2> QED
    BY <1>4, <2>3, <2>4 DEF t
<1>6. Returns(<<f, h>>, {h, f}) /\ <<f, h>> \in Seq(Resources)
  BY <1>1, <1>2 DEF Returns
<1>7. Returns(<<f, h, d>>, {h, f, d}) /\ <<f, h, d>> \in Seq(Resources)
  BY <1>1, <1>2 DEF Returns
<1>8. Returns(<<c, f, h, d>>, {h, f, d, c}) /\ <<c, f, h, d>> \in Seq(Resources)
  BY <1>1, <1>2 DEF Returns
<1>9. Returns(<<l, c, f, h, d>>, {h, f, d, c, l}) /\ <<l, c, f, h, d>> \in Seq(Resources)
  BY <1>1, <1>2 DEF Returns
<1>10. /\ {h, f, d} = {h, f} \cup {d} /\ {h, f, d, c} = {h, f} \cup {d, c}
       /\ {h, f, d, c, l} = {h, f} \cup {d, c, l}
  OBVIOUS
<1>11. /\ Returns(Unclaim, Usb) /\ Unclaim \in Seq(Resources)
       /\ Returns(FreeDev, Usb \cup {d}) /\ FreeDev \in Seq(Resources)
       /\ Returns(<<c>> \o FreeDev, Usb \cup {d, c}) /\ <<c>> \o FreeDev \in Seq(Resources)
       /\ Returns(<<l, c>> \o FreeDev, Usb \cup {d, c, l})
       /\ <<l, c>> \o FreeDev \in Seq(Resources)
  BY <1>3, <1>4, <1>5, <1>6, <1>7, <1>8, <1>9, <1>10, Zenon
<1> QED
  BY <1>11, Zenon DEF h, f, d, c, l

(* Queues first. *)
LEMMA ReturnsQueues ==
  ASSUME NEW k \in 0..MaxChannels, NEW r \in Seq(Resources), NEW things,
         Returns(r, things), things \cap Queues = {}, <<"channels">> \in things
  PROVE  /\ Returns(QueuesBefore(k + 1) \o r, things \cup QueuesUpTo(k))
         /\ QueuesBefore(k + 1) \o r \in Seq(Resources)
<1> DEFINE b == QueuesBefore(k + 1)
           u == b \o r
           n == Len(r)
<1>0. MaxChannels \in Nat /\ k \in Nat /\ n \in Nat /\ DOMAIN r = 1..n
  BY OpenAssumption
<1>1. /\ b \in Seq(Resources) /\ Len(b) = k
      /\ \A q \in 1..k : b[q] = Queue(q) /\ Queue(q) \in Queues
  <2>1. b = [q \in 1..k |-> Queue(q)]
    BY <1>0 DEF QueuesBefore
  <2>2. \A q \in 1..k : Queue(q) \in Queues
    BY <1>0 DEF Queues
  <2>3. \A q \in 1..k : Queue(q) \in Resources
    BY <2>2, Names
  <2> HIDE DEF b
  <2> QED
    BY <1>0, <2>1, <2>2, <2>3
<1> HIDE DEF b
<1>2. u \in Seq(Resources) /\ Len(u) = k + n
  BY <1>0, <1>1
<1>3. /\ \A q \in 1..k : u[q] = Queue(q)
      /\ \A q \in 1..n : u[k + q] = r[q]
  BY <1>0, <1>1
<1> HIDE DEF u, n
<1>4. DOMAIN u = 1..(k + n)
  BY <1>0, <1>2
<1>5. ASSUME NEW m \in DOMAIN u
      PROVE  \/ m \in 1..k /\ u[m] = Queue(m)
             \/ m - k \in 1..n /\ u[m] = r[m - k]
  <2>1. CASE m \in 1..k
    BY <1>3, <2>1
  <2>2. CASE m \notin 1..k
    <3>1. m - k \in 1..n /\ k + (m - k) = m
      BY <1>0, <1>4, <2>2
    <3> QED
      BY <1>3, <3>1
  <2> QED
    BY <2>1, <2>2
<1>6. \A q \in 1..n : k + q \in DOMAIN u /\ k + q > k
  BY <1>0, <1>4
<1>7. /\ things = {r[q] : q \in 1..n}
      /\ \A q, m \in 1..n : r[q] = r[m] => q = m
      /\ \A q \in 1..n : r[q] \notin Queues
      /\ \A q \in 1..n : \A s \in Resources :
           Within(r[q], s) => \E m \in 1..n : m > q /\ r[m] = s
  BY <1>0 DEF Returns
<1>8. {u[m] : m \in DOMAIN u} = things \cup QueuesUpTo(k)
  <2>1. ASSUME NEW m \in DOMAIN u
        PROVE  u[m] \in things \cup QueuesUpTo(k)
    BY <1>5, <1>7 DEF QueuesUpTo
  <2>2. ASSUME NEW x \in things
        PROVE  \E m \in DOMAIN u : u[m] = x
    BY <1>3, <1>6, <1>7
  <2>3. ASSUME NEW q \in 1..k
        PROVE  q \in DOMAIN u /\ u[q] = Queue(q)
    BY <1>0, <1>3, <1>4
  <2> QED
    BY <2>1, <2>2, <2>3 DEF QueuesUpTo
<1>9. ASSUME NEW m \in DOMAIN u, NEW q \in DOMAIN u, u[m] = u[q]
      PROVE  m = q
  <2>1. CASE m \in 1..k /\ u[m] = Queue(m) /\ q \in 1..k /\ u[q] = Queue(q)
    <3>1. m \in Nat /\ q \in Nat
      BY <1>0, <2>1
    <3>2. Queue(m) = Queue(q)
      BY <1>9, <2>1, Zenon
    <3> QED
      BY <3>1, <3>2, Names, Zenon
  <2>2. CASE m - k \in 1..n /\ u[m] = r[m - k] /\ q - k \in 1..n /\ u[q] = r[q - k]
    <3>1. m - k = q - k
      BY <1>7, <1>9, <2>2
    <3> QED
      BY <1>0, <1>4, <3>1
  <2> QED
    BY <1>1, <1>5, <1>7, <1>9, <2>1, <2>2
<1>10. ASSUME NEW m \in DOMAIN u, NEW s \in Resources, Within(u[m], s)
       PROVE  \E q \in DOMAIN u : q > m /\ u[q] = s
  <2>1. CASE m \in 1..k /\ u[m] = Queue(m)
    <3>1. s = <<"channels">>
      BY <1>1, <1>10, <2>1, QueuesApart DEF Within
    <3>2. PICK q \in 1..n : r[q] = s
      BY <1>7, <3>1
    <3>3. k + q > m
      BY <1>0, <2>1
    <3> QED
      BY <1>3, <1>6, <3>2, <3>3
  <2>2. CASE m - k \in 1..n /\ u[m] = r[m - k]
    <3>1. PICK q \in 1..n : q > m - k /\ r[q] = s
      BY <1>7, <1>10, <2>2
    <3>2. k + q > m
      BY <1>0, <1>4, <3>1
    <3> QED
      BY <1>3, <1>6, <3>1, <3>2
  <2> QED
    BY <1>5, <2>1, <2>2
<1> QED
  BY <1>2, <1>8, <1>9, <1>10 DEF Returns, u, b
-------------------------------------------------------------------------------
(* Every step of gsusb_open() and gsusb_close() preserves the invariant. *)

(* One clean-up step. *)
LEMMA ReturnsTail ==
  ASSUME NEW s \in Seq(Resources), NEW things, Returns(s, things), s # <<>>
  PROVE  Tail(s) \in Seq(Resources) /\ Returns(Tail(s), things \ {Head(s)})
<1> DEFINE t == Tail(s)
           n == Len(s)
<1>1. /\ n \in Nat /\ n > 0 /\ DOMAIN s = 1..n /\ Head(s) = s[1]
      /\ t \in Seq(Resources) /\ DOMAIN t = 1..(n - 1)
      /\ \A m \in 1..(n - 1) : t[m] = s[m + 1]
  OBVIOUS
<1>2. /\ things = {s[m] : m \in 1..n}
      /\ \A m, q \in 1..n : s[m] = s[q] => m = q
      /\ \A m \in 1..n : \A r \in Resources :
           Within(s[m], r) => \E q \in 1..n : q > m /\ s[q] = r
  BY <1>1 DEF Returns
<1> HIDE DEF t, n
<1>3. \A m \in 1..(n - 1) : m + 1 \in 1..n /\ m + 1 # 1
  BY <1>1
<1>4. ASSUME NEW q \in 1..n, q # 1
      PROVE  q - 1 \in 1..(n - 1) /\ t[q - 1] = s[q]
  <2>1. q - 1 \in 1..(n - 1) /\ q - 1 + 1 = q
    BY <1>1, <1>4
  <2> QED
    BY <1>1, <2>1
<1>5. things \ {Head(s)} = {t[m] : m \in DOMAIN t}
  <2>1. ASSUME NEW x \in things \ {Head(s)}
        PROVE  \E m \in DOMAIN t : t[m] = x
    <3>1. PICK q \in 1..n : s[q] = x
      BY <1>2
    <3>2. q # 1
      BY <1>1, <2>1, <3>1
    <3> QED
      BY <1>1, <1>4, <3>1, <3>2
  <2>2. ASSUME NEW m \in DOMAIN t
        PROVE  t[m] \in things \ {Head(s)}
    BY <1>1, <1>2, <1>3
  <2> QED
    BY <2>1, <2>2
<1>6. ASSUME NEW m \in DOMAIN t, NEW q \in DOMAIN t, t[m] = t[q]
      PROVE  m = q
  <2>1. m + 1 = q + 1
    BY <1>1, <1>2, <1>3, <1>6
  <2> QED
    BY <1>1, <2>1
<1>7. ASSUME NEW m \in DOMAIN t, NEW r \in Resources, Within(t[m], r)
      PROVE  \E q \in DOMAIN t : q > m /\ t[q] = r
  <2>1. PICK q \in 1..n : q > m + 1 /\ s[q] = r
    BY <1>1, <1>2, <1>3, <1>7
  <2>2. q # 1 /\ q - 1 > m
    BY <1>1, <2>1
  <2> QED
    BY <1>1, <1>4, <2>1, <2>2
<1> QED
  BY <1>1, <1>5, <1>6, <1>7 DEF Returns, t

LEMMA OpenStep ==
  ASSUME OpenInv, [Next]_vars
  PROVE  OpenInv'
<1> USE DEF locals
<1>0. MaxChannels \in Nat
  BY OpenAssumption
<1> DEFINE quiet == cleanup = <<>> /\ held = Acquired(pc)
<1>1. pc \in Calls => quiet
  BY DEF OpenInv, Calls
<1>2. ASSUME NEW at \in Calls, NEW order \in Seq(Resources), GiveBack(at, order),
             Returns(order, Acquired(at)), UNCHANGED channel_count
      PROVE  OpenInv'
  <2>1. pc \in Calls /\ held = Acquired(at)
    BY <1>1, <1>2 DEF GiveBack
  <2> QED
    BY <1>2, <2>1 DEF GiveBack, OpenInv
<1>3. CASE GetDeviceList \/ FindMatch \/ OpenHandle \/ FreeDeviceList \/ ClaimInterface
  <2>1. ASSUME NEW at \in {"closed", "match", "open", "claim"}, NEW order, GiveBack(at, order),
               order = CASE at = "closed" -> <<>>
                         [] at \in {"match", "open"} -> << <<"list">> >>
                         [] at = "claim" -> << <<"handle">> >>,
               UNCHANGED locals
        PROVE  OpenInv'
    <3>1. order \in Seq(Resources) /\ Returns(order, Acquired(at))
      BY <2>1, ReturnsSingle DEF Acquired
    <3> QED
      BY <1>2, <2>1, <3>1 DEF Calls
  <2>2. ASSUME pc \in Calls, pc' \in {"match", "open", "free_list", "claim", "config"},
               UNCHANGED <<cleanup, locals>>, held' = Acquired(pc)'
        PROVE  OpenInv'
    BY <1>1, <2>2 DEF OpenInv, Calls
  <2>3. {<<"list">>, <<"handle">>} \ {<<"list">>} = {<<"handle">>}
    BY Names
  <2>4. CASE GetDeviceList
    <3>1. CASE Succeed("closed", "match", {<<"list">>})
      BY <1>1, <2>2, <2>4, <3>1 DEF GetDeviceList, Succeed, Acquired, Calls
    <3> QED
      BY <2>1, <2>4, <3>1 DEF GetDeviceList
  <2>5. CASE FindMatch
    <3>1. CASE Succeed("match", "open", {})
      BY <1>1, <2>2, <2>5, <3>1 DEF FindMatch, Succeed, Acquired, Calls
    <3> QED
      BY <2>1, <2>5, <3>1 DEF FindMatch
  <2>6. CASE OpenHandle
    <3>1. CASE Succeed("open", "free_list", {<<"handle">>})
      BY <1>1, <2>2, <2>6, <3>1 DEF OpenHandle, Succeed, Acquired, Calls
    <3> QED
      BY <2>1, <2>6, <3>1 DEF OpenHandle
  <2>7. CASE FreeDeviceList
    BY <1>1, <2>2, <2>3, <2>7 DEF FreeDeviceList, Acquired, Calls
  <2>8. CASE ClaimInterface
    <3>1. CASE Succeed("claim", "config", {<<"interface">>})
      BY <1>1, <2>2, <2>8, <3>1 DEF ClaimInterface, Succeed, Acquired, Calls, Usb
    <3> QED
      BY <2>1, <2>8, <3>1 DEF ClaimInterface
  <2> QED
    BY <1>3, <2>4, <2>5, <2>6, <2>7, <2>8
<1>4. CASE GetConfig
  <2>1. CASE Succeed("config", "endpoints", {<<"config">>})
    BY <1>1, <1>4, <2>1 DEF GetConfig, Succeed, Acquired, Calls, OpenInv
  <2>2. CASE GiveBack("config", Unclaim)
    <3>1. Acquired("config") = Usb
      BY DEF Acquired
    <3> QED
      BY <1>2, <1>4, <2>2, <3>1, ReturnsUnclaim DEF GetConfig, Calls
  <2> QED
    BY <1>4, <2>1, <2>2 DEF GetConfig
<1>5. CASE FindEndpoints
  <2>1. (Usb \cup {<<"config">>}) \ {<<"config">>} = Usb
    BY Names DEF Usb
  <2>2. held' = Usb /\ UNCHANGED locals /\ cleanup = <<>>
    BY <1>1, <1>5, <2>1 DEF FindEndpoints, Acquired, Calls
  <2> QED
    BY <1>5, <2>2, ReturnsUnclaim DEF FindEndpoints, Acquired, Calls, OpenInv
<1>6. CASE AllocDev
  <2>1. CASE Succeed("alloc_dev", "host_format", {<<"dev">>})
    BY <1>1, <1>6, <2>1 DEF AllocDev, Succeed, Acquired, Calls, OpenInv
  <2>2. CASE GiveBack("alloc_dev", Unclaim)
    <3>1. Acquired("alloc_dev") = Usb
      BY DEF Acquired
    <3> QED
      BY <1>2, <1>6, <2>2, <3>1, ReturnsUnclaim DEF AllocDev, Calls
  <2> QED
    BY <1>6, <2>1, <2>2 DEF AllocDev
<1>7. CASE HostFormat \/ DeviceConfig
  <2>1. ASSUME NEW at \in {"host_format", "device_config"}, GiveBack(at, FreeDev),
               UNCHANGED channel_count
        PROVE  OpenInv'
    <3>1. Acquired(at) = Usb \cup {<<"dev">>}
      BY DEF Acquired
    <3> QED
      BY <1>2, <2>1, <3>1, ReturnsUnclaim DEF Calls
  <2>2. CASE HostFormat /\ Succeed("host_format", "device_config", {})
    BY <1>1, <2>2 DEF HostFormat, Succeed, Acquired, Calls, OpenInv
  <2>3. CASE DeviceConfig /\ Succeed("device_config", "alloc_channels", {})
    <3>1. channel_count' \in 0..MaxChannels
      BY <2>3 DEF DeviceConfig, Succeed, GiveBack
    <3> QED
      BY <1>1, <2>3, <3>1 DEF Succeed, Acquired, Calls, OpenInv
  <2> QED
    BY <1>7, <2>1, <2>2, <2>3 DEF HostFormat, DeviceConfig
<1>8. CASE AllocChannels
  <2>1. CASE Succeed("alloc_channels", Continue(1), {<<"channels">>}) /\ i' = 1
    <3>1. QueuesUpTo(0) = {}
      BY DEF QueuesUpTo
    <3>2. /\ held = Usb \cup {<<"dev">>} /\ cleanup' = <<>>
          /\ held' = Usb \cup {<<"dev">>, <<"channels">>}
      BY <1>1, <2>1 DEF Succeed, Acquired, Calls
    <3>3. channel_count' = channel_count /\ channel_count \in 0..MaxChannels
      BY <1>8 DEF AllocChannels, OpenInv
    <3>4. CASE 1 <= channel_count
      BY <1>0, <2>1, <3>1, <3>2, <3>3, <3>4
         DEF Succeed, Continue, Acquired, Calls, OpenInv
    <3>5. CASE ~(1 <= channel_count)
      <4>1. channel_count = 0
        BY <1>0, <3>3, <3>5
      <4> QED
        BY <2>1, <3>1, <3>2, <3>3, <3>5, <4>1
           DEF Succeed, Continue, Acquired, Calls, OpenInv
    <3> QED
      BY <3>4, <3>5
  <2>2. CASE GiveBack("alloc_channels", FreeDev)
    <3>1. Acquired("alloc_channels") = Usb \cup {<<"dev">>}
      BY DEF Acquired
    <3> QED
      BY <1>2, <1>8, <2>2, <3>1, ReturnsUnclaim DEF AllocChannels, Calls
  <2> QED
    BY <1>8, <2>1, <2>2 DEF AllocChannels
<1>9. CASE BtConst \/ BtConstExt \/ rxq_init
  <2> DEFINE at == {"bt_const", "bt_const_ext", "rxq_init"}
  <2>1. /\ pc \in at /\ UNCHANGED channel_count /\ cleanup = <<>>
        /\ held = Usb \cup {<<"dev">>, <<"channels">>} \cup QueuesUpTo(i - 1)
        /\ i \in 1..channel_count /\ channel_count \in 0..MaxChannels
    BY <1>1, <1>9 DEF BtConst, BtConstExt, rxq_init, Succeed, GiveBack, Acquired, Calls, OpenInv
  <2>2. i \in Nat /\ i - 1 \in 0..MaxChannels /\ i - 1 + 1 = i
    BY <1>0, <2>1
  <2>3. CASE GiveBack(pc, FreeChannels)
    <3> DEFINE r == << <<"channels">> >> \o FreeDev
               things == Usb \cup {<<"dev">>, <<"channels">>}
    <3>1. r \in Seq(Resources) /\ Returns(r, things)
      BY ReturnsUnclaim
    <3>2. things \cap Queues = {} /\ <<"channels">> \in things
      BY QueuesApart DEF Usb
    <3>3. FreeChannels = QueuesBefore(i) \o r
      <4>1. /\ QueuesBefore(i) \in Seq(Resources) /\ << <<"channels">> >> \in Seq(Resources)
            /\ FreeDev \in Seq(Resources)
        <5>1. \A q \in 1..(i - 1) : Queue(q) \in Resources
          BY <1>0, <2>2, Names DEF Queues
        <5>2. <<"channels">> \in Resources
          BY DEF Resources
        <5> QED
          BY <2>2, <5>1, <5>2, ReturnsUnclaim DEF QueuesBefore
      <4> QED
        BY <4>1, ConcatAssociative DEF FreeChannels
    <3> HIDE DEF r, things
    <3>4. /\ Returns(FreeChannels, things \cup QueuesUpTo(i - 1))
          /\ FreeChannels \in Seq(Resources)
      BY <2>2, <3>1, <3>2, <3>3, ReturnsQueues
    <3>5. held' = things \cup QueuesUpTo(i - 1)
      BY <2>1, <2>3 DEF GiveBack, things
    <3> QED
      BY <2>1, <2>3, <3>4, <3>5 DEF GiveBack, OpenInv
  <2>4. CASE /\ pc' \in at /\ UNCHANGED <<held, cleanup, i>>
    BY <2>1, <2>4 DEF OpenInv, Acquired, Calls
  <2>5. CASE Succeed("rxq_init", Continue(i + 1), {Queue(i)}) /\ i' = i + 1
    <3>1. held' = Usb \cup {<<"dev">>, <<"channels">>} \cup QueuesUpTo(i)
      <4>1. QueuesUpTo(i - 1) \cup {Queue(i)} = QueuesUpTo(i)
        <5>1. 1..i = 1..(i - 1) \cup {i}
          BY <2>1, <2>2
        <5> QED
          BY <5>1 DEF QueuesUpTo
      <4> QED
        BY <2>1, <2>5, <4>1 DEF Succeed
    <3>2. cleanup' = <<>> /\ i' - 1 = i /\ i + 1 = i'
      BY <2>1, <2>2, <2>5 DEF Succeed
    <3>3. CASE i + 1 <= channel_count
      <4>1. i' \in 1..channel_count'
        BY <1>0, <2>1, <3>2, <3>3
      <4> QED
        BY <2>1, <2>5, <3>1, <3>2, <3>3, <4>1
           DEF Succeed, Continue, Acquired, Calls, OpenInv
    <3>4. CASE ~(i + 1 <= channel_count)
      <4>1. channel_count' = i
        BY <1>0, <2>1, <3>4
      <4> QED
        BY <2>1, <2>5, <3>1, <3>2, <3>4, <4>1
           DEF Succeed, Continue, Acquired, Calls, OpenInv
    <3> QED
      BY <3>3, <3>4
  <2> QED
    BY <1>9, <2>3, <2>4, <2>5 DEF BtConst, BtConstExt, rxq_init, Succeed, GiveBack
<1>10. CASE InitLock
  BY <1>1, <1>10 DEF InitLock, Succeed, Acquired, Calls, OpenInv
<1>11. CASE Close
  <2> DEFINE r == << <<"start_lock">>, <<"channels">> >> \o FreeDev
             things == Usb \cup {<<"dev">>, <<"channels">>, <<"start_lock">>}
             k == channel_count
  <2>1. r \in Seq(Resources) /\ Returns(r, things)
    BY ReturnsUnclaim
  <2>2. things \cap Queues = {} /\ <<"channels">> \in things
    BY QueuesApart DEF Usb
  <2>3. k \in 0..MaxChannels
    BY DEF OpenInv
  <2>4. QueuesBefore(k + 1) \o << <<"start_lock">>, <<"channels">> >> \o FreeDev
          = QueuesBefore(k + 1) \o r
    <3>1. /\ QueuesBefore(k + 1) \in Seq(Resources) /\ FreeDev \in Seq(Resources)
          /\ << <<"start_lock">>, <<"channels">> >> \in Seq(Resources)
      <4>1. \A q \in 1..k : Queue(q) \in Resources
        BY <1>0, <2>3, Names DEF Queues
      <4>2. <<"channels">> \in Resources /\ <<"start_lock">> \in Resources
        BY DEF Resources
      <4>3. 1..(k + 1 - 1) = 1..k /\ k \in Nat
        BY <1>0, <2>3
      <4> QED
        BY <4>1, <4>2, <4>3, ReturnsUnclaim DEF QueuesBefore
    <3> QED
      BY <3>1, ConcatAssociative
  <2> DEFINE order == QueuesBefore(k + 1) \o r
  <2>5. GiveBack("opened", order) /\ UNCHANGED locals
    BY <1>11, <2>4 DEF Close
  <2> HIDE DEF r, things
  <2>6. Returns(order, things \cup QueuesUpTo(k)) /\ order \in Seq(Resources)
    BY <2>1, <2>2, <2>3, ReturnsQueues
  <2>7. Acquired("opened") = things \cup QueuesUpTo(k)
    BY DEF Acquired, things
  <2> HIDE DEF order
  <2> QED
    BY <1>2, <2>5, <2>6, <2>7 DEF Calls
<1>12. CASE Release
  <2>1. pc = "releasing" /\ Returns(cleanup, held) /\ cleanup \in Seq(Resources)
    BY <1>12 DEF Release, OpenInv, Calls
  <2>2. Tail(cleanup) \in Seq(Resources) /\ Returns(Tail(cleanup), held \ {Head(cleanup)})
    BY <1>12, <2>1, ReturnsTail DEF Release
  <2> QED
    BY <1>12, <2>1, <2>2 DEF Release, OpenInv
<1>13. CASE Return
  <2>1. Returns(<<>>, held)
    BY <1>13 DEF Return, OpenInv, Calls
  <2>2. held = {}
    BY <2>1 DEF Returns
  <2> QED
    BY <1>13, <2>2 DEF Return, OpenInv, Acquired, Calls
<1>14. CASE UNCHANGED vars
  BY <1>14 DEF vars, OpenInv, Acquired, Usb, QueuesUpTo, Queue
<1> QED
  BY <1>3, <1>4, <1>5, <1>6, <1>7, <1>8, <1>9, <1>10, <1>11, <1>12, <1>13, <1>14
     DEF Next, CallGoesOn
-------------------------------------------------------------------------------
(* gsusb_open() and gsusb_close(), whoever calls them. *)

LEMMA OpenInvariant == Spec => []OpenInv
<1>1. ASSUME Init
      PROVE  OpenInv
  <2>1. 0 \in 0..MaxChannels
    BY OpenAssumption
  <2> QED
    BY <1>1, <2>1, ReturnsSingle DEF Init, OpenInv, Calls, Acquired
<1>2. ASSUME OpenInv, [Next]_vars
      PROVE  OpenInv'
  BY <1>2, OpenStep
<1> QED
  BY <1>1, <1>2, PTL DEF Spec

(* A gsusb_open() that fails, at whatever call, and a gsusb_close() leave   *)
(* nothing behind, for any number of channels.                              *)
THEOREM NothingIsLeaked == Spec => []NothingLeaks
<1>1. ASSUME OpenInv
      PROVE  NothingLeaks
  BY <1>1 DEF OpenInv, NothingLeaks, Acquired, Calls, Usb, QueuesUpTo
<1> QED
  BY <1>1, OpenInvariant, PTL

(* The clean-up never frees what something still held lives in. *)
THEOREM CleanUpIsSafe == Spec => []ReleasedSafely
<1>1. ASSUME OpenInv
      PROVE  ReleasedSafely
  <2>0. /\ {<<"handle">>, <<"interface">>, <<"channels">>, <<"start_lock">>, <<"dev">>}
             \subseteq Resources
        /\ Queues \subseteq Resources
    BY Names DEF Resources
  <2>1. CASE pc = "releasing" /\ Returns(cleanup, held)
    <3>1. \A k \in DOMAIN cleanup : cleanup[k] \in held
      BY <2>1 DEF Returns
    <3>2. ASSUME NEW r \in held, NEW s \in Resources, Within(r, s)
          PROVE  s \in held
      BY <2>1, <3>2 DEF Returns
    <3>3. <<"interface">> \in held => <<"handle">> \in held
      BY <2>0, <3>2 DEF Within
    <3>4. held \cap Queues # {} => <<"channels">> \in held
      BY <2>0, <3>2 DEF Within
    <3>5. held \cap {<<"channels">>, <<"start_lock">>} # {} => <<"dev">> \in held
      BY <2>0, <3>2 DEF Within
    <3> QED
      BY <2>1, <3>1, <3>3, <3>4, <3>5 DEF Returns, ReleasedSafely
  <2>2. CASE pc \in Calls /\ cleanup = <<>> /\ held = Acquired(pc)
    <3>1. DOMAIN cleanup = {}
      BY <2>2
    <3>2. \/ held \subseteq {<<"list">>, <<"handle">>}
          \/ held \in {Usb, Usb \cup {<<"config">>}}
          \/ Usb \subseteq held /\ <<"dev">> \in held /\ held \cap Queues = {}
          \/ Usb \subseteq held /\ <<"dev">> \in held /\ <<"channels">> \in held
      BY <2>2, QueuesApart DEF Acquired, Calls, Usb
    <3> QED
      BY <3>1, <3>2, Names, QueuesApart DEF ReleasedSafely, Usb
  <2> QED
    BY <1>1, <2>1, <2>2 DEF OpenInv
<1> QED
  BY <1>1, OpenInvariant, PTL

-------------------------------------------------------------------------------
(* The binding takes the steps of the library, and no others: what holds of *)
(* gsusb_open() and gsusb_close() holds of them when they are called from   *)
(* Lua, by a script or by the collector.                                    *)
LEMMA LibraryStep == ASSUME BindingNext PROVE [Next]_vars
<1>1. ASSUME NEW d, l_dev_close(d)
      PROVE  [Next]_vars
  BY <1>1 DEF l_dev_close, Next
<1>2. ASSUME NEW x, l_ctx_exit(x)
      PROVE  [Next]_vars
  BY <1>2 DEF l_ctx_exit
<1>3. CASE Finalize
  BY <1>1, <1>2, <1>3 DEF Finalize
<1>4. ASSUME NEW x, ScriptExits(x) \/ ScriptCloses(x)
      PROVE  [Next]_vars
  BY <1>1, <1>2, <1>4 DEF ScriptExits, ScriptCloses
<1>5. ASSUME NEW x, NEW d, l_ctx_open(x, d)
      PROVE  [Next]_vars
  BY <1>5 DEF l_ctx_open, Next
<1>6. CASE LibraryGoesOn
  BY <1>6 DEF LibraryGoesOn, Next
<1> QED
  BY <1>3, <1>4, <1>5, <1>6
     DEF BindingNext, l_gsusb_init, l_dev_channel, l_ch_call, OpenReturns, ScriptDrops, Collect,
         LuaClose

THEOREM BindingUsesLibrary == BindingSpec => Spec
<1>1. BindingInit => Init
  BY DEF BindingInit
<1>2. [BindingNext]_<<vars, lua>> => [Next]_vars
  BY LibraryStep
<1> QED
  BY <1>1, <1>2, PTL DEF BindingSpec, Spec

-------------------------------------------------------------------------------
(* Sequences of userdata. *)

LEMMA Appended ==
  ASSUME NEW S, NEW s \in Seq(S), NEW o \in S, Distinct(s), o \notin ToSet(s)
  PROVE  /\ Append(s, o) \in Seq(S)
         /\ ToSet(Append(s, o)) = ToSet(s) \cup {o}
         /\ Distinct(Append(s, o))
         /\ \A a, b : Before(s, a, b) => Before(Append(s, o), a, b)
         /\ \A a \in ToSet(s) : Before(Append(s, o), a, o)
<1> DEFINE t == Append(s, o)
           k == Len(s)
<1>1. /\ k \in Nat /\ DOMAIN s = 1..k /\ DOMAIN t = 1..(k + 1)
      /\ t[k + 1] = o /\ \A n \in 1..k : t[n] = s[n]
      /\ t \in Seq(S)
  OBVIOUS
<1> HIDE DEF t, k
<1>2. /\ \A n \in 1..(k + 1) : n \in 1..k \/ n = k + 1
      /\ \A n \in 1..k : n \in 1..(k + 1) /\ n < k + 1
      /\ k + 1 \in 1..(k + 1)
  BY <1>1
<1>3. \A n \in 1..k : s[n] # o
  BY <1>1 DEF ToSet
<1>4. ToSet(t) = ToSet(s) \cup {o}
  BY <1>1, <1>2 DEF ToSet
<1>5. Distinct(t)
  BY <1>1, <1>2, <1>3 DEF Distinct
<1>6. \A a, b : Before(s, a, b) => Before(t, a, b)
  BY <1>1, <1>2 DEF Before
<1>7. \A a \in ToSet(s) : Before(t, a, o)
  BY <1>1, <1>2 DEF Before, ToSet
<1> QED
  BY <1>1, <1>4, <1>5, <1>6, <1>7 DEF t

LEMMA Removed ==
  ASSUME NEW S, NEW s \in Seq(S), NEW k \in DOMAIN s, Distinct(s)
  PROVE  /\ RemoveAt(s, k) \in Seq(S)
         /\ ToSet(RemoveAt(s, k)) = ToSet(s) \ {s[k]}
         /\ Distinct(RemoveAt(s, k))
         /\ \A a, b : Before(s, a, b) /\ s[k] \notin {a, b} => Before(RemoveAt(s, k), a, b)
<1> DEFINE u == SubSeq(s, 1, k - 1)
           v == SubSeq(s, k + 1, Len(s))
           t == RemoveAt(s, k)
           z == Len(s)
<1>1. z \in Nat /\ DOMAIN s = 1..z /\ k \in 1..z
  OBVIOUS
<1>2. u \in Seq(S) /\ Len(u) = k - 1 /\ \A n \in 1..(k - 1) : u[n] = s[n]
  BY <1>1, SubSeqProperties
<1>3. v \in Seq(S) /\ Len(v) = z - k /\ \A n \in 1..(z - k) : v[n] = s[n + k]
  BY <1>1, SubSeqProperties
<1>4. t = u \o v
  BY DEF RemoveAt
<1> HIDE DEF u, v, t, z
<1>5. /\ t \in Seq(S) /\ Len(t) = Len(u) + Len(v)
      /\ \A n \in 1..(Len(u) + Len(v)) : t[n] = IF n <= Len(u) THEN u[n] ELSE v[n - Len(u)]
  BY <1>2, <1>3, <1>4, ConcatProperties
<1> DEFINE from(n) == IF n < k THEN n ELSE n + 1
           to(n) == IF n < k THEN n ELSE n - 1
<1>6. /\ t \in Seq(S) /\ DOMAIN t = 1..(z - 1)
      /\ \A n \in 1..(z - 1) : t[n] = IF n < k THEN s[n] ELSE s[n + 1]
  <2>1. Len(u) + Len(v) = z - 1 /\ k \in Nat
    BY <1>1, <1>2, <1>3
  <2>2. t \in Seq(S) /\ DOMAIN t = 1..(z - 1)
    BY <1>5, <2>1
  <2>3. ASSUME NEW n \in 1..(z - 1), n < k
        PROVE  t[n] = s[n]
    <3>1. n \in 1..(k - 1) /\ n <= Len(u)
      BY <1>1, <1>2, <2>3
    <3> QED
      BY <1>2, <1>5, <2>1, <3>1
  <2>4. ASSUME NEW n \in 1..(z - 1), ~(n < k)
        PROVE  t[n] = s[n + 1]
    <3>1. n - Len(u) \in 1..(z - k) /\ n - Len(u) + k = n + 1 /\ ~(n <= Len(u))
      BY <1>1, <1>2, <2>4
    <3> QED
      BY <1>3, <1>5, <2>1, <3>1
  <2> QED
    BY <2>2, <2>3, <2>4
<1>7. \A n \in DOMAIN t : from(n) \in DOMAIN s /\ from(n) # k /\ t[n] = s[from(n)]
  BY <1>1, <1>6
<1>8. \A n, m \in DOMAIN t : from(n) = from(m) => n = m
  BY <1>1, <1>6
<1>9. \A n \in DOMAIN s \ {k} : to(n) \in DOMAIN t /\ t[to(n)] = s[n]
  BY <1>1, <1>6
<1>10. \A n, m \in DOMAIN s \ {k} : n < m => to(n) < to(m)
  BY <1>1
<1> HIDE DEF from, to
<1>11. ToSet(t) = ToSet(s) \ {s[k]}
  <2>1. ASSUME NEW n \in DOMAIN t
        PROVE  t[n] \in ToSet(s) \ {s[k]}
    BY <1>7 DEF ToSet, Distinct
  <2>2. ASSUME NEW n \in DOMAIN s, s[n] # s[k]
        PROVE  s[n] \in ToSet(t)
    BY <1>9, <2>2 DEF ToSet
  <2> QED
    BY <2>1, <2>2 DEF ToSet
<1>12. Distinct(t)
  BY <1>7, <1>8 DEF Distinct
<1>13. ASSUME NEW a, NEW b, Before(s, a, b), s[k] \notin {a, b}
       PROVE  Before(t, a, b)
  <2>1. PICK n, m \in DOMAIN s : s[n] = a /\ s[m] = b /\ n < m
    BY <1>13 DEF Before
  <2>2. n \in DOMAIN s \ {k} /\ m \in DOMAIN s \ {k}
    BY <1>13, <2>1
  <2> QED
    BY <1>9, <1>10, <2>1, <2>2 DEF Before
<1> QED
  BY <1>6, <1>11, <1>12, <1>13 DEF t
-------------------------------------------------------------------------------
(* Every step of the binding preserves its invariant. *)

(* What the steps of the library do to pc. *)
LEMMA LibraryCalls ==
  /\ GetDeviceList => pc = "closed" /\ pc' \in {"match", "releasing"}
  /\ Close => pc = "opened" /\ pc' = "releasing"
  /\ CallGoesOn => /\ pc \notin {"closed", "opened"}
                   /\ pc = "releasing" => pc' \in {"releasing", "closed"}
  /\ UNCHANGED vars => pc' = pc
<1>1. GetDeviceList => pc = "closed" /\ pc' \in {"match", "releasing"}
  BY DEF GetDeviceList, Succeed, GiveBack
<1>2. Close => pc = "opened" /\ pc' = "releasing"
  BY DEF Close, GiveBack
<1>3. CallGoesOn => /\ pc \notin {"closed", "opened"}
                    /\ pc = "releasing" => pc' \in {"releasing", "closed"}
  BY DEF CallGoesOn, Succeed, GiveBack, FindMatch, OpenHandle, FreeDeviceList, ClaimInterface,
         GetConfig, FindEndpoints, AllocDev, HostFormat, DeviceConfig, AllocChannels, BtConst,
         BtConstExt, rxq_init, InitLock, Release, Return
<1> QED
  BY <1>1, <1>2, <1>3 DEF vars

LEMMA BindingTypeStep ==
  ASSUME BindingTypeOK, OwnerInv, BindingNext
  PROVE  BindingTypeOK'
<1> USE DEF lua, history
<1>0. /\ Ctxs \cap Devs = {} /\ Ctxs \cap Chans = {} /\ Devs \cap Chans = {}
      /\ NoOne \notin Ctxs \cup Devs \cup Chans
  BY LuaBindingAssumption
<1>1. ASSUME NEW o \in Ctxs \cup Devs, Fresh(o), NewUserdata(o), ~closing,
             UNCHANGED <<env, dying, usb_ctx, closing, misused, dangled>>,
             opening' \in Devs \cup {NoOne}, lost' \in BOOLEAN
      PROVE  BindingTypeOK'
  <2>1. born \in Seq(Ctxs \cup Devs) /\ Distinct(born) /\ o \notin ToSet(born)
    BY <1>1 DEF BindingTypeOK, Fresh
  <2>2. /\ born' \in Seq(Ctxs \cup Devs) /\ Distinct(born')
        /\ ToSet(born') = ToSet(born) \cup {o}
    BY <1>1, <2>1, Appended DEF NewUserdata
  <2>3. ptr' = ptr \cup {o} /\ script' = script \cup {o}
    BY <1>1 DEF NewUserdata
  <2> QED
    BY <1>1, <2>1, <2>2, <2>3 DEF BindingTypeOK
<1>2. ASSUME NEW x \in Ctxs, l_gsusb_init(x)
      PROVE  BindingTypeOK'
  BY <1>1, <1>2 DEF l_gsusb_init, Running, BindingTypeOK
<1>3. ASSUME NEW x \in Ctxs \cup Devs, ScriptExits(x) \/ ScriptCloses(x)
      PROVE  BindingTypeOK'
  <2>1. misused' \in BOOLEAN
    BY <1>3 DEF ScriptExits, ScriptCloses, BindingTypeOK
  <2> QED
    BY <1>3, <2>1 DEF ScriptExits, ScriptCloses, l_ctx_exit, l_dev_close, BindingTypeOK
<1>4. ASSUME NEW x \in Ctxs, NEW d \in Devs, l_ctx_open(x, d)
      PROVE  BindingTypeOK'
  BY <1>4 DEF l_ctx_open, BindingTypeOK
<1>5. CASE OpenReturns
  <2>1. opening \in Devs /\ Fresh(opening) /\ ~closing /\ opening' = NoOne
    BY <1>5 DEF OpenReturns, OwnerInv, BindingTypeOK
  <2>2. CASE NewUserdata(opening) /\ UNCHANGED lost
    BY <1>1, <1>5, <2>1, <2>2 DEF OpenReturns, BindingTypeOK
  <2>3. CASE UNCHANGED <<born, ptr, script>> /\ lost' \in {TRUE, lost}
    BY <1>5, <2>1, <2>3 DEF OpenReturns, BindingTypeOK
  <2> QED
    BY <1>5, <2>2, <2>3 DEF OpenReturns
<1>6. ASSUME NEW d \in Devs, NEW c \in Chans, l_dev_channel(d, c)
      PROVE  BindingTypeOK'
  <2>1. c \notin ToSet(born)
    <3>1. \A n \in DOMAIN born : born[n] \in Ctxs \cup Devs
      BY DEF BindingTypeOK
    <3> QED
      BY <1>0, <3>1 DEF ToSet
  <2> QED
    BY <1>6, <2>1 DEF l_dev_channel, Running, BindingTypeOK
<1>7. ASSUME NEW c \in Chans, l_ch_call(c)
      PROVE  BindingTypeOK'
  <2>1. dangled' \in BOOLEAN
    BY <1>7 DEF l_ch_call, BindingTypeOK
  <2> QED
    BY <1>7, <2>1 DEF l_ch_call, BindingTypeOK
<1>8. ASSUME NEW refs, ScriptDrops(refs)
      PROVE  BindingTypeOK'
  <2>1. misused' \in BOOLEAN
    BY <1>8 DEF ScriptDrops, BindingTypeOK
  <2> QED
    BY <1>8, <2>1 DEF ScriptDrops, BindingTypeOK
<1>9. CASE Collect
  <2> DEFINE dead == (ToSet(born) \cup Chans) \ Kept(script)
  <2>1. /\ dying' = dead \cap HasGc
        /\ env' = [c \in Chans |-> IF c \in dead THEN NoOne ELSE env[c]]
    BY <1>9 DEF Collect
  <2>2. dying' \subseteq ToSet(born) \ script
    BY <1>0, <2>1 DEF HasGc, Kept
  <2>3. env' \in [Chans -> Devs \cup {NoOne}]
    BY <2>1 DEF BindingTypeOK
  <2> QED
    BY <1>9, <2>2, <2>3 DEF Collect, BindingTypeOK
<1>10. CASE Finalize
  <2>1. PICK n \in DOMAIN born :
          /\ born[n] \in Doomed
          /\ born' = RemoveAt(born, n)
          /\ dying' = dying \ {born[n]}
          /\ IF born[n] \in Devs THEN l_dev_close(born[n]) ELSE l_ctx_exit(born[n])
    BY <1>10 DEF Finalize
  <2>2. born \in Seq(Ctxs \cup Devs) /\ Distinct(born)
    BY DEF BindingTypeOK
  <2>3. /\ born' \in Seq(Ctxs \cup Devs) /\ Distinct(born')
        /\ ToSet(born') = ToSet(born) \ {born[n]}
    BY <2>1, <2>2, Removed
  <2>4. born[n] \notin script
    BY <2>1 DEF Doomed, BindingTypeOK
  <2>5. ptr' = ptr \ {born[n]}
    BY <2>1 DEF l_dev_close, l_ctx_exit
  <2> QED
    BY <1>10, <2>1, <2>3, <2>4, <2>5 DEF Finalize, BindingTypeOK
<1>11. CASE LuaClose
  BY <1>11 DEF LuaClose, BindingTypeOK
<1>12. CASE LibraryGoesOn
  BY <1>12 DEF LibraryGoesOn, BindingTypeOK
<1> QED
  BY <1>2, <1>3, <1>4, <1>5, <1>6, <1>7, <1>8, <1>9, <1>10, <1>11, <1>12 DEF BindingNext

LEMMA OwnerStep ==
  ASSUME BindingTypeOK, OwnerInv, BindingNext
  PROVE  OwnerInv'
<1> USE DEF lua, history
<1>0. /\ Ctxs \cap Devs = {} /\ Ctxs \cap Chans = {} /\ Devs \cap Chans = {}
      /\ NoOne \notin Ctxs \cup Devs \cup Chans
  BY LuaBindingAssumption
<1>1. CASE UNCHANGED <<pc, ptr, opening, lost, closing, born>>
  BY <1>1 DEF OwnerInv, Fresh
<1>2. ASSUME NEW d \in Devs, l_dev_close(d), Returned, UNCHANGED <<opening, lost>>
      PROVE  OwnerInv'
  <2>1. CASE d \in ptr
    <3>1. pc' = "releasing" /\ ptr' = ptr \ {d}
      BY <1>2, <2>1, LibraryCalls DEF l_dev_close
    <3>2. ptr' \cap Devs = {} /\ ~lost
      BY <2>1, <3>1 DEF OwnerInv
    <3> QED
      BY <1>2, <3>1, <3>2 DEF OwnerInv, Returned
  <2>2. CASE d \notin ptr
    <3>1. pc' = pc /\ ptr' = ptr
      BY <1>2, <2>2, LibraryCalls DEF l_dev_close
    <3> QED
      BY <1>2, <3>1 DEF OwnerInv, Returned
  <2> QED
    BY <2>1, <2>2
<1>3. ASSUME NEW x, x \notin Devs, l_ctx_exit(x), Returned, UNCHANGED <<opening, lost>>
      PROVE  OwnerInv'
  <2>1. pc' = pc /\ ptr' \cap Devs = ptr \cap Devs
    BY <1>3, LibraryCalls DEF l_ctx_exit
  <2> QED
    BY <1>3, <2>1 DEF OwnerInv, Returned
<1>4. ASSUME NEW x \in Ctxs, l_gsusb_init(x)
      PROVE  OwnerInv'
  <2>1. ptr' \cap Devs = ptr \cap Devs
    BY <1>0, <1>4 DEF l_gsusb_init, NewUserdata
  <2>2. UNCHANGED <<pc, opening, lost, closing>> /\ opening = NoOne
    BY <1>4 DEF l_gsusb_init, Running, Returned, vars
  <2> QED
    BY <2>1, <2>2 DEF OwnerInv
<1>5. ASSUME NEW x \in Ctxs, NEW d \in Devs, l_ctx_open(x, d)
      PROVE  OwnerInv'
  <2>1. pc = "closed" /\ pc' \in {"match", "releasing"}
    BY <1>5, LibraryCalls DEF l_ctx_open
  <2>2. d # NoOne /\ opening' = d /\ UNCHANGED <<born, ptr, closing, lost>> /\ Fresh(d) /\ ~closing
    BY <1>0, <1>5 DEF l_ctx_open, Running
  <2> QED
    BY <2>1, <2>2 DEF OwnerInv, Fresh
<1>6. CASE OpenReturns
  <2>1. /\ opening \in Devs /\ opening # NoOne /\ opening' = NoOne /\ pc' = pc
        /\ ptr \cap Devs = {} /\ ~lost /\ UNCHANGED closing
    BY <1>6 DEF OpenReturns, OwnerInv, BindingTypeOK, vars
  <2>2. CASE pc = "opened" /\ NewUserdata(opening) /\ UNCHANGED lost
    <3>1. ptr' \cap Devs = {opening}
      BY <2>1, <2>2 DEF NewUserdata
    <3> QED
      BY <2>1, <2>2, <3>1 DEF OwnerInv
  <2>3. CASE pc = "opened" /\ lost' = TRUE /\ UNCHANGED <<born, ptr, script>>
    BY <2>1, <2>3 DEF OwnerInv
  <2>4. CASE pc = "closed" /\ UNCHANGED <<born, ptr, script, lost>>
    BY <2>1, <2>4 DEF OwnerInv
  <2> QED
    BY <1>6, <2>2, <2>3, <2>4 DEF OpenReturns
<1>7. ASSUME NEW d \in Devs, ScriptCloses(d)
      PROVE  OwnerInv'
  BY <1>2, <1>7 DEF ScriptCloses, Running
<1>8. ASSUME NEW x \in Ctxs, ScriptExits(x)
      PROVE  OwnerInv'
  BY <1>0, <1>3, <1>8 DEF ScriptExits, Running
<1>9. CASE Finalize
  <2>1. PICK n \in DOMAIN born :
          IF born[n] \in Devs THEN l_dev_close(born[n]) ELSE l_ctx_exit(born[n])
    BY <1>9 DEF Finalize
  <2>2. Returned /\ UNCHANGED <<opening, lost>>
    BY <1>9 DEF Finalize
  <2>3. CASE born[n] \in Devs
    BY <1>2, <2>1, <2>2, <2>3
  <2>4. CASE born[n] \notin Devs
    BY <1>3, <2>1, <2>2, <2>4
  <2> QED
    BY <2>3, <2>4
<1>10. CASE LibraryGoesOn
  <2>1. /\ pc \notin {"closed", "opened"}
        /\ pc = "releasing" => pc' \in {"releasing", "closed"}
        /\ UNCHANGED <<ptr, opening, lost, closing, born>>
    BY <1>10, LibraryCalls DEF LibraryGoesOn
  <2> QED
    BY <2>1 DEF OwnerInv, Fresh
<1>11. CASE LuaClose
  BY <1>11 DEF LuaClose, Running, Returned, OwnerInv, vars
<1>12. CASE \/ \E d \in Devs, c \in Chans : l_dev_channel(d, c)
            \/ \E c \in Chans : l_ch_call(c)
            \/ \E refs \in SUBSET script : ScriptDrops(refs)
            \/ Collect
  BY <1>1, <1>12 DEF l_dev_channel, l_ch_call, ScriptDrops, Collect, vars
<1> QED
  BY <1>4, <1>5, <1>6, <1>7, <1>8, <1>9, <1>10, <1>11, <1>12 DEF BindingNext

LEMMA ChannelStep ==
  ASSUME BindingTypeOK, OwnerInv, ChannelInv, BindingNext
  PROVE  ChannelInv'
<1> USE DEF lua, history
<1>0. /\ Ctxs \cap Devs = {} /\ Ctxs \cap Chans = {} /\ Devs \cap Chans = {}
      /\ NoOne \notin Ctxs \cup Devs \cup Chans
  BY LuaBindingAssumption
<1>1. CASE /\ UNCHANGED <<env, dying, misused, dangled>> /\ ptr \subseteq ptr'
           /\ script' \cap Chans \subseteq script \cap Chans
  BY <1>1 DEF ChannelInv
<1>2. ASSUME NEW x \in Ctxs, l_gsusb_init(x) \/ \E d \in Devs : l_ctx_open(x, d)
      PROVE  ChannelInv'
  BY <1>0, <1>1, <1>2 DEF l_gsusb_init, l_ctx_open, NewUserdata
<1>3. CASE OpenReturns
  <2>1. opening \in Devs
    BY <1>3 DEF OpenReturns, BindingTypeOK
  <2> QED
    BY <1>0, <1>1, <1>3, <2>1 DEF OpenReturns, NewUserdata
<1>4. ASSUME NEW x \in Ctxs, ScriptExits(x)
      PROVE  ChannelInv'
  <2>1. /\ UNCHANGED <<env, script, dying, dangled>> /\ ptr' = ptr \ {x}
        /\ misused => misused'
    BY <1>4 DEF ScriptExits, l_ctx_exit
  <2> QED
    BY <1>0, <2>1 DEF ChannelInv
<1>5. ASSUME NEW d \in Devs, ScriptCloses(d)
      PROVE  ChannelInv'
  <2>1. /\ UNCHANGED <<env, script, dying, dangled>> /\ ptr' = ptr \ {d}
        /\ ~misused' => ~misused /\ \A c \in script \cap Chans : env[c] # d
    BY <1>5 DEF ScriptCloses, l_dev_close
  <2> QED
    BY <2>1 DEF ChannelInv
<1>6. ASSUME NEW d \in Devs, NEW c \in Chans, l_dev_channel(d, c)
      PROVE  ChannelInv'
  <2>1. /\ UNCHANGED <<ptr, dying, misused, dangled>> /\ d \in ptr /\ d \notin dying
        /\ script' = script \cup {c}
    BY <1>6 DEF l_dev_channel, BindingTypeOK
  <2>2. \A e \in Chans : env'[e] = IF e = c THEN d ELSE env[e]
    BY <1>6 DEF l_dev_channel, BindingTypeOK
  <2> QED
    BY <2>1, <2>2 DEF ChannelInv
<1>7. ASSUME NEW c \in Chans, l_ch_call(c)
      PROVE  ChannelInv'
  BY <1>7 DEF l_ch_call, ChannelInv
<1>8. ASSUME NEW refs, ScriptDrops(refs)
      PROVE  ChannelInv'
  <2>1. /\ UNCHANGED <<env, ptr, dying, dangled>> /\ script' \subseteq script
        /\ ~misused' => ~misused
    BY <1>8 DEF ScriptDrops
  <2> QED
    BY <2>1 DEF ChannelInv
<1>9. CASE Collect
  <2> DEFINE dead == (ToSet(born) \cup Chans) \ Kept(script)
  <2>1. /\ dying' \subseteq dead /\ UNCHANGED <<ptr, script, misused, dangled>>
        /\ \A c \in Chans : env'[c] = IF c \in dead THEN NoOne ELSE env[c]
    BY <1>9 DEF Collect
  <2>2. \A c \in script \cap Chans : c \notin dead /\ env[c] \notin dead
    BY DEF Kept
  <2> QED
    BY <2>1, <2>2 DEF ChannelInv
<1>10. CASE Finalize
  <2>1. PICK n \in DOMAIN born :
          /\ born[n] \in Doomed
          /\ dying' = dying \ {born[n]}
          /\ IF born[n] \in Devs THEN l_dev_close(born[n]) ELSE l_ctx_exit(born[n])
    BY <1>10 DEF Finalize
  <2>2. ptr' = ptr \ {born[n]} /\ UNCHANGED <<env, script, misused, dangled>>
    BY <1>10, <2>1 DEF Finalize, l_dev_close, l_ctx_exit
  <2>3. script = {} \/ born[n] \in dying
    BY <2>1 DEF Doomed, BindingTypeOK
  <2> QED
    BY <2>1, <2>2, <2>3 DEF ChannelInv
<1>11. CASE LuaClose
  BY <1>11 DEF LuaClose, ChannelInv
<1>12. CASE LibraryGoesOn
  BY <1>1, <1>12 DEF LibraryGoesOn
<1> QED
  BY <1>2, <1>3, <1>4, <1>5, <1>6, <1>7, <1>8, <1>9, <1>10, <1>11, <1>12 DEF BindingNext
LEMMA ContextStep ==
  ASSUME BindingTypeOK, OwnerInv, ContextInv, BindingNext
  PROVE  ContextInv'
<1> USE DEF lua, history
<1>0. /\ Ctxs \cap Devs = {} /\ Ctxs \cap Chans = {} /\ Devs \cap Chans = {}
      /\ NoOne \notin Ctxs \cup Devs \cup Chans
  BY LuaBindingAssumption
<1>1. /\ usb_ctx \notin Devs /\ born \in Seq(Ctxs \cup Devs) /\ Distinct(born)
      /\ ptr \subseteq ToSet(born)
  BY <1>0 DEF BindingTypeOK
<1>2. CASE /\ UNCHANGED <<pc, opening, usb_ctx, born, ptr, script, dying, misused, lost>>
           /\ Kept(script)' = Kept(script)
  BY <1>2 DEF ContextInv
<1>3. ASSUME NEW x \in Ctxs, l_gsusb_init(x)
      PROVE  ContextInv'
  <2>1. /\ UNCHANGED <<pc, opening, usb_ctx, dying, misused, lost, env>> /\ opening = NoOne
        /\ born' = Append(born, x) /\ x \notin ToSet(born)
        /\ ptr' = ptr \cup {x} /\ script' = script \cup {x}
    BY <1>3 DEF l_gsusb_init, NewUserdata, Running, Returned, Fresh, vars
  <2>2. \A d : Before(born, usb_ctx, d) => Before(born', usb_ctx, d)
    BY <1>1, <2>1, Appended
  <2>3. \A d \in Devs : d \in Kept(script)' => d \in Kept(script)
    BY <1>0, <2>1 DEF Kept
  <2>4. ptr' \cap Devs = ptr \cap Devs
    BY <1>0, <2>1
  <2> QED
    BY <2>1, <2>2, <2>3, <2>4 DEF ContextInv
<1>4. ASSUME NEW x \in Ctxs, NEW d \in Devs, l_ctx_open(x, d)
      PROVE  ContextInv'
  <2>1. /\ UNCHANGED <<ptr, script, lost, misused>> /\ usb_ctx' = x /\ x \in script \cap ptr
        /\ pc = "closed"
    BY <1>4, LibraryCalls DEF l_ctx_open
  <2>2. ptr \cap Devs = {}
    BY <2>1 DEF OwnerInv
  <2> QED
    BY <2>1, <2>2 DEF ContextInv
<1>5. CASE OpenReturns
  <2>1. /\ opening \in Devs /\ opening # NoOne /\ opening' = NoOne /\ pc' = pc
        /\ ptr \cap Devs = {} /\ UNCHANGED <<env, dying, usb_ctx, misused>>
        /\ usb_ctx \in script \cap ptr /\ Fresh(opening)
    BY <1>5 DEF OpenReturns, OwnerInv, BindingTypeOK, ContextInv, vars
  <2>2. CASE NewUserdata(opening)
    <3>1. /\ born' = Append(born, opening) /\ ptr' = ptr \cup {opening}
          /\ script' = script \cup {opening} /\ ptr' \cap Devs = {opening}
      BY <2>1, <2>2 DEF NewUserdata
    <3>2. Before(born', usb_ctx, opening)
      BY <1>1, <2>1, <3>1, Appended DEF Fresh
    <3>3. usb_ctx \notin dying
      BY <2>1 DEF BindingTypeOK
    <3> QED
      BY <2>1, <3>1, <3>2, <3>3 DEF ContextInv
  <2>3. CASE UNCHANGED <<born, ptr, script>>
    BY <2>1, <2>3 DEF ContextInv
  <2> QED
    BY <1>5, <2>2, <2>3 DEF OpenReturns
<1>6. ASSUME NEW x \in Ctxs, ScriptExits(x)
      PROVE  ContextInv'
  <2>1. /\ UNCHANGED <<pc, opening, usb_ctx, born, script, dying, env, lost>> /\ opening = NoOne
        /\ pc \in {"closed", "opened"} /\ ptr' = ptr \ {x} /\ ptr' \cap Devs = ptr \cap Devs
        /\ ~misused' => ~misused /\ (usb_ctx # x \/ ptr \cap Devs = {})
    BY <1>0, <1>6, LibraryCalls DEF ScriptExits, l_ctx_exit, Running, Returned
  <2>2. Kept(script)' = Kept(script)
    BY <2>1 DEF Kept
  <2> QED
    BY <2>1, <2>2 DEF ContextInv, OwnerInv
<1>7. ASSUME NEW d \in Devs, l_dev_close(d), Returned, ~misused' => ~misused,
             UNCHANGED <<opening, usb_ctx, env, script, lost>>,
             \A e \in ptr \cap Devs :
               e # d /\ Before(born, usb_ctx, e) => Before(born', usb_ctx, e),
             dying' = dying \/ dying' = dying \ {d}
      PROVE  ContextInv'
  <2>1. ptr' = ptr \ {d} /\ usb_ctx # d
    BY <1>1, <1>7 DEF l_dev_close
  <2>2. pc' # "closed" => pc # "closed"
    BY <1>7, LibraryCalls DEF l_dev_close
  <2>3. Kept(script)' = Kept(script)
    BY <1>7 DEF Kept
  <2> QED
    BY <1>7, <2>1, <2>2, <2>3 DEF ContextInv, Returned
<1>8. ASSUME NEW d \in Devs, ScriptCloses(d)
      PROVE  ContextInv'
  BY <1>7, <1>8 DEF ScriptCloses, Running
<1>9. ASSUME NEW d \in Devs, NEW c \in Chans, l_dev_channel(d, c)
      PROVE  ContextInv'
  <2>1. /\ UNCHANGED <<pc, opening, usb_ctx, born, ptr, dying, misused, lost>> /\ d \in script
        /\ script' = script \cup {c} /\ opening = NoOne
    BY <1>9 DEF l_dev_channel, Running, Returned, vars
  <2>2. \A e \in Chans : env'[e] = IF e = c THEN d ELSE env[e]
    BY <1>9 DEF l_dev_channel, BindingTypeOK
  <2>3. \A e \in Devs : e \in Kept(script)' => e \in Kept(script)
    BY <1>0, <2>1, <2>2 DEF Kept
  <2> QED
    BY <2>1, <2>3 DEF ContextInv
<1>10. ASSUME NEW refs, ScriptDrops(refs)
       PROVE  ContextInv'
  <2>1. /\ UNCHANGED <<pc, opening, usb_ctx, born, ptr, dying, env, lost>> /\ opening = NoOne
        /\ script' = script \ refs
        /\ ~misused' => ~misused /\ (usb_ctx \in refs => ptr \cap Devs \cap Kept(script') = {})
    BY <1>10 DEF ScriptDrops, Running, Returned, vars
  <2>2. Kept(script') \subseteq Kept(script) /\ Kept(script)' = Kept(script')
    BY <2>1 DEF Kept
  <2> QED
    BY <2>1, <2>2 DEF ContextInv
<1>11. CASE Collect
  <2> DEFINE dead == (ToSet(born) \cup Chans) \ Kept(script)
  <2>1. /\ UNCHANGED <<pc, opening, usb_ctx, born, ptr, script, misused, lost>>
        /\ dying' = dead \cap HasGc
        /\ \A c \in Chans : env'[c] = IF c \in dead THEN NoOne ELSE env[c]
    BY <1>11 DEF Collect, vars
  <2>2. Kept(script)' = Kept(script)
    BY <2>1 DEF Kept
  <2>3. ASSUME ~misused, NEW d \in ptr \cap Devs, usb_ctx \in dying'
        PROVE  d \in dying'
    <3>1. usb_ctx \notin script
      BY <2>1, <2>3 DEF Kept
    <3>2. d \notin Kept(script)
      BY <2>3, <3>1 DEF ContextInv
    <3> QED
      BY <1>1, <2>1, <3>2 DEF HasGc
  <2> QED
    BY <2>1, <2>2, <2>3 DEF ContextInv
<1>12. CASE Finalize
  <2>1. PICK n \in DOMAIN born :
          /\ born[n] \in Doomed
          /\ \A m \in DOMAIN born : m > n => born[m] \notin Doomed
          /\ born' = RemoveAt(born, n)
          /\ dying' = dying \ {born[n]}
          /\ IF born[n] \in Devs THEN l_dev_close(born[n]) ELSE l_ctx_exit(born[n])
    BY <1>12 DEF Finalize
  <2>2. Returned /\ UNCHANGED <<opening, usb_ctx, env, script, misused, lost>>
    BY <1>12 DEF Finalize
  <2>3. \A a, b : Before(born, a, b) /\ born[n] \notin {a, b} => Before(born', a, b)
    BY <1>1, <2>1, Removed
  <2>4. CASE born[n] \in Devs
    <3>1. \A e \in ptr \cap Devs :
            e # born[n] /\ Before(born, usb_ctx, e) => Before(born', usb_ctx, e)
      BY <1>1, <2>3, <2>4
    <3>2. l_dev_close(born[n])
      BY <2>1, <2>4
    <3> QED
      BY <1>7, <2>1, <2>2, <2>4, <3>1, <3>2
  <2>5. CASE born[n] \notin Devs
    <3>1. ptr' = ptr \ {born[n]} /\ ptr' \cap Devs = ptr \cap Devs /\ pc' = pc
      BY <2>1, <2>5, LibraryCalls DEF l_ctx_exit
    <3>2. ASSUME ~misused, NEW d \in ptr \cap Devs
          PROVE  born[n] # usb_ctx
      <4> SUFFICES ASSUME born[n] = usb_ctx PROVE FALSE
        OBVIOUS
      <4>1. Before(born, usb_ctx, d)
        BY <3>2 DEF ContextInv
      <4>2. PICK p, q \in DOMAIN born : born[p] = usb_ctx /\ born[q] = d /\ p < q
        BY <4>1 DEF Before
      <4>3. p = n
        BY <1>1, <4>2 DEF Distinct
      <4>4. d \notin Doomed
        <5>1. n \in Nat /\ q \in Nat
          BY <1>1
        <5> QED
          BY <2>1, <4>2, <4>3, <5>1
      <4>5. d \in Doomed
        <5>1. CASE dying = {} /\ closing
          BY <1>1, <5>1 DEF Doomed, HasGc
        <5>2. CASE ~(dying = {} /\ closing)
          BY <2>1, <3>2, <5>2 DEF Doomed, ContextInv
        <5> QED
          BY <5>1, <5>2
      <4> QED
        BY <4>4, <4>5
    <3>3. Kept(script)' = Kept(script)
      BY <2>2 DEF Kept
    <3>4. ASSUME ~misused, ~lost, pc # "closed"
          PROVE  usb_ctx \in ptr'
      <4>1. ptr \cap Devs # {}
        BY <2>2, <3>4 DEF Returned, OwnerInv
      <4>2. usb_ctx # born[n]
        BY <3>2, <3>4, <4>1
      <4> QED
        BY <3>1, <3>4, <4>2 DEF ContextInv
    <3>5. ASSUME ~misused, NEW d \in ptr \cap Devs
          PROVE  /\ Before(born', usb_ctx, d)
                 /\ d \in Kept(script) => usb_ctx \in script
                 /\ usb_ctx \in dying' => d \in dying'
      <4>1. born[n] \notin {usb_ctx, d}
        BY <2>5, <3>2, <3>5
      <4>2. /\ Before(born, usb_ctx, d)
            /\ d \in Kept(script) => usb_ctx \in script
            /\ usb_ctx \in dying => d \in dying
        BY <3>5 DEF ContextInv
      <4> QED
        BY <2>1, <2>3, <4>1, <4>2
    <3> QED
      BY <2>2, <3>1, <3>3, <3>4, <3>5 DEF ContextInv, Returned
  <2> QED
    BY <2>4, <2>5
<1>13. CASE LuaClose
  <2>1. /\ UNCHANGED <<pc, opening, usb_ctx, born, ptr, dying, misused, lost>> /\ opening = NoOne
        /\ script' = {}
    BY <1>13 DEF LuaClose, Running, Returned, vars
  <2>2. Kept(script)' = {}
    BY <2>1 DEF Kept
  <2> QED
    BY <2>1, <2>2 DEF ContextInv
<1>14. CASE LibraryGoesOn
  <2>1. UNCHANGED lua /\ pc # "closed"
    BY <1>14, LibraryCalls DEF LibraryGoesOn
  <2>2. Kept(script)' = Kept(script)
    BY <2>1 DEF Kept
  <2> QED
    BY <2>1, <2>2 DEF ContextInv
<1>15. ASSUME NEW c \in Chans, l_ch_call(c)
       PROVE  ContextInv'
  BY <1>2, <1>15 DEF l_ch_call, vars, Kept
<1> QED
  BY <1>3, <1>4, <1>5, <1>6, <1>8, <1>9, <1>10, <1>11, <1>12, <1>13, <1>14, <1>15
     DEF BindingNext

-------------------------------------------------------------------------------
LEMMA BindingInvariant == BindingSpec => []BindingInv
<1>1. ASSUME BindingInit
      PROVE  BindingTypeOK /\ OwnerInv /\ ChannelInv /\ ContextInv
  <2>1. <<>> \in Seq(Ctxs \cup Devs) /\ DOMAIN born = {}
    BY <1>1 DEF BindingInit
  <2>2. BindingTypeOK
    BY <1>1, <2>1 DEF BindingInit, BindingTypeOK, Distinct
  <2> QED
    BY <1>1, <2>2 DEF BindingInit, Init, OwnerInv, ChannelInv, ContextInv
<1>2. ASSUME BindingTypeOK, OwnerInv, ChannelInv, ContextInv, [BindingNext]_<<vars, lua>>
      PROVE  (BindingTypeOK /\ OwnerInv /\ ChannelInv /\ ContextInv)'
  <2>1. CASE BindingNext
    BY <1>2, <2>1, BindingTypeStep, OwnerStep, ChannelStep, ContextStep
  <2>2. CASE UNCHANGED <<vars, lua>>
    BY <1>2, <2>2 DEF vars, lua, history, BindingTypeOK, OwnerInv, ChannelInv, ContextInv, Fresh,
                      Kept
  <2> QED
    BY <1>2, <2>1, <2>2
<1>3. BindingSpec => []OpenInv
  BY BindingUsesLibrary, OpenInvariant
<1>4. BindingSpec => [](BindingTypeOK /\ OwnerInv /\ ChannelInv /\ ContextInv)
  BY <1>1, <1>2, PTL DEF BindingSpec
<1> QED
  BY <1>3, <1>4, PTL DEF BindingInv

(* A channel that a script can use has its device, and the device is open,  *)
(* unless the script closed it.                                             *)
THEOREM ChannelsStayUsable == BindingSpec => []ChannelsUsable
<1>1. ASSUME BindingInv
      PROVE  ChannelsUsable
  <2>1. ASSUME ~misused, NEW c \in script \cap Chans
        PROVE  env[c] \in ptr /\ pc = "opened"
    <3>1. env[c] \in ptr \cap Devs
      BY <1>1, <2>1 DEF BindingInv, ChannelInv
    <3> QED
      BY <1>1, <3>1 DEF BindingInv, OwnerInv
  <2> QED
    BY <1>1, <2>1 DEF BindingInv, ChannelInv, ChannelsUsable
<1> QED
  BY <1>1, BindingInvariant, PTL

(* The context is there for the last call of gsusb_close(), in whatever     *)
(* order script and collector let go of things.                             *)
THEOREM ContextIsLast == BindingSpec => []ContextLast
<1>1. ASSUME BindingInv
      PROVE  ContextLast
  <2>1. held # {} => pc # "closed"
    BY <1>1 DEF BindingInv, OpenInv, Calls, Acquired
  <2> QED
    BY <1>1, <2>1 DEF BindingInv, ContextInv, ContextLast
<1> QED
  BY <1>1, BindingInvariant, PTL

(* lua_close() gives everything back that a userdata has. *)
THEOREM EverythingGivenBack == BindingSpec => []GivenBack
<1>1. ASSUME BindingInv
      PROVE  GivenBack
  <2> SUFFICES ASSUME closing, Returned, Doomed = {}
               PROVE  ptr = {} /\ (held = {} <=> ~lost)
    BY DEF GivenBack
  <2>1. ToSet(born) = {}
    <3>1. ToSet(born) \cap (Ctxs \cup Devs) = {}
      BY DEF Doomed, HasGc
    <3>2. ToSet(born) \subseteq Ctxs \cup Devs
      <4>1. born \in Seq(Ctxs \cup Devs)
        BY <1>1 DEF BindingInv, BindingTypeOK
      <4>2. \A n \in DOMAIN born : born[n] \in Ctxs \cup Devs
        BY <4>1
      <4> QED
        BY <4>2 DEF ToSet
    <3> QED
      BY <3>1, <3>2
  <2>2. ptr = {}
    BY <1>1, <2>1 DEF BindingInv, BindingTypeOK
  <2>3. pc = "opened" => held # {}
    BY <1>1 DEF BindingInv, OpenInv, Acquired, Usb, Calls
  <2>4. pc = "closed" => held = {}
    BY <1>1 DEF BindingInv, OpenInv, Acquired, Calls
  <2> QED
    BY <1>1, <2>2, <2>3, <2>4 DEF BindingInv, OwnerInv, Returned
<1> QED
  BY <1>1, BindingInvariant, PTL
===============================================================================
