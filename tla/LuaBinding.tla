------------------------------ MODULE LuaBinding -------------------------------
(***************************************************************************)
(* The Lua binding (sdk/lua/gsusb/lua_gsusb.c): which C objects its        *)
(* userdata own, and when they are given back, by the script or by the     *)
(* garbage collector.  It extends GsusbOpen, so that gsusb_open() and      *)
(* gsusb_close() of the one adapter are taken call by call.                *)
(*                                                                         *)
(* A script may do what it likes; `misused` remembers that it took away a  *)
(* device from a channel, or a context from a device, that it could still  *)
(* use.  bus.lua never does: it closes channel, device and context in this *)
(* order and keeps all three until then.                                   *)
(***************************************************************************)
EXTENDS GsusbOpen, SequencesExt

CONSTANTS
  Ctxs, Devs, Chans,  \* identities of userdata of the three types
  NoOne               \* none of them

ASSUME LuaBindingAssumption ==
  /\ NoOne \notin Ctxs \cup Devs \cup Chans
  /\ Ctxs \cap Devs = {} /\ Ctxs \cap Chans = {} /\ Devs \cap Chans = {}

VARIABLES
  born,     \* the ctx and dev userdata whose __gc has not run, oldest first
  ptr,      \* those whose C pointer is not NULL
  env,      \* env[c]: the dev a channel was made from, NoOne without a channel
  script,   \* the userdata the script has references to
  dying,    \* those among them that the collector has found unreachable
  opening,  \* the dev of the ctx:open() in progress, or NoOne
  usb_ctx,  \* the context gsusb_open() was given last
  closing,  \* lua_close() has been called
  misused,  \* history: see above
  dangled,  \* history: a channel was used after its device had been closed
  lost      \* history: a device was opened and no userdata could be made for it

history == <<misused, dangled, lost>>
lua == <<born, ptr, env, script, dying, opening, usb_ctx, closing, history>>

BindingInit ==
  /\ Init
  /\ born = <<>>
  /\ ptr = {} /\ script = {} /\ dying = {}
  /\ env = [c \in Chans |-> NoOne]
  /\ opening = NoOne /\ usb_ctx = NoOne
  /\ closing = FALSE
  /\ misused = FALSE /\ dangled = FALSE /\ lost = FALSE

(* No C function is being called. *)
Returned == pc \in {"closed", "opened"} /\ opening = NoOne

Running == Returned /\ ~closing

Fresh(o) == o \notin ToSet(born)

(* Mutant of Kept: the environment table of a channel is not set. *)
KeptByScript(refs) == refs

(* What the collector must keep if the script has references to refs: a     *)
(* channel's environment table has a reference to its dev.                  *)
Kept(refs) == refs \cup {env[c] : c \in refs \cap Chans}

(* A userdata is made, and returned to the script. *)
NewUserdata(o) ==
  /\ born' = Append(born, o)
  /\ ptr' = ptr \cup {o}
  /\ script' = script \cup {o}

-------------------------------------------------------------------------------
(* gsusb.init(), ctx:open(), dev:channel(). *)

(* (A context that gets no userdata is lost, too, and nothing with it.)     *)
l_gsusb_init(x) ==
  /\ Running /\ Fresh(x)
  /\ NewUserdata(x)
  /\ UNCHANGED <<vars, env, dying, opening, usb_ctx, closing, history>>

(* gsusb_open() is called.  (With the adapter open already it would fail    *)
(* and leave nothing changed.)                                              *)
l_ctx_open(x, d) ==
  /\ Running /\ Fresh(d)
  /\ x \in script \cap ptr
  /\ GetDeviceList
  /\ opening' = d
  /\ usb_ctx' = x
  /\ UNCHANGED <<born, ptr, env, script, dying, closing, history>>

(* gsusb_open() has returned a device, or NULL; lua_newuserdata() raises     *)
(* when there is no memory for it.                                          *)
OpenReturns ==
  /\ opening # NoOne
  /\ \/ pc = "opened" /\ NewUserdata(opening) /\ UNCHANGED lost
     \/ pc = "opened" /\ lost' = TRUE /\ UNCHANGED <<born, ptr, script>>
     \/ pc = "closed" /\ UNCHANGED <<born, ptr, script, lost>>
  /\ opening' = NoOne
  /\ UNCHANGED <<vars, env, dying, usb_ctx, closing, misused, dangled>>

l_dev_channel(d, c) ==
  /\ Running
  /\ d \in script \cap ptr
  /\ channel_count > 0
  /\ env[c] = NoOne
  /\ env' = [env EXCEPT ![c] = d]
  /\ script' = script \cup {c}
  /\ UNCHANGED <<vars, born, ptr, dying, opening, usb_ctx, closing, history>>

(* A method of a channel is called: set_bitrate, start, stop, send, recv,   *)
(* get_state, set_identify or features.  check_channel() tests a pointer    *)
(* that is never NULL, and the library is called with it.                   *)
l_ch_call(c) ==
  /\ Running /\ c \in script
  /\ dangled' = (dangled \/ env[c] \notin ptr)
  /\ UNCHANGED <<vars, born, ptr, env, script, dying, opening, usb_ctx, closing, misused, lost>>

-------------------------------------------------------------------------------
(* dev:close() and ctx:exit(), by the script or as __gc. *)

l_dev_close(d) ==
  /\ IF d \in ptr THEN Close ELSE UNCHANGED vars
  /\ ptr' = ptr \ {d}

l_ctx_exit(x) ==
  /\ ptr' = ptr \ {x}
  /\ UNCHANGED vars

ScriptCloses(d) ==
  /\ Running /\ d \in script
  /\ l_dev_close(d)
  /\ misused' = (misused \/ \E c \in script \cap Chans : env[c] = d)
  /\ UNCHANGED <<born, env, script, dying, opening, usb_ctx, closing, dangled, lost>>

ScriptExits(x) ==
  /\ Running /\ x \in script
  /\ l_ctx_exit(x)
  /\ misused' = (misused \/ (usb_ctx = x /\ ptr \cap Devs # {}))
  /\ UNCHANGED <<born, env, script, dying, opening, usb_ctx, closing, dangled, lost>>

(* The script forgets references. *)
ScriptDrops(refs) ==
  /\ Running
  /\ refs # {} /\ refs \subseteq script
  /\ script' = script \ refs
  /\ misused' = (misused \/ (usb_ctx \in refs /\ ptr \cap Devs \cap Kept(script') # {}))
  /\ UNCHANGED <<vars, born, ptr, env, dying, opening, usb_ctx, closing, dangled, lost>>

-------------------------------------------------------------------------------
(* The collector. *)

(* Mutants of HasGc: the metatable of dev, or of ctx, has no __gc. *)
CtxHasGc == Ctxs

DevHasGc == Devs

(* make_metatable() gave them a __gc. *)
HasGc == Ctxs \cup Devs

Collect ==
  /\ Running /\ dying = {}
  /\ \E dead \in {(ToSet(born) \cup Chans) \ Kept(script)} :
       /\ dying' = dead \cap HasGc
       /\ env' = [c \in Chans |-> IF c \in dead THEN NoOne ELSE env[c]]
  /\ UNCHANGED <<vars, born, ptr, script, opening, usb_ctx, closing, history>>

(* lua_close() collects everything, after what was collected before. *)
LuaClose ==
  /\ Running
  /\ closing' = TRUE
  /\ script' = {}
  /\ env' = [c \in Chans |-> NoOne]
  /\ UNCHANGED <<vars, born, ptr, dying, opening, usb_ctx, history>>

Doomed == IF dying = {} /\ closing THEN ToSet(born) \cap HasGc ELSE dying

(* One __gc, in between anything the script does: that of the youngest.     *)
Finalize ==
  /\ Returned
  /\ \E n \in DOMAIN born :
       /\ born[n] \in Doomed
       /\ \A m \in DOMAIN born : m > n => born[m] \notin Doomed
       /\ born' = RemoveAt(born, n)
       /\ dying' = dying \ {born[n]}
       /\ IF born[n] \in Devs THEN l_dev_close(born[n]) ELSE l_ctx_exit(born[n])
  /\ UNCHANGED <<env, script, opening, usb_ctx, closing, history>>

LibraryGoesOn == CallGoesOn /\ UNCHANGED lua

BindingNext ==
  \/ \E x \in Ctxs : l_gsusb_init(x) \/ ScriptExits(x) \/ \E d \in Devs : l_ctx_open(x, d)
  \/ \E d \in Devs : ScriptCloses(d) \/ \E c \in Chans : l_dev_channel(d, c)
  \/ \E c \in Chans : l_ch_call(c)
  \/ OpenReturns
  \/ \E refs \in SUBSET script : ScriptDrops(refs)
  \/ Collect \/ Finalize \/ LuaClose
  \/ LibraryGoesOn

BindingSpec == BindingInit /\ [][BindingNext]_<<vars, lua>>

-------------------------------------------------------------------------------
(* Properties. *)

(* The collector never takes a device from a channel the script can use,    *)
(* however many other references to the device are dropped: a channel's     *)
(* pointer is into an open device, and so is every pointer the library is   *)
(* called with.                                                             *)
ChannelsUsable ==
  ~misused =>
    /\ ~dangled
    /\ \A c \in script \cap Chans : env[c] \in ptr /\ pc = "opened"

(* A context outlives the device that was opened in it, to the last call of *)
(* its clean-up, also if both are collected at once, as long as a userdata  *)
(* has the device.                                                          *)
ContextLast == ~misused /\ ~lost /\ held # {} => usb_ctx \in ptr

(* When lua_close() is done everything has been given back, whatever the    *)
(* script left open, but for a device that never got its userdata: nobody   *)
(* can close that.                                                          *)
GivenBack ==
  closing /\ Returned /\ Doomed = {} => ptr = {} /\ (held = {} <=> ~lost)
===============================================================================
