--------------------------- MODULE VarHandleNatives ---------------------------
(***************************************************************************)
(* The VarHandle access-mode natives (luni/src/main/native/                *)
(* java_lang_invoke_VarHandle.cpp).  JNI_OnLoad's                          *)
(* register_java_lang_invoke_VarHandle binds the 31 entries of gMethods to *)
(* the signature-polymorphic native methods java.lang.invoke.VarHandle     *)
(* declares; libnativehelper's jniRegisterNativeMethods aborts the process *)
(* when RegisterNatives fails, which it does when an entry's name and      *)
(* signature match no native method of the class.  Each stub is reached    *)
(* only by reflection and throws UnsupportedOperationException naming an   *)
(* access mode.                                                            *)
(*                                                                         *)
(* The Java declarations (VarHandle.java, outside this fragment) are       *)
(* modelled from their contract: one native per access mode, returning     *)
(* Object for the get, compare-and-exchange and get-and-update modes,      *)
(* boolean for the compare-and-set modes, and void for the set modes.      *)
(* Threads are the Java threads that may call a stub by reflection.  The   *)
(* registration itself is a step of JNI_OnLoad, in module LibraryLoad.     *)
(***************************************************************************)
EXTENDS FiniteSets

CONSTANT Threads

\* The access modes gMethods lists (NATIVE_METHOD pairs each name with the
\* stub VarHandle_<name>).
Modes ==
    {"compareAndExchange", "compareAndExchangeAcquire",
     "compareAndExchangeRelease", "compareAndSet", "get", "getAcquire",
     "getAndAdd", "getAndAddAcquire", "getAndAddRelease", "getAndBitwiseAnd",
     "getAndBitwiseAndAcquire", "getAndBitwiseAndRelease", "getAndBitwiseOr",
     "getAndBitwiseOrAcquire", "getAndBitwiseOrRelease", "getAndBitwiseXor",
     "getAndBitwiseXorAcquire", "getAndBitwiseXorRelease", "getAndSet",
     "getAndSetAcquire", "getAndSetRelease", "getOpaque", "getVolatile", "set",
     "setOpaque", "setRelease", "setVolatile", "weakCompareAndSet",
     "weakCompareAndSetAcquire", "weakCompareAndSetPlain",
     "weakCompareAndSetRelease"}

\* The signature each gMethods entry is registered with: the three
\* kVarHandle*Signature strings, by their return type.
BooleanSigModes ==
    {"compareAndSet", "weakCompareAndSet", "weakCompareAndSetAcquire",
     "weakCompareAndSetPlain", "weakCompareAndSetRelease"}
VoidSigModes == {"set", "setOpaque", "setRelease", "setVolatile"}

\* Mutant: compareAndSet registered with kVarHandleObjectSignature.
StubSigMixUp(m) ==
    IF m \in BooleanSigModes \ {"compareAndSet"} THEN "Z"
    ELSE IF m \in VoidSigModes THEN "V" ELSE "Ljava/lang/Object;"

TableSig(m) ==
    IF m \in BooleanSigModes THEN "Z" ELSE IF m \in VoidSigModes THEN "V"
    ELSE "Ljava/lang/Object;"

\* The access-mode string each stub passes to
\* ThrowUnsupportedOperationForAccessMode, by the stub's mode.
StubLiteral ==
    [m \in Modes |-> m]

\* The return type VarHandle.java declares for the native of mode m.
JavaReturn(m) ==
    CASE m \in {"get", "getVolatile", "getAcquire", "getOpaque"}
            -> "Ljava/lang/Object;"
      [] m \in {"set", "setVolatile", "setRelease", "setOpaque"} -> "V"
      [] m \in {"compareAndSet", "weakCompareAndSetPlain", "weakCompareAndSet",
                "weakCompareAndSetAcquire", "weakCompareAndSetRelease"} -> "Z"
      [] OTHER -> "Ljava/lang/Object;"

\* RegisterNatives accepts gMethods: every entry names a native VarHandle
\* declares, with the signature it declares.
VarHandleTableMatches ==
    \A m \in Modes : TableSig(m) = JavaReturn(m)

VARIABLE
    pending      \* pending[t]: the mode named by t's pending exception

vhVars == << pending >>

None == "none"

VhInit ==
    /\ pending = [t \in Threads |-> None]

(* Thread t calls VarHandle.m by reflection: the bound stub VarHandle_m    *)
(* calls ThrowUnsupportedOperationForAccessMode with its literal, and      *)
(* jniThrowExceptionFmt replaces any exception already pending.            *)
InvokeReflectively(t, m) ==
    pending' = [pending EXCEPT ![t] = StubLiteral[m]]

(* Thread t's caller catches the InvocationTargetException.                *)
Catch(t) ==
    /\ pending[t] # None
    /\ pending' = [pending EXCEPT ![t] = None]

====
