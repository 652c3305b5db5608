---------------------------- MODULE SocketTagging ----------------------------
(***************************************************************************)
(* tagSocket (ojluni/src/main/native/socket_tagger_util.cpp), called by    *)
(* the socket natives of the library right after they create a socket,    *)
(* composed with the load/unload life cycle of JniLifecycle: every call    *)
(* of tagSocket reads JniConstants::socketTaggerClass from the cache that  *)
(* JNI_OnLoad filled and JNI_OnUnload clears.                              *)
(*                                                                         *)
(* Each JNI call of tagSocket is one step.  A call may leave an exception  *)
(* pending (a method lookup failing, SocketTagger.get() or tag() throwing, *)
(* jniCreateFileDescriptor running out of memory) when it is in MayFail;   *)
(* the caller may enter with an exception already pending.  Under CheckJNI *)
(* a call other than the exception-safe ones made while an exception is    *)
(* pending, or with a null jmethodID or receiver, is a fatal JNI error; it *)
(* is recorded in `misuse` and the model carries on as the release build   *)
(* does.                                                                   *)
(***************************************************************************)
EXTENDS JniLifecycle

CONSTANT MayFail   \* the calls of tagSocket that may throw

JniCalls == {"GetStaticMethodID", "get", "GetMethodID",
             "jniCreateFileDescriptor", "tag"}

ASSUME MayFailAssumption == MayFail \subseteq JniCalls

VARIABLES
    tpc,        \* position in tagSocket, "idle" between calls
    tpending,   \* an exception is pending on the calling thread's JNIEnv
    getId,      \* jmethodID get: "valid" or "null"
    tagger,     \* jobject socketTagger: "obj" or "null"
    tagId,      \* jmethodID tag: "valid" or "null"
    fdObj,      \* jobject fileDescriptor: "obj" or "null"
    misuse      \* JNI calls made while an exception was pending or on null

tagVars == << tpc, tpending, getId, tagger, tagId, fdObj, misuse >>
allVars == << vars, tagVars >>

TagInit ==
    /\ Init
    /\ tpc = "idle"
    /\ tpending = FALSE
    /\ getId = "null"
    /\ tagger = "null"
    /\ tagId = "null"
    /\ fdObj = "null"
    /\ misuse = {}

\* A JNI call `c` is made: record it if an exception is pending or one of
\* the handles it needs is null.
Use(c, handlesOk) ==
    misuse' = IF tpending \/ ~handlesOk THEN misuse \cup {c} ELSE misuse

\* Outcome of call c: it returns normally or, if it may fail, throws.
Outcome(c) == IF c \in MayFail THEN BOOLEAN ELSE {FALSE}

(* A socket native of the library creates a socket and calls tagSocket,    *)
(* perhaps with an exception already pending.  Its natives run only while *)
(* the library is loaded: the VM unloads it once its class loader is gone. *)
TagSocketCall ==
    /\ tpc = "idle"
    /\ ~aborted /\ loaded
    /\ tpc' = "entry"
    /\ tpending' \in BOOLEAN
    /\ UNCHANGED << getId, tagger, tagId, fdObj, misuse >>

(* `if (env->ExceptionOccurred()) { return fd; }`                          *)
TagSocketEntry ==
    /\ tpc = "entry"
    /\ tpc' = IF tpending THEN "idle" ELSE "getStatic"
    /\ UNCHANGED << tpending, getId, tagger, tagId, fdObj, misuse >>

(* GetStaticMethodID(socketTaggerClass, "get", ...).                       *)
GetStaticMethodId ==
    /\ tpc = "getStatic"
    /\ tpc' = "callGet"
    /\ Use("GetStaticMethodID", TRUE)
    /\ \E fail \in Outcome("GetStaticMethodID") :
          /\ getId' = IF fail THEN "null" ELSE "valid"
          /\ tpending' = (tpending \/ fail)
    /\ UNCHANGED << tagger, tagId, fdObj >>

(* CallStaticObjectMethod(socketTaggerClass, get): SocketTagger.get().     *)
CallGet ==
    /\ tpc = "callGet"
    /\ tpc' = "getTag"
    /\ Use("get", getId = "valid")
    /\ \E fail \in Outcome("get") :
          /\ tagger' = IF fail THEN "null" ELSE "obj"
          /\ tpending' = (tpending \/ fail)
    /\ UNCHANGED << getId, tagId, fdObj >>

(* GetMethodID(socketTaggerClass, "tag", "(Ljava/io/FileDescriptor;)V").   *)
GetTagId ==
    /\ tpc = "getTag"
    /\ tpc' = "createFd"
    /\ Use("GetMethodID", TRUE)
    /\ \E fail \in Outcome("GetMethodID") :
          /\ tagId' = IF fail THEN "null" ELSE "valid"
          /\ tpending' = (tpending \/ fail)
    /\ UNCHANGED << getId, tagger, fdObj >>

(* jniCreateFileDescriptor(env, fd): allocates a java.io.FileDescriptor.   *)
CreateFd ==
    /\ tpc = "createFd"
    /\ tpc' = "callTag"
    /\ Use("jniCreateFileDescriptor", TRUE)
    /\ \E fail \in Outcome("jniCreateFileDescriptor") :
          /\ fdObj' = IF fail THEN "null" ELSE "obj"
          /\ tpending' = (tpending \/ fail)
    /\ UNCHANGED << getId, tagger, tagId >>

(* CallVoidMethod(socketTagger, tag, fileDescriptor); return fd with any   *)
(* exception tag() threw left pending for the caller.                      *)
CallTag ==
    /\ tpc = "callTag"
    /\ tpc' = "idle"
    /\ Use("tag", tagger = "obj" /\ tagId = "valid")
    /\ \E fail \in Outcome("tag") : tpending' = (tpending \/ fail)
    /\ UNCHANGED << getId, tagger, tagId, fdObj >>

\* The life cycle moves only while no thread is inside tagSocket: unload
\* and VM shutdown wait for the library's natives to return.
LifecycleStep ==
    /\ tpc = "idle"
    /\ Next
    /\ UNCHANGED tagVars

TagStep ==
    /\ \/ TagSocketCall
       \/ TagSocketEntry
       \/ GetStaticMethodId
       \/ CallGet
       \/ GetTagId
       \/ CreateFd
       \/ CallTag
    /\ UNCHANGED vars

TagNext == LifecycleStep \/ TagStep

TagSpec == TagInit /\ [][TagNext]_allVars

-----------------------------------------------------------------------------
(* tagSocket makes no JNI call, other than ExceptionOccurred, while an     *)
(* exception is pending, and never calls through a null jmethodID or       *)
(* receiver: what CheckJNI aborts on.                                      *)
NoJniCallWhilePending ==
    misuse = {}

=============================================================================
