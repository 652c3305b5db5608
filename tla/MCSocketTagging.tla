--------------------------- MODULE MCSocketTagging ---------------------------
(* tagSocket over the three-VM life cycle of MCJniLifecycle.               *)
EXTENDS SocketTagging, MCJniLifecycle

\* Only SocketTagger.tag() throws: the methods exist in the boot class and
\* get() returns a static field.
MCMayFailTag == {"tag"}

\* jniCreateFileDescriptor may also fail (NewObject out of memory).
MCMayFailAlloc == {"jniCreateFileDescriptor", "tag"}
=============================================================================
