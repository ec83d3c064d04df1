---------------------------- MODULE MCImageCache ----------------------------
(* Instances of ImageCache for TLC.                                        *)
EXTENDS ImageCache, TLC

CONSTANTS t1, t2, t3, t4, hello, native, amd64

(* Two threads build the same environment and two pull the same image.     *)
MCMode == t1 :> "build" @@ t2 :> "build" @@ t3 :> "pull" @@ t4 :> "pull"
MCImage == t1 :> native @@ t2 :> native @@ t3 :> hello @@ t4 :> hello
(* ... on an arm64 host, where a build may fall back to linux/amd64.       *)
MCCompat == t1 :> amd64 @@ t2 :> amd64 @@ t3 :> NoRef @@ t4 :> NoRef

=============================================================================
