------------------------------- MODULE MCSdp --------------------------------
(* Instances of Sdp for TLC. *)
EXTENDS Sdp, TLC

Tok(f)      == [file |-> f, x |-> FALSE, args |-> -1]
Exe(f)      == [file |-> f, x |-> TRUE, args |-> -1]
With(f, n)  == [file |-> f, x |-> FALSE, args |-> n]

\* A kernel with plugin, one without, one that ends before its size, one that ends
\* before its IVT, one too small; programs of one chunk, of several, an empty and a
\* missing one.
Files == "kp" :> 12 @@ "k" :> 10 @@ "k8" :> 8 @@ "k6" :> 6 @@ "k1" :> 5
         @@ "p" :> 1 @@ "q" :> 5 @@ "e" :> 0 @@ "none" :> -1

\* What the kernel states is the size of its plugin.
PluginSize == 12
MCGarbage  == {-1, 6, 30}
Used(j) == {j.kernel} \cup {(j.console \o j.initrd \o j.append)[i].file :
                            i \in DOMAIN (j.console \o j.initrd \o j.append)}
Job(via, plugin, sameid, kernel, console, initrd, append) ==
    LET j == [via |-> via, plugin |-> plugin, plugin_sz |-> PluginSize, sameid |-> sameid, kernel |-> kernel,
              console |-> console, initrd |-> initrd, append |-> append]
    IN  j @@ [size |-> [f \in Used(j) |-> Files[f]]]

MCJobs == {
    \* --sdp: arguments at and over the limit, empty arguments and contents, a ROM with
    \* the loader's identity, a missing module, no modules, kernels at the limits
    Job("imx", FALSE, FALSE, "k", <<Exe("q")>>, <<Tok("p")>>, <<With("e", 2), With("p", 1)>>),
    Job("imx", FALSE, TRUE, "k", <<Exe("p")>>, <<>>, <<>>),
    Job("imx", FALSE, FALSE, "k", <<>>, <<Tok("p")>>, <<With("p", 0), Tok("none")>>),
    Job("imx", FALSE, FALSE, "k8", <<>>, <<Tok("q")>>, <<>>),
    Job("imx", FALSE, FALSE, "k6", <<>>, <<>>, <<>>),
    Job("imx", FALSE, FALSE, "k1", <<>>, <<>>, <<>>),
    \* --upload
    Job("imx", TRUE, FALSE, "kp", <<>>, <<Tok("p")>>, <<Tok("q")>>),
    \* --plugin: all programs in the image, some that cannot be opened, too many; a
    \* kernel that is no plugin
    Job("boot", TRUE, FALSE, "kp", <<Tok("p")>>, <<Tok("none")>>, <<With("q", 1), Tok("q")>>),
    Job("boot", TRUE, FALSE, "kp", <<Tok("p")>>, <<Tok("none")>>, <<Tok("e"), Tok("p"), Tok("p")>>),
    Job("boot", TRUE, FALSE, "k", <<Tok("p")>>, <<>>, <<>>),
    Job("boot", TRUE, FALSE, "k8", <<Tok("q")>>, <<>>, <<>>),
    \* -o and -u
    Job("output", FALSE, FALSE, "k", <<Tok("p")>>, <<>>, <<Exe("q"), Tok("e")>>),
    Job("output", TRUE, FALSE, "kp", <<>>, <<>>, <<Tok("p")>>),
    Job("file", FALSE, FALSE, "k", <<>>, <<>>, <<>>),
    Job("file", FALSE, FALSE, "none", <<>>, <<>>, <<>>)}
=============================================================================
