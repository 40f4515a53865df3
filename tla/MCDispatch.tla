----------------------------- MODULE MCDispatch -----------------------------
(***************************************************************************)
(* Processes for Dispatch: an executable that imports functions of a       *)
(* trusted C library and of an untrusted one, with and without copies.     *)
(***************************************************************************)
EXTENDS Dispatch

\* An image has its PLT at 1, a function at 10, and data from 13 on; every
\* import is of that function.
Code(image) == image + 10
Seg(lo, hi, flags) == [lo |-> lo, hi |-> hi, flags |-> flags]

TwoSegments(image) ==
    << Seg(image, image + 12, {"R", "X"}),
       Seg(image + 13, image + 16, {"R", "W"}) >>
FiveSegments(image) ==
    << Seg(image, image + 1, {"R"}),
       Seg(image + 1, image + 11, {"R", "X"}),
       Seg(image + 11, image + 12, {"R"}),
       Seg(image + 13, image + 14, {"R", "W"}),
       Seg(image + 14, image + 16, {"R", "W"}) >>

Obj(name, image, interp, segs, imports) ==
    [ name |-> name, base |-> IF name = "exe" THEN 0 ELSE image,
      interp |-> interp, segs |-> segs, plt |-> image + 1, behind |-> image + 13,
      binds |-> [i \in DOMAIN imports |-> Code(imports[i])] ]

\* The images: trusted ones, the executable, and untrusted ones above it.
libc == 20
ld == 40
exe == 100
lib == 200
libcCopy == 220
ldCopy == 240
other == 260

\* 1 executable, 2 trusted C library, 3 untrusted library, 4 linker. The C
\* library calls the executable back.
Main(imports) == Obj("exe", exe, FALSE, TwoSegments(exe), imports)
Libc == Obj("libc", libc, FALSE, TwoSegments(libc), <<libc, ld, exe>>)
Untrusted(imports) == Obj("lib", lib, FALSE, FiveSegments(lib), imports)
Linker == Obj("ld", ld, TRUE, TwoSegments(ld), <<libc>>)
Imports == <<libc, lib, libc, lib, libc, exe>>

\* No copies.
Plain ==
    [ objects |-> <<Main(Imports), Libc, Untrusted(<<libc, lib>>), Linker>>,
      first   |-> <<1, 2, 3, 4>>,
      second  |-> <<>>,
      relinks |-> FALSE ]

\* 5 copy of the C library, 6 copy of the linker.
Copied ==
    [ objects |-> <<Main(Imports), Libc, Untrusted(<<libc, lib>>), Linker,
                    Obj("libc", libcCopy, FALSE, FiveSegments(libcCopy),
                        <<libcCopy, ldCopy>>),
                    Obj("ld", ldCopy, TRUE, TwoSegments(ldCopy), <<libcCopy>>)>>,
      first   |-> <<1, 2, 3, 4>>,
      second  |-> <<1, 5, 6>>,
      relinks |-> FALSE ]

\* The second import of the executable is trusted, and the second linker writes
\* the entries anew or leaves them as stage 2 made them.
Rewritten(relinks) ==
    [Copied EXCEPT !.objects[1] = Main(<<lib, libc, lib>>), !.relinks = relinks]

\* The second link map lists the copies first; the untrusted library is bound
\* to the copy.
Reordered ==
    [Copied EXCEPT !.second = <<6, 5, 1>>,
                   !.objects[3] = Untrusted(<<libcCopy, lib>>)]

\* Untrusted libraries without PLT, with a single import, and with two. Behind
\* the GOT of a single import there is a word of data, which may be 0.
Unhooked ==
    [ objects |-> <<Main(<<libc, lib, other>>), Libc, Untrusted(<<>>), Linker,
                    Obj("other", other, FALSE, TwoSegments(other), <<libc, lib>>)>>,
      first   |-> <<1, 2, 3, 4, 5>>,
      second  |-> <<>>,
      relinks |-> FALSE ]
Single ==
    [Unhooked EXCEPT !.objects[3] = Untrusted(<<other>>)]
Zeroed == [Single EXCEPT !.objects[3].behind = 0]

\* The second linker maps the untrusted library once more.
Twice ==
    [Copied EXCEPT
        !.objects = Append(@, Obj("lib", other, FALSE, TwoSegments(other),
                                  <<libcCopy, other>>)),
        !.second = <<1, 5, 6, 7>>]

MCLayouts ==
    { Plain, Copied, Rewritten(TRUE), Rewritten(FALSE), Reordered, Unhooked,
      Single, Zeroed, Twice }
NotRelinked == {Rewritten(FALSE)}

=============================================================================
