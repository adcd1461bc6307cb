---------------------------- MODULE MCHttpRequest ----------------------------
EXTENDS HttpRequest

Sends(bytes, n, untilEnd) == [wire |-> bytes, body |-> n, closing |-> untilEnd]

Fixed(n) == HeadEnd(200, "fixed", n)

Plain == Sends(<<Byte("head"), Fixed(2), Datum(1), Datum(2), Byte("head")>>, 2, FALSE)
Early == Sends(<<HeadEnd(413, "fixed", 1), Datum(1)>>, 1, FALSE)
Empty == Sends(<<HeadEnd(100, "interim", 0), HeadEnd(204, "none", 0)>>, 0, FALSE)
Closing == Sends(<<HeadEnd(200, "close", 0), Datum(1), Datum(2)>>, 2, TRUE)
Chunks == Sends(<<HeadEnd(200, "chunked", 0), Byte("line"), SizeEnd(1), Datum(1), Byte("cr"), Byte("lf"),
                  SizeEnd(0), Byte("field"), Byte("end")>>, 1, FALSE)
TooMuch == Sends(<<HeadEnd(200, "close", 0), Datum(1), Datum(2), Datum(3)>>, 3, TRUE)
Reset == Sends(<<HeadEnd(205, "chunked", 0), SizeEnd(1), Datum(1)>>, 1, FALSE)

Whole == {Plain, Early, Empty, Closing, Chunks}
All == Whole \cup {TooMuch, Reset}
Some == {Early, Closing}

=============================================================================
