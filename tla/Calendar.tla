------------------------------ MODULE Calendar ------------------------------
(***************************************************************************)
(* Time of day and calendar: localtime.c and strftime.c.  A time is the    *)
(* seconds since 1970, not negative, of 31 bits; zone is timezone, the     *)
(* seconds west of Greenwich.                                              *)
(***************************************************************************)
EXTENDS Printing

SPD == 24 * 60 * 60
Dpm == <<31, 28, 31, 30, 31, 30, 31, 31, 30, 31, 30, 31>>
Leap(y) == IF (y % 4 = 0 /\ y % 100 # 0) \/ y % 400 = 0 THEN 1 ELSE 0

RECURSIVE YearOf(_, _), MonthOf(_, _)
YearOf(i, days) == IF days >= 365 + Leap(i) THEN YearOf(i + 1, days - 365 - Leap(i))
                   ELSE [year |-> i, yday |-> days]
MonthOf(i, days) == IF i < 11 /\ days >= Dpm[i + 1] THEN MonthOf(i + 1, days - Dpm[i + 1])
                    ELSE [mon |-> i, days |-> days]

\* Fault: the days behind 29 February are a day too far.
LeapDayKept(year, yday) == 0

\* The 29th of February, which the table of the months has not, counts from there on.
LeapDay(year, yday) == IF Leap(year) = 1 /\ yday >= 59 THEN 1 ELSE 0

\* tp2tm()
Tp2tm(t) ==
    LET rem  == t % SPD
        y    == YearOf(1970, t \div SPD)
        m    == MonthOf(0, y.yday - LeapDay(y.year, y.yday))
        feb29 == Leap(y.year) = 1 /\ y.yday = 59
    IN  [sec |-> rem % 60, min |-> (rem \div 60) % 60, hour |-> rem \div 3600,
         wday |-> (4 + t \div SPD) % 7, year |-> y.year - 1900, yday |-> y.yday,
         mon |-> m.mon, mday |-> m.days + IF feb29 THEN 2 ELSE 1]

Localtime(t, zone) == Tp2tm(t - zone)
Gmtime(t) == Tp2tm(t)

\* mktime(), which takes the fields as they are.
Mktime(tm, zone) ==
    LET years == MapThenSumSet(LAMBDA i : 365 + Leap(1900 + i), 70 .. tm.year - 1)
        yday  == tm.mday - 1 + FoldLeft(LAMBDA a, b : a + b, 0, SubSeq(Dpm, 1, tm.mon))
                   + IF tm.mon > 1 THEN Leap(1900 + tm.year) ELSE 0
    IN  (years + yday) * SPD + tm.hour * 3600 + tm.min * 60 + tm.sec + zone

-------------------------------------------------------------------------------
(***************************************************************************)
(* strftime().  A name of a day or month is its number; %%, %n and %t are  *)
(* one character each, %? is any conversion it does not know, and the      *)
(* other characters of a format stand for themselves.                      *)
(***************************************************************************)
\* puti(): wid digits, the rest cut; blanks for zeros before the last one.
Puti(n, wid, zpad) ==
    [i \in 1 .. wid |-> IF zpad \/ i = wid \/ n \div 10 ^ (wid - i) > 0
                          THEN Digs[((n \div 10 ^ (wid - i)) % 10) + 1] ELSE " "]
Puttz(zone) ==
    LET d == IF zone \div 60 < 0 THEN -(zone \div 60) ELSE zone \div 60
    IN  <<IF zone \div 60 < 0 THEN "+" ELSE "-">> \o Puti(d \div 60, 2, TRUE) \o Puti(d % 60, 2, TRUE)

Twelve(hour) == LET h == IF hour > 12 THEN hour - 12 ELSE hour IN IF h = 0 THEN 12 ELSE h

\* The conversions that stand for a format of their own.
Composite == [D |-> <<"%m", "/", "%d", "/", "%y">>, F |-> <<"%Y", "-", "%m", "-", "%d">>,
              r |-> <<"%I", ":", "%M", ":", "%S", " ", "%p">>, R |-> <<"%H", ":", "%M">>,
              T |-> <<"%H", ":", "%M", ":", "%S">>, x |-> <<"%b", " ", "%a", " ", "%d">>]

Name(kind, i) == << <<kind, i>> >>
Simple(c, tm, zone) ==
    CASE c \in {"%a", "%A"} -> Name("day", tm.wday)
      [] c \in {"%b", "%h", "%B"} -> Name("month", tm.mon)
      [] c = "%C" -> Puti((1900 + tm.year) \div 100, 2, TRUE)
      [] c = "%d" -> Puti(tm.mday, 2, TRUE)        [] c = "%e" -> Puti(tm.mday, 2, FALSE)
      [] c \in {"%H", "%k"} -> Puti(tm.hour, 2, TRUE)
      [] c = "%I" -> Puti(Twelve(tm.hour), 2, TRUE)
      [] c = "%j" -> Puti(tm.yday + 1, 3, TRUE)    [] c = "%m" -> Puti(tm.mon + 1, 2, TRUE)
      [] c = "%M" -> Puti(tm.min, 2, TRUE)         [] c = "%S" -> Puti(tm.sec, 2, TRUE)
      [] c = "%p" -> IF tm.hour >= 12 THEN <<"P", "M">> ELSE <<"A", "M">>
      [] c = "%P" -> IF tm.hour >= 12 THEN <<"p", "m">> ELSE <<"a", "m">>
      [] c = "%s" -> NumberText(Mktime(tm, zone), 10, Digs)
      [] c = "%u" -> Puti(IF tm.wday = 0 THEN 7 ELSE tm.wday, 1, FALSE)
      [] c = "%w" -> Puti(tm.wday, 1, FALSE)       [] c = "%y" -> Puti(tm.year % 100, 2, TRUE)
      [] c = "%Y" -> Puti(1900 + tm.year, 4, TRUE) [] c = "%z" -> Puttz(zone)
      [] c = "%Z" -> <<"U", "T", "C">>
      [] c \in {"%%", "%n", "%t"} -> <<c>>         [] c = "%?" -> <<>>
      [] OTHER -> <<c>>

\* The text for n places: there must be one, and one for the end, before each
\* character and conversion of the format, not behind it.
RECURSIVE Strftime(_, _, _, _)
Strftime(n, format, tm, zone) ==
    LET whole == CHOOSE k \in DOMAIN Composite \cup {"none"} :
                    IF \E x \in DOMAIN Composite : "%" \o x = format[1]
                      THEN k # "none" /\ "%" \o k = format[1] ELSE k = "none"
        text  == IF whole = "none" THEN Simple(format[1], tm, zone)
                 ELSE Strftime(n, Composite[whole], tm, zone)
    IN  IF n <= 1 \/ format = <<>> THEN <<>>
        ELSE text \o Strftime(n - Len(text), Tail(format), tm, zone)

-------------------------------------------------------------------------------
\* The days from 1 January 1970 to a date of the Gregorian calendar.
DaysTo(y, mon, mday) ==
    LET before == y - 1
        leaps  == (before \div 4) - (before \div 100) + (before \div 400) - 477
        march  == IF mon > 1 THEN Leap(y) ELSE 0
        months == <<0, 31, 59, 90, 120, 151, 181, 212, 243, 273, 304, 334>>
    IN  (y - 1970) * 365 + leaps + months[mon + 1] + march + mday - 1

\* localtime and mktime are inverses (localtime.c:71-76 asks it of them), at
\* 29 February too; the fields are the date of the Gregorian calendar; and
\* strftime's %s, %F and %I %p say the same.
KeepsTime(t, zone) ==
    LET tm      == Localtime(t, zone)
        text(f) == Strftime(40, f, tm, zone)
        date    == text(<<"%F">>)
    IN  /\ Mktime(tm, zone) = t
        /\ tm.mon \in 0 .. 11 /\ tm.hour \in 0 .. 23 /\ tm.min \in 0 .. 59
        /\ tm.mday \in 1 .. Dpm[tm.mon + 1] + IF tm.mon = 1 THEN Leap(1900 + tm.year) ELSE 0
        /\ DaysTo(1900 + tm.year, tm.mon, tm.mday) = (t - zone) \div SPD
        /\ DaysTo(1900 + tm.year, 0, 1) + tm.yday = (t - zone) \div SPD
        /\ NumberOf(text(<<"%s">>)) = t
        /\ DaysTo(NumberOf(SubSeq(date, 1, 4)), NumberOf(SubSeq(date, 6, 7)) - 1,
                  NumberOf(SubSeq(date, 9, 10))) = (t - zone) \div SPD
        /\ NumberOf(text(<<"%I">>)) \in 1 .. 12
        /\ (NumberOf(text(<<"%I">>)) % 12) + (IF text(<<"%p">>) = <<"P", "M">> THEN 12 ELSE 0) = tm.hour
===============================================================================
