------------------------------- MODULE Partners -------------------------------
(***************************************************************************)
(* The partners of a company or a creator                                  *)
(* (src/src/partners/partners.service.ts): those they share tasks with,    *)
(* and those they applied to or who applied to them.  A list is put        *)
(* together from two queries, or three, with other requests in between;    *)
(* which come first depends on the order asked for.  Names and roles of    *)
(* profiles stay as they are.                                              *)
(*                                                                         *)
(* A row is a task of the viewer's, or an application.  The pages are as   *)
(* long as the list.                                                       *)
(*                                                                         *)
(* A definition marked "mutant" is one below it with a mistake in it; it   *)
(* is used nowhere.                                                        *)
(***************************************************************************)
EXTENDS Naturals, FiniteSets

CONSTANTS
  Partner,   \* profiles on the other side of a row
  Otherwise, \* those of them whose role is not the one the list is about
  Named,     \* those whose name has the words looked for
  Row,       \* uuids of tasks or applications
  Titled,    \* the applications to a post whose title has these words
  NoPartner, \* a task without an executor
  LastTime   \* bounds how often rows are written

VARIABLES
  kind,   \* the route, which is what the rows are
  row,    \* the Task or PostApplication rows of the viewer
  clock,  \* the last updatedAt
  reader  \* the request under way, and its answer

vars == <<kind, row, clock, reader>>
-----------------------------------------------------------------------------
Route == {"executors", "customers", "applicants", "companies"}
OfTasks == {"executors", "customers"}

Absent == [partner |-> NoPartner, found |-> FALSE, updatedAt |-> 0]

Idle == [pc |-> "idle"]

Init ==
  /\ kind \in Route
  /\ row = [i \in Row |-> Absent]
  /\ clock = 0
  /\ reader = Idle

HasName(p, q) == q => p \in Named

\* The rows a query of the list finds, by the filters on the status, the day, the
\* post and the approval (they decide "found"), and a task by the name of its
\* partner, an application by the title of its post too.
Found(q) ==
  {i \in Row : /\ row[i].partner # NoPartner
               /\ row[i].found
               /\ \/ HasName(row[i].partner, q)
                  \/ kind \notin OfTasks /\ i \in Titled}

Latest(rows) == CHOOSE t \in {row[i].updatedAt : i \in rows} :
                  \A i \in rows : row[i].updatedAt <= t

\* _count and _max of the rows of a partner, interactions that never were for none.
Statistics(p, rows) ==
  LET own == {i \in rows : row[i].partner = p}
  IN  IF own = {} THEN [partner |-> p, interactions |-> 0, last |-> 0]
      ELSE [partner |-> p, interactions |-> Cardinality(own), last |-> Latest(own)]

\* groupBy
Groups(rows) == {Statistics(p, rows) : p \in {row[i].partner : i \in rows}}
-----------------------------------------------------------------------------
(* Rows are made, change what filters look at, and change hands.            *)

\* A request that is put together of what was before and what is after.
Moved ==
  IF reader.pc \in {"count", "find", "second"} THEN [reader EXCEPT !.moved = @ + 1] ELSE reader

Write(i, p, found) ==
  /\ clock < LastTime
  /\ clock' = clock + 1
  /\ row' = [row EXCEPT ![i] = [partner |-> p, found |-> found, updatedAt |-> clock + 1]]
  /\ reader' = Moved
  /\ UNCHANGED kind

\* Only the executor of a task is ever another.
Change(i, p, found) ==
  /\ row[i] # Absent /\ kind # "executors" => p = row[i].partner
  /\ p = NoPartner => kind = "executors"
  /\ Write(i, p, found)
-----------------------------------------------------------------------------
\* sort=recent: the rows are grouped by partner.
GroupRows(q) ==
  /\ reader = Idle
  /\ reader' = [pc |-> "second", sort |-> "recent", q |-> q, moved |-> 0,
                groups |-> Groups(Found(q)), due |-> Groups(Found(q))]
  /\ UNCHANGED <<kind, row, clock>>

TasksByRecent(q) == kind \in OfTasks /\ GroupRows(q)
ApplicantsByRecent(q) == kind = "applicants" /\ GroupRows(q)

\* The companies applied to are grouped first in either order.
CompaniesAggregated(q) == kind = "companies" /\ GroupRows(q)

\* sort=name: the profiles by their names and by having a row.
Profiles(q) ==
  {p \in Partner \ Otherwise : HasName(p, q) /\ \E i \in Found(q) : row[i].partner = p}

\* Promise.all: findMany and count are two statements, and either may come first.
FindFirst(q) ==
  /\ reader = Idle
  /\ reader' = [pc |-> "count", sort |-> "name", q |-> q, moved |-> 0,
                profiles |-> Profiles(q), due |-> Groups(Found(q))]
  /\ UNCHANGED <<kind, row, clock>>

CountFirst(q) ==
  /\ reader = Idle
  /\ reader' = [pc |-> "find", sort |-> "name", q |-> q, moved |-> 0,
                total |-> Cardinality(Profiles(q))]
  /\ UNCHANGED <<kind, row, clock>>

FindNames(q) == FindFirst(q) \/ CountFirst(q)

TasksByName(q) == kind \in OfTasks /\ FindNames(q)
ApplicantsByName(q) == kind = "applicants" /\ FindNames(q)

\* The other of the two; `apart` is how many rows were written in between.
CountProfiles ==
  /\ reader.pc = "count"
  /\ reader' = [pc |-> "second", sort |-> "name", q |-> reader.q, moved |-> reader.moved,
                profiles |-> reader.profiles, due |-> reader.due,
                total |-> Cardinality(Profiles(reader.q)), apart |-> reader.moved]
  /\ UNCHANGED <<kind, row, clock>>

FindProfiles ==
  /\ reader.pc = "find"
  /\ reader' = [pc |-> "second", sort |-> "name", q |-> reader.q, moved |-> 0,
                profiles |-> Profiles(reader.q), due |-> Groups(Found(reader.q)),
                total |-> reader.total, apart |-> reader.moved]
  /\ UNCHANGED <<kind, row, clock>>

Answer(items, total, apart) ==
  reader' = [pc |-> "done", sort |-> reader.sort, q |-> reader.q, moved |-> reader.moved,
             due |-> reader.due, items |-> items, total |-> total, apart |-> apart]

\* The profiles of the groups, in the role the list is about.
FindUsers ==
  /\ reader.pc = "second" /\ reader.sort = "recent"
  /\ Answer({g \in reader.groups : g.partner \notin Otherwise},
            Cardinality(reader.groups), 0)
  /\ UNCHANGED <<kind, row, clock>>

\* The statistics of the profiles, by some rows; none of them is left out.
Count(rows) ==
  /\ reader.pc = "second" /\ reader.sort = "name"
  /\ Answer({Statistics(p, rows) : p \in reader.profiles}, reader.total, reader.apart)
  /\ UNCHANGED <<kind, row, clock>>

AllRows == {i \in Row : row[i].partner # NoPartner}  \* mutant

\* getTaskPartnerStats: by the filters, but for the name.
TaskRows == Found(FALSE)

CountTasks == kind \in OfTasks /\ Count(TaskRows)

\* getApplicationApplicantStats
CountApplications == kind \notin OfTasks /\ Count(Found(reader.q))

Close ==
  /\ reader.pc = "done"
  /\ reader' = Idle
  /\ UNCHANGED <<kind, row, clock>>

Next ==
  \/ \E i \in Row, p \in Partner \cup {NoPartner}, found \in BOOLEAN : Change(i, p, found)
  \/ \E q \in BOOLEAN :
       \/ TasksByRecent(q) \/ ApplicantsByRecent(q) \/ CompaniesAggregated(q)
       \/ TasksByName(q) \/ ApplicantsByName(q)
  \/ CountProfiles \/ FindProfiles
  \/ FindUsers \/ CountTasks \/ CountApplications \/ Close

Spec == Init /\ [][Next]_vars
-----------------------------------------------------------------------------
(* Properties                                                               *)

Partners(groups) == {g.partner : g \in groups}

\* Whichever order is asked for, the list has the partners whose rows were found,
\* in the role it is about, with what they have done; by name it can only show a row
\* that went in between as no interaction, and misses an applicant whose name does
\* not have the words though the post has them.  Only sort=recent counts in its total
\* the partners it does not show (partners.service.ts:215 and :279, :348 and :401); by
\* name the total is of another moment than the list (:279, :401), and no further from
\* its length than rows were written between the two.
SortsAgree ==
  reader.pc = "done" =>
    LET due == {g \in reader.due : g.partner \notin Otherwise}
        byTitle == kind = "applicants" /\ reader.q /\ reader.sort = "name"
        expected == IF byTitle THEN {g \in due : g.partner \in Named} ELSE due
        shown == Cardinality(reader.items)
    IN  /\ reader.moved = 0 \/ reader.sort = "recent" => reader.items = expected
        /\ Partners(reader.items) = Partners(expected)
        /\ reader.sort = "recent" =>
             reader.total = shown + Cardinality(reader.due \ due)
        /\ reader.sort = "name" =>
             reader.total <= shown + reader.apart /\ shown <= reader.total + reader.apart
=============================================================================
